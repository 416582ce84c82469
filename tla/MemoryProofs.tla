---------------------------- MODULE MemoryProofs ----------------------------
(***************************************************************************)
(* The address spaces stay apart: proofs about Memory.                     *)
(***************************************************************************)
EXTENDS Memory, DataLemmas

(***************************************************************************)
(* Pages: the division of addresses.                                       *)
(***************************************************************************)
LEMMA PageSize == PAGE_SIZE \in Int /\ PAGE_SIZE > 1 /\ PAGE_SIZE > 0
  BY PageAllocAssumption

(* An address is the page it is in and its offset there. *)
LEMMA Floor ==
  ASSUME NEW n \in Nat
  PROVE  \E q \in Nat, r \in Nat :
           /\ q = n \div PAGE_SIZE /\ r = n % PAGE_SIZE /\ r < PAGE_SIZE
           /\ n = PAGE_SIZE * q + r
           /\ page_floor(n) = PAGE_SIZE * q /\ PAGE_SIZE * q \in Nat
<1>1. PICK P \in Int : P = PAGE_SIZE /\ P > 0
  BY PageSize
<1>2. PICK q \in Int : q = n \div P
  BY <1>1, Z3
<1>3. PICK r \in Int : r = n % P /\ 0 <= r /\ r < P
  BY <1>1, Z3
<1>4. n = P * q + r
  BY <1>1, <1>2, <1>3, ModRange
<1>5. q >= 0
  <2>1. SUFFICES ASSUME q <= -1 PROVE FALSE
    BY <1>2
  <2>2. P * q <= -P
    BY <1>1, <2>1, Z3
  <2> QED BY <1>1, <1>3, <1>4, <2>2
<1>6. P * q \in Nat
  BY <1>1, <1>5, Z3
<1>7. page_floor(n) = q * PAGE_SIZE
  BY <1>1, <1>2 DEF page_floor
<1>8. q * P = P * q
  BY <1>1, Z3
<1> QED BY <1>1, <1>2, <1>3, <1>4, <1>5, <1>6, <1>7, <1>8

(* Multiples of the page size. *)
LEMMA Multiples ==
  ASSUME NEW k \in Nat
  PROVE  /\ PAGE_SIZE * k \in Nat /\ k * PAGE_SIZE = PAGE_SIZE * k
         /\ is_page_aligned(PAGE_SIZE * k) /\ (PAGE_SIZE * k) \div PAGE_SIZE = k
<1>1. PICK P \in Int : P = PAGE_SIZE /\ P > 0
  BY PageSize
<1>2. P * k \in Nat /\ k * P = P * k
  BY <1>1, Z3
<1>3. (P * k) % P = 0 /\ (P * k) \div P = k
  <2>1. PICK a \in Int : a = P * k
    BY <1>2
  <2>2. a = P * k + 0
    BY <2>1
  <2>3. a % P = 0 /\ a \div P = k
    BY <1>1, <2>2, ModUnique, DivUnique
  <2> QED BY <2>1, <2>3
<1> QED BY <1>1, <1>2, <1>3 DEF is_page_aligned

(* Aligned addresses are the multiples of the page size. *)
LEMMA Aligned ==
  ASSUME NEW n \in Nat, is_page_aligned(n)
  PROVE  \E k \in Nat : n = PAGE_SIZE * k /\ k = n \div PAGE_SIZE /\ page_floor(n) = n
<1>1. PICK q \in Nat, r \in Nat :
           /\ q = n \div PAGE_SIZE /\ r = n % PAGE_SIZE /\ r < PAGE_SIZE
           /\ n = PAGE_SIZE * q + r
           /\ page_floor(n) = PAGE_SIZE * q /\ PAGE_SIZE * q \in Nat
  BY Floor
<1>2. r = 0
  BY <1>1 DEF is_page_aligned
<1>3. n = PAGE_SIZE * q
  BY <1>1, <1>2
<1> QED BY <1>1, <1>3

LEMMA FloorAligned ==
  ASSUME NEW n \in Nat
  PROVE  /\ page_floor(n) \in Nat /\ page_floor(n) <= n /\ n < page_floor(n) + PAGE_SIZE
         /\ is_page_aligned(page_floor(n)) /\ page_floor(n) + (n % PAGE_SIZE) = n
         /\ n % PAGE_SIZE \in 0 .. PAGE_SIZE - 1
<1>1. PICK q \in Nat, r \in Nat :
           /\ q = n \div PAGE_SIZE /\ r = n % PAGE_SIZE /\ r < PAGE_SIZE
           /\ n = PAGE_SIZE * q + r
           /\ page_floor(n) = PAGE_SIZE * q /\ PAGE_SIZE * q \in Nat
  BY Floor
<1>2. is_page_aligned(page_floor(n))
  BY <1>1, Multiples
<1>3. PICK f \in Nat : f = PAGE_SIZE * q
  BY <1>1
<1>4. f <= n /\ n < f + PAGE_SIZE /\ f + r = n
  BY <1>1, <1>3, PageSize
<1>5. r < PAGE_SIZE /\ page_floor(n) = PAGE_SIZE * q
  BY <1>1, Zenon
<1>6. r \in 0 .. PAGE_SIZE - 1
  BY <1>5, PageSize
<1>7. r = n % PAGE_SIZE /\ page_floor(n) = f
  BY <1>1, <1>3, Zenon
<1>8. page_floor(n) + (n % PAGE_SIZE) = n /\ n % PAGE_SIZE \in 0 .. PAGE_SIZE - 1
  <2>1. page_floor(n) + (n % PAGE_SIZE) = f + r
    BY <1>7
  <2> QED BY <1>4, <1>6, <1>7, <2>1, Zenon
<1>9. page_floor(n) \in Nat /\ page_floor(n) <= n /\ n < page_floor(n) + PAGE_SIZE
  BY <1>3, <1>4, <1>7
<1> QED BY <1>2, <1>8, <1>9, Zenon

LEMMA AlignedPlus ==
  ASSUME NEW a \in Nat, is_page_aligned(a), NEW k \in Nat
  PROVE  a + k * PAGE_SIZE \in Nat /\ is_page_aligned(a + k * PAGE_SIZE)
<1>1. PICK P \in Int : P = PAGE_SIZE /\ P > 0
  BY PageSize
<1>2. PICK q \in Nat : a = P * q
  BY <1>1, Aligned
<1>3. PICK s \in Nat : s = q + k
  OBVIOUS
<1>4. P * s = P * q + k * P /\ k * P \in Nat
  BY <1>1, <1>3, Z3
<1>5. is_page_aligned(P * s)
  BY <1>1, Multiples
<1> QED BY <1>1, <1>2, <1>4, <1>5

(* Two pages that share an address are one. *)
LEMMA SamePage ==
  ASSUME NEW a \in Nat, is_page_aligned(a), NEW b \in Nat, is_page_aligned(b),
         a < b + PAGE_SIZE, b < a + PAGE_SIZE
  PROVE  a = b
<1>1. PICK P \in Int : P = PAGE_SIZE /\ P > 0
  BY PageSize
<1>2. PICK i \in Nat : a = P * i
  BY <1>1, Aligned
<1>3. PICK j \in Nat : b = P * j
  BY <1>1, Aligned
<1>4. ~(i < j)
  <2>1. SUFFICES ASSUME i + 1 <= j PROVE FALSE
    OBVIOUS
  <2>2. P * i + P <= P * j
    BY <1>1, <2>1, Z3
  <2> QED BY <1>1, <1>2, <1>3, <2>2
<1>5. ~(j < i)
  <2>1. SUFFICES ASSUME j + 1 <= i PROVE FALSE
    OBVIOUS
  <2>2. P * j + P <= P * i
    BY <1>1, <2>1, Z3
  <2> QED BY <1>1, <1>2, <1>3, <2>2
<1> QED BY <1>2, <1>3, <1>4, <1>5

(* The address a page-table entry gives back. *)
LEMMA PteAddress ==
  ASSUME NEW pa \in Nat, is_page_aligned(pa), NEW flags
  PROVE  phys_addr(Pte(pa, flags)) = pa /\ Pte(pa, flags).flags = flags
<1>1. PICK k \in Nat : pa = PAGE_SIZE * k /\ k = pa \div PAGE_SIZE
  BY Aligned
<1>2. k * PAGE_SIZE = PAGE_SIZE * k
  BY Multiples
<1>3. phys_addr(Pte(pa, flags)) = k * PAGE_SIZE
  BY <1>1 DEF phys_addr, Pte
<1> QED BY <1>1, <1>2, <1>3 DEF Pte

----------------------------------------------------------------------------
(* The indices of a table, and those of an address. *)
Idx == 0 .. PAGE_SIZE - 1

LEMMA Parts ==
  ASSUME NEW va \in Nat
  PROVE  /\ va_parts(va).vpn2 \in Idx /\ va_parts(va).vpn1 \in Idx
         /\ va_parts(va).vpn0 \in Idx /\ va_parts(va).offset = va % PAGE_SIZE
<1>1. PICK P \in Int : P = PAGE_SIZE /\ P > 0
  BY PageSize
<1>2. \A n \in Int : n % P \in 0 .. P - 1
  <2> TAKE n \in Int
  <2>1. PICK r \in Int : r = n % P /\ 0 <= r /\ r < P
    BY <1>1, Z3
  <2> QED BY <1>1, <2>1
<1>3. \A n \in Int : n > 0 => va \div n \in Int
  BY ModRange
<1>4. P * P * P \in Int /\ P * P * P > 0 /\ P * P \in Int /\ P * P > 0
  <2>1. PICK s \in Int : s = P * P /\ s > 0
    BY <1>1, Z3
  <2>2. s * P > 0 /\ s * P \in Int
    BY <1>1, <2>1, Z3
  <2> QED BY <2>1, <2>2
<1>5. /\ va \div (P * P * P) \in Int /\ va \div (P * P) \in Int /\ va \div P \in Int
  BY <1>1, <1>3, <1>4, Zenon
<1>6. /\ (va \div (P * P * P)) % P \in 0 .. P - 1 /\ (va \div (P * P)) % P \in 0 .. P - 1
      /\ (va \div P) % P \in 0 .. P - 1
  BY <1>2, <1>5, Zenon
<1> QED BY <1>1, <1>6 DEF va_parts, PT_ENTRIES, Idx

(* An address below the limit is made of its indices. *)
LEMMA PartsSum ==
  ASSUME NEW va \in Nat, is_page_aligned(va), va < VaLimit
  PROVE  \E d \in Int :
           /\ d = PAGE_SIZE * va_parts(va).vpn2 + va_parts(va).vpn1
           /\ va = PAGE_SIZE * (PAGE_SIZE * d + va_parts(va).vpn0)
<1>1. PICK P \in Int : P = PAGE_SIZE /\ P > 0
  BY PageSize
<1>2. PICK k \in Nat : va = P * k /\ k = va \div P
  BY <1>1, Aligned
<1>3. PICK q \in Nat, r \in Nat : k = P * q + r /\ r < P /\ q = k \div P /\ r = k % P
  BY <1>1, Floor
<1>4. PICK t \in Nat, s \in Nat : q = P * t + s /\ s < P /\ t = q \div P /\ s = q % P
  BY <1>1, Floor
<1>5. PICK s2 \in Int : s2 = P * P /\ s2 > 0
  BY <1>1, Z3
<1>6. PICK s3 \in Int : s3 = s2 * P /\ s3 > 0
  BY <1>1, <1>5, Z3
<1>7. PICK x \in Int : x = P * r /\ 0 <= x /\ x <= s2 - P
  <2>1. PICK x \in Int : x = P * r
    BY <1>1, Z3
  <2>2. x >= 0
    BY <1>1, <1>3, <2>1, Z3
  <2>3. PICK u \in Int : u = P - 1 - r /\ u >= 0
    BY <1>1, <1>3
  <2>4. P * u >= 0
    BY <1>1, <2>3, Z3
  <2>5. P * u = P * P - P - P * r
    BY <1>1, <2>3, Z3
  <2> QED BY <1>1, <1>5, <2>1, <2>2, <2>4, <2>5
<1>8. PICK y \in Int : y = s2 * s /\ 0 <= y /\ y <= s3 - s2
  <2>1. PICK y \in Int : y = s2 * s
    BY <1>5, Z3
  <2>2. y >= 0
    BY <1>5, <1>4, <2>1, Z3
  <2>3. PICK u \in Int : u = P - 1 - s /\ u >= 0
    BY <1>1, <1>4
  <2>4. s2 * u >= 0
    BY <1>5, <2>3, Z3
  <2>5. s2 * u = s2 * P - s2 - s2 * s
    BY <1>1, <1>5, <2>3, Z3
  <2> QED BY <1>1, <1>6, <2>1, <2>2, <2>4, <2>5
<1>9. va = s2 * q + x
  <2>0. k = P * q + r
    BY <1>3, Zenon
  <2>1. va = P * (P * q) + P * r
    BY <1>1, <1>2, <2>0, Z3
  <2>2. P * (P * q) = s2 * q
    BY <1>1, <1>5, Z3
  <2> QED BY <1>7, <2>1, <2>2, Zenon
<1>10. va = s3 * t + (y + x)
  <2>0. q = P * t + s
    BY <1>4, Zenon
  <2>1. s2 * q = s2 * (P * t) + s2 * s
    BY <1>1, <1>5, <2>0, Z3
  <2>2. s2 * (P * t) = s3 * t
    BY <1>1, <1>5, <1>6, Z3
  <2>3. PICK z \in Int : z = s3 * t
    BY <1>6, Z3
  <2>4. s2 * q = z + y
    BY <1>8, <2>1, <2>2, <2>3, Zenon
  <2>5. va = (z + y) + x
    BY <1>9, <2>4, Zenon
  <2>6. va = z + (y + x)
    BY <1>7, <1>8, <2>3, <2>5
  <2> QED BY <2>3, <2>6, Zenon
<1>11. va \div s2 = q
  <2>1. 0 <= x /\ x < s2
    BY <1>1, <1>7
  <2> QED BY <1>5, <1>9, <2>1, DivUnique
<1>12. va \div s3 = t
  <2>1. y + x \in Int /\ 0 <= y + x /\ y + x < s3
    BY <1>1, <1>7, <1>8
  <2> QED BY <1>6, <1>10, <2>1, DivUnique
<1>13. t < P
  <2>1. SUFFICES ASSUME P <= t PROVE FALSE
    BY <1>1
  <2>2. s3 * P <= s3 * t
    BY <1>1, <1>6, <2>1, Z3
  <2>3. VaLimit = s3 * P
    <3>1. P * P * P * P = s3 * P
      BY <1>5, <1>6, Zenon
    <3> QED BY <1>1, <3>1 DEF VaLimit, PT_ENTRIES
  <2>4. PICK z \in Int : z = s3 * t
    BY <1>6, Z3
  <2>5. z <= va
    BY <1>7, <1>8, <1>10, <2>4
  <2>6. PICK w \in Int : w = s3 * P
    BY <1>1, <1>6, Z3
  <2> QED BY <2>2, <2>3, <2>4, <2>5, <2>6
<1>14. t % P = t
  BY <1>13, <1>1, Z3
<1>15. va_parts(va).vpn2 = t /\ va_parts(va).vpn1 = s /\ va_parts(va).vpn0 = r
  <2>1. /\ va_parts(va).vpn2 = (va \div (P * P * P)) % P
        /\ va_parts(va).vpn1 = (va \div (P * P)) % P
        /\ va_parts(va).vpn0 = (va \div P) % P
    BY <1>1 DEF va_parts, PT_ENTRIES
  <2>2. P * P * P = s3 /\ P * P = s2
    BY <1>5, <1>6, Zenon
  <2> QED BY <2>1, <2>2, <1>2, <1>3, <1>4, <1>11, <1>12, <1>14, Zenon
<1>16. q = P * t + s /\ va = P * (P * q + r) /\ q \in Int
  <2>1. va = P * k /\ k = P * q + r /\ q = P * t + s
    BY <1>2, <1>3, <1>4, Zenon
  <2>2. q \in Int
    OBVIOUS
  <2> QED BY <2>1, <2>2, Zenon
<1> QED BY <1>1, <1>15, <1>16, Zenon

(* Two pages with the same indices are one. *)
LEMMA PartsDiffer ==
  ASSUME NEW va \in Nat, is_page_aligned(va), va < VaLimit,
         NEW vb \in Nat, is_page_aligned(vb), vb < VaLimit,
         va_parts(va).vpn2 = va_parts(vb).vpn2, va_parts(va).vpn1 = va_parts(vb).vpn1,
         va_parts(va).vpn0 = va_parts(vb).vpn0
  PROVE  va = vb
<1>1. PICK a \in Int : /\ a = PAGE_SIZE * va_parts(va).vpn2 + va_parts(va).vpn1
                        /\ va = PAGE_SIZE * (PAGE_SIZE * a + va_parts(va).vpn0)
  BY PartsSum
<1>2. PICK b \in Int : /\ b = PAGE_SIZE * va_parts(vb).vpn2 + va_parts(vb).vpn1
                        /\ vb = PAGE_SIZE * (PAGE_SIZE * b + va_parts(vb).vpn0)
  BY PartsSum
<1>3. a = b
  BY <1>1, <1>2, Zenon
<1> QED BY <1>1, <1>2, <1>3, Zenon

(* The pages of the heap. *)
LEMMA HeapPages ==
  /\ \A i \in Nat : page_addr(i) \in Nat /\ page_idx(page_addr(i)) = i
  /\ \A page \in Heap :
       /\ page \in Nat /\ is_page_aligned(page) /\ page >= base_addr /\ page > 0
       /\ page_idx(page) \in 0 .. total_pages - 1 /\ page = page_addr(page_idx(page))
       /\ page + PAGE_SIZE <= page_addr(total_pages)
<1>1. PICK P \in Int : P = PAGE_SIZE /\ P > 0
  BY PageSize
<1>2. base_addr \in Nat /\ base_addr > 0 /\ is_page_aligned(base_addr) /\ total_pages \in Nat
  BY PageAllocAssumption DEF is_page_aligned
<1>3. ASSUME NEW i \in Nat
      PROVE  page_addr(i) \in Nat /\ page_addr(i) >= base_addr /\ is_page_aligned(page_addr(i))
             /\ page_idx(page_addr(i)) = i
  <2>1. base_addr + i * PAGE_SIZE \in Nat /\ is_page_aligned(base_addr + i * PAGE_SIZE)
    BY <1>2, AlignedPlus
  <2>2. i * P \in Nat /\ i * P = P * i
    BY <1>1, Z3
  <2>3. (P * i) \div P = i
    BY <1>1, Multiples
  <2>4. (base_addr + i * P) - base_addr = P * i
    BY <1>2, <2>2
  <2>5. base_addr + i * P >= base_addr
    BY <1>2, <2>2
  <2>6. page_idx(page_addr(i)) = ((base_addr + i * P) - base_addr) \div P
    BY <1>1, Zenon DEF page_addr, page_idx
  <2>7. page_idx(page_addr(i)) = i
    BY <2>3, <2>4, <2>6, Zenon
  <2> QED BY <1>1, <2>1, <2>5, <2>7, Zenon DEF page_addr
<1>4. ASSUME NEW i \in 0 .. total_pages - 1
      PROVE  page_addr(i) + PAGE_SIZE <= page_addr(total_pages)
  <2>1. i * P + P <= total_pages * P
    <3>1. i + 1 <= total_pages
      BY <1>2
    <3> QED BY <1>1, <1>2, <3>1, Z3
  <2>2. i * P \in Int /\ total_pages * P \in Int
    BY <1>1, <1>2, Z3
  <2> QED BY <1>1, <1>2, <2>1, <2>2 DEF page_addr
<1>5. ASSUME NEW page \in Heap
      PROVE  /\ page \in Nat /\ is_page_aligned(page) /\ page >= base_addr /\ page > 0
             /\ page_idx(page) \in 0 .. total_pages - 1 /\ page = page_addr(page_idx(page))
             /\ page + PAGE_SIZE <= page_addr(total_pages)
  <2>1. PICK i \in 0 .. total_pages - 1 : page = page_addr(i)
    BY DEF Heap
  <2>2. i \in Nat
    BY <1>2
  <2>3. page \in Nat /\ page >= base_addr /\ is_page_aligned(page) /\ page_idx(page) = i
    BY <1>3, <2>1, <2>2, Zenon
  <2>4. page > 0
    BY <1>2, <2>3
  <2> QED BY <1>4, <2>1, <2>3, <2>4, Zenon
<1> QED BY <1>3, <1>5, Zenon

----------------------------------------------------------------------------
(* The allocator finds a free page, if there is one, and no other. *)
LEMMA LeastLemma ==
  ASSUME NEW S, S \subseteq Nat, S # {}
  PROVE  Least(S) \in S /\ \A n \in S : Least(S) <= n
<1>1. \E n \in S : \A k \in S : n <= k
  BY LeastNumber
<1> QED BY <1>1 DEF Least

LEMMA AllocLemma ==
  ASSUME NEW bits, bits \subseteq 0 .. total_pages - 1
  PROVE  /\ CanAlloc(bits) => alloc(bits) \in 0 .. total_pages - 1 /\ alloc(bits) \notin bits
         /\ ~CanAlloc(bits) => bits = 0 .. total_pages - 1
<1>1. PICK B \in Int : B = WORD_BITS /\ B > 0
  BY PageAllocAssumption
<1>2. PICK t \in Int : t = total_pages /\ t > 0
  BY PageAllocAssumption
<1> DEFINE w == Least(OpenWords(bits))
           b == Least(ZeroBits(bits, w))
<1>3. \A x : ZeroBits(bits, x) \subseteq 0 .. B - 1
  BY <1>1 DEF ZeroBits
<1>4. OpenWords(bits) \subseteq Nat
  BY DEF OpenWords
<1>5. ASSUME OpenWords(bits) # {}
      PROVE  /\ w \in OpenWords(bits) /\ w \in Nat /\ \A x \in OpenWords(bits) : w <= x
             /\ b \in ZeroBits(bits, w) /\ b \in 0 .. B - 1
             /\ \A x \in ZeroBits(bits, w) : b <= x
             /\ w * B + b \in Nat /\ alloc(bits) = w * B + b /\ alloc(bits) \notin bits
  <2>1. w \in OpenWords(bits) /\ w \in Nat /\ \A x \in OpenWords(bits) : w <= x
    BY <1>4, <1>5, LeastLemma
  <2>2. ZeroBits(bits, w) # {} /\ ZeroBits(bits, w) \subseteq Nat
    <3> HIDE DEF w
    <3>1. ZeroBits(bits, w) # {}
      BY <2>1 DEF OpenWords
    <3>2. ZeroBits(bits, w) \subseteq Nat
      BY <1>1, <1>3
    <3> QED BY <3>1, <3>2
  <2>3. b \in ZeroBits(bits, w) /\ \A x \in ZeroBits(bits, w) : b <= x
    BY <2>2, LeastLemma
  <2>4. alloc(bits) = w * WORD_BITS + b
    BY DEF alloc, FirstZero
  <2> HIDE DEF w, b
  <2>5. b \in 0 .. B - 1
    BY <1>3, <2>3
  <2>6. w * B \in Nat
    BY <1>1, <2>1, Z3
  <2>7. w * WORD_BITS + b \notin bits
    BY <2>3 DEF ZeroBits
  <2> QED BY <1>1, <2>1, <2>3, <2>4, <2>5, <2>6, <2>7
<1>6. CanAlloc(bits) => OpenWords(bits) # {} /\ alloc(bits) < total_pages
  BY DEF CanAlloc, alloc
<1> HIDE DEF w, b
<1>7. ASSUME CanAlloc(bits)
      PROVE  alloc(bits) \in 0 .. total_pages - 1 /\ alloc(bits) \notin bits
  BY <1>2, <1>5, <1>6, <1>7
<1>8. ASSUME NEW n \in 0 .. total_pages - 1, n \notin bits
      PROVE  CanAlloc(bits)
  <2>1. PICK q \in Int : q = n \div B
    BY <1>1, Z3
  <2>2. PICK r \in Int : r = n % B /\ 0 <= r /\ r < B
    BY <1>1, Z3
  <2>3. n = B * q + r
    BY <1>1, <2>1, <2>2, ModRange
  <2>4. q >= 0
    <3>1. SUFFICES ASSUME q <= -1 PROVE FALSE
      OBVIOUS
    <3>2. B * q <= -B
      BY <1>1, <3>1, Z3
    <3> QED BY <1>1, <2>2, <2>3, <3>2
  <2>5. q * B + r = n /\ r \in 0 .. B - 1
    <3>1. q * B = B * q
      BY <1>1, Z3
    <3>2. r \in 0 .. B - 1
      BY <1>1, <2>2
    <3> QED BY <2>3, <3>1, <3>2, Zenon
  <2>6. r \in ZeroBits(bits, q)
    BY <1>1, <1>8, <2>5 DEF ZeroBits
  <2>7. q < words_used
    <3>1. PICK x \in Int : x = words_used /\ x = (t + B - 1) \div B
      BY <1>1, <1>2, Z3 DEF words_used
    <3>2. PICK y \in Int : y = (t + B - 1) % B /\ 0 <= y /\ y < B
      BY <1>1, <1>2, Z3
    <3>3. t + B - 1 = B * x + y
      BY <1>1, <1>2, <3>1, <3>2, ModRange
    <3>4. SUFFICES ASSUME x <= q PROVE FALSE
      BY <3>1
    <3>5. B * x <= B * q
      BY <1>1, <3>4, Z3
    <3>6. PICK z \in Int : z = B * q
      BY <1>1, Z3
    <3>7. PICK v \in Int : v = B * x
      BY <1>1, Z3
    <3>8. v <= z /\ t + B - 1 = v + y /\ n = z + r /\ y < B /\ r >= 0
      BY <2>2, <2>3, <3>2, <3>3, <3>5, <3>6, <3>7, Zenon
    <3>9. n <= t - 1
      BY <1>2
    <3> QED BY <3>8, <3>9
  <2>8. q \in OpenWords(bits)
    <3>1. q \in 0 .. words_used - 1
      <4>1. words_used \in Int
        <5>1. (t + B - 1) \div B \in Int
          BY <1>1, Z3
        <5> QED BY <1>1, <1>2, <5>1 DEF words_used
      <4> QED BY <2>4, <2>7, <4>1
    <3> QED BY <2>6, <3>1 DEF OpenWords
  <2>9. w * B + b <= n
    <3>1. w \in Nat /\ b \in 0 .. B - 1 /\ w <= q /\ \A x \in ZeroBits(bits, w) : b <= x
      BY <1>5, <2>8
    <3>2. CASE w = q
      <4>1. b <= r
        BY <2>6, <3>1, <3>2
      <4>2. q * B \in Int
        BY <1>1, Z3
      <4> QED BY <2>2, <2>5, <3>1, <3>2, <4>1, <4>2
    <3>3. CASE w + 1 <= q
      <4>1. w * B + B <= q * B
        BY <1>1, <3>1, <3>3, Z3
      <4>2. q * B \in Int /\ w * B \in Int
        BY <1>1, <3>1, Z3
      <4> QED BY <1>1, <2>2, <2>5, <3>1, <4>1, <4>2
    <3> QED BY <3>1, <3>2, <3>3
  <2>10. OpenWords(bits) # {}
    BY <2>8
  <2>11. alloc(bits) = w * B + b /\ w * B + b \in Nat
    BY <1>5, <2>10
  <2>12. alloc(bits) < total_pages
    BY <1>2, <2>9, <2>11
  <2> QED BY <2>10, <2>12 DEF CanAlloc, alloc
<1>9. ~CanAlloc(bits) => bits = 0 .. total_pages - 1
  BY <1>8
<1> QED BY <1>7, <1>9

----------------------------------------------------------------------------
(***************************************************************************)
(* Each page of the heap gets a tag that says what it is for: it is free,  *)
(* a user page, or a table of an address space at one place in its tree.   *)
(***************************************************************************)
Tag(kind, own, i, j) == [kind |-> kind, own |-> own, i |-> i, j |-> j]
FreeTag == Tag("free", 0, 0, 0)
UserTag(p) == Tag("user", p, 0, 0)
RootTag(p) == Tag("root", p, 0, 0)
MidTag(p, i) == Tag("mid", p, i, 0)
LowTag(p, i, j) == Tag("low", p, i, j)
TableOf(t, p) == t.kind \in {"root", "mid", "low"} /\ t.own = p

LEMMA Tags ==
  /\ \A p, q, a, b : MidTag(p, a) = MidTag(q, b) <=> p = q /\ a = b
  /\ \A p, q, a, b, c, d : LowTag(p, a, b) = LowTag(q, c, d) <=> p = q /\ a = c /\ b = d
  /\ \A p, q : UserTag(p) = UserTag(q) <=> p = q
  /\ \A p : FreeTag # UserTag(p) /\ FreeTag # RootTag(p)
  /\ \A p, a : FreeTag # MidTag(p, a)
  /\ \A p, a, b : FreeTag # LowTag(p, a, b)
  /\ \A p, q, a : RootTag(p) # MidTag(q, a)
  /\ \A p, q, a, b : RootTag(p) # LowTag(q, a, b)
  /\ \A p, q, a, b, c : MidTag(p, a) # LowTag(q, b, c)
  /\ \A p, q : TableOf(RootTag(p), q) <=> p = q
  /\ \A p, q, a : TableOf(MidTag(p, a), q) <=> p = q
  /\ \A p, q, a, b : TableOf(LowTag(p, a, b), q) <=> p = q
  /\ \A p, q : ~TableOf(UserTag(p), q) /\ ~TableOf(FreeTag, q)
  BY DEF Tag, FreeTag, UserTag, RootTag, MidTag, LowTag, TableOf

(* Entries. *)
LEMMA Entries ==
  /\ ~is_valid(INVALID) /\ ~is_branch(INVALID) /\ INVALID.flags = {}
  /\ \A e : is_branch(e) => is_valid(e)
  /\ \A e : is_leaf(e) => is_valid(e) /\ ~is_branch(e)
  /\ \A page \in Heap : is_branch(branch(page)) /\ phys_addr(branch(page)) = page
<1>1. ASSUME NEW page \in Heap
      PROVE  is_branch(branch(page)) /\ phys_addr(branch(page)) = page
  <2>1. page \in Nat /\ is_page_aligned(page)
    BY HeapPages
  <2>2. phys_addr(branch(page)) = page /\ branch(page).flags = {"V"}
    BY <2>1, PteAddress DEF branch
  <2> QED BY <2>2 DEF is_branch, is_valid
<1> QED BY <1>1 DEF INVALID, is_valid, is_branch, is_leaf

(* The words of the heap, and what writing to them leaves. *)
IsMem(ws) ==
  /\ ws = [page \in Heap |-> ws[page]]
  /\ \A page \in Heap : DOMAIN ws[page] \subseteq Idx

LEMMA WriteLemma ==
  ASSUME NEW ws, IsMem(ws), NEW t \in Heap, NEW n \in Idx, NEW pte
  PROVE  /\ IsMem(write_pte(ws, t, n, pte))
         /\ \A page \in Heap, i \in Idx :
              read_pte(write_pte(ws, t, n, pte), page, i) =
                IF page = t /\ i = n THEN pte ELSE read_pte(ws, page, i)
<1> DEFINE f == [i \in DOMAIN ws[t] \cup {n} |-> IF i = n THEN pte ELSE ws[t][i]]
           new == write_pte(ws, t, n, pte)
<1>1. new = [ws EXCEPT ![t] = f]
  BY DEF write_pte
<1>2. DOMAIN f = DOMAIN ws[t] \cup {n} /\ \A i \in DOMAIN f : f[i] = IF i = n THEN pte ELSE ws[t][i]
  OBVIOUS
<1> HIDE DEF f, new
<1>3. /\ ws = [page \in Heap |-> ws[page]]
      /\ \A page \in Heap : DOMAIN ws[page] \subseteq Idx
  BY DEF IsMem
<1>4. new = [page \in Heap |-> IF page = t THEN f ELSE ws[page]]
  BY <1>1, <1>3
<1>5. \A page \in Heap : new[page] = IF page = t THEN f ELSE ws[page]
  BY <1>4
<1>6. IsMem(new)
  <2>1. new = [page \in Heap |-> new[page]]
    BY <1>4
  <2> QED BY <1>2, <1>3, <1>5, <2>1 DEF IsMem
<1>7. ASSUME NEW page \in Heap, NEW i \in Idx
      PROVE  read_pte(new, page, i) = IF page = t /\ i = n THEN pte ELSE read_pte(ws, page, i)
  BY <1>2, <1>5 DEF read_pte
<1> QED BY <1>6, <1>7 DEF new

(* A page that is filled anew, with zeros or with words f. *)
LEMMA FillLemma ==
  ASSUME NEW ws, IsMem(ws), NEW t \in Heap, NEW f, DOMAIN f \subseteq Idx
  PROVE  /\ IsMem([ws EXCEPT ![t] = f])
         /\ \A page \in Heap : page # t =>
              \A i \in Idx : read_pte([ws EXCEPT ![t] = f], page, i) = read_pte(ws, page, i)
         /\ \A i \in Idx : DOMAIN f = {} => read_pte([ws EXCEPT ![t] = f], t, i) = INVALID
<1> DEFINE new == [ws EXCEPT ![t] = f]
<1>3. /\ ws = [page \in Heap |-> ws[page]]
      /\ \A page \in Heap : DOMAIN ws[page] \subseteq Idx
  BY DEF IsMem
<1>4. new = [page \in Heap |-> IF page = t THEN f ELSE ws[page]]
  BY <1>3
<1> HIDE DEF new
<1>5. \A page \in Heap : new[page] = IF page = t THEN f ELSE ws[page]
  BY <1>4
<1>6. IsMem(new)
  <2>1. new = [page \in Heap |-> new[page]]
    BY <1>4
  <2> QED BY <1>3, <1>5, <2>1 DEF IsMem
<1>7. \A page \in Heap : page # t => \A i \in Idx : read_pte(new, page, i) = read_pte(ws, page, i)
  BY <1>5 DEF read_pte
<1>8. \A i \in Idx : DOMAIN f = {} => read_pte(new, t, i) = INVALID
  BY <1>5 DEF read_pte
<1> QED BY <1>6, <1>7, <1>8 DEF new

----------------------------------------------------------------------------
(***************************************************************************)
(* An address space: the tree of tables below its root, and the entries at *)
(* its lowest level.                                                       *)
(***************************************************************************)
Under(ws, t, i) == phys_addr(read_pte(ws, t, i))

Entry(ws, r, i, j, k) ==
  IF is_branch(read_pte(ws, r, i)) /\ is_branch(read_pte(ws, Under(ws, r, i), j))
  THEN read_pte(ws, Under(ws, Under(ws, r, i), j), k) ELSE INVALID

(* The page of an entry that user mode reaches. *)
UserEntry(g, p, e) ==
  "U" \in e.flags => is_leaf(e) /\ phys_addr(e) \in Heap /\ g[phys_addr(e)] = UserTag(p)

Space(ws, g, p, r) ==
  /\ r \in Heap /\ g[r] = RootTag(p)
  /\ \A i \in Idx : is_valid(read_pte(ws, r, i)) =>
       /\ is_branch(read_pte(ws, r, i)) /\ Under(ws, r, i) \in Heap
       /\ g[Under(ws, r, i)] = MidTag(p, i)
  /\ \A i, j \in Idx :
       is_branch(read_pte(ws, r, i)) /\ is_valid(read_pte(ws, Under(ws, r, i), j)) =>
         /\ is_branch(read_pte(ws, Under(ws, r, i), j))
         /\ Under(ws, Under(ws, r, i), j) \in Heap
         /\ g[Under(ws, Under(ws, r, i), j)] = LowTag(p, i, j)
  /\ \A i, j, k \in Idx : UserEntry(g, p, Entry(ws, r, i, j, k))

Same(ws, new, page) == \A i \in Idx : read_pte(new, page, i) = read_pte(ws, page, i)
SameEntries(ws, new, r) == \A i, j, k \in Idx : Entry(new, r, i, j, k) = Entry(ws, r, i, j, k)

Retag(g, x, t) == [page \in Heap |-> IF page = x THEN t ELSE g[page]]

(* One word is written; an entry gets the page x as an empty table. *)
Written(ws, new, t, n, e) ==
  \A page \in Heap, i \in Idx :
    read_pte(new, page, i) = IF page = t /\ i = n THEN e ELSE read_pte(ws, page, i)

Linked(ws, new, t, n, x) ==
  \A page \in Heap, i \in Idx :
    read_pte(new, page, i) = IF page = t /\ i = n THEN branch(x)
                             ELSE IF page = x THEN INVALID ELSE read_pte(ws, page, i)

(* What happens to pages that are not its own leaves a space as it is. *)
LEMMA FrameLemma ==
  ASSUME NEW ws, NEW g, NEW new, NEW h, NEW q, NEW r, Space(ws, g, q, r),
         \A page \in Heap : TableOf(g[page], q) => h[page] = g[page] /\ Same(ws, new, page),
         \A i, j, k \in Idx : "U" \in Entry(ws, r, i, j, k).flags =>
            LET page == phys_addr(Entry(ws, r, i, j, k)) IN h[page] = g[page]
  PROVE  Space(new, h, q, r) /\ SameEntries(ws, new, r)
<1> DEFINE mid(i) == Under(ws, r, i)
           low(i, j) == Under(ws, mid(i), j)
<1>1. r \in Heap /\ g[r] = RootTag(q) /\ h[r] = g[r] /\ Same(ws, new, r)
  BY Tags DEF Space
<1>2. \A i \in Idx : read_pte(new, r, i) = read_pte(ws, r, i) /\ Under(new, r, i) = mid(i)
  BY <1>1 DEF Same, Under
<1>3. ASSUME NEW i \in Idx, is_valid(read_pte(ws, r, i))
      PROVE  /\ is_branch(read_pte(ws, r, i)) /\ mid(i) \in Heap /\ g[mid(i)] = MidTag(q, i)
             /\ h[mid(i)] = g[mid(i)] /\ Same(ws, new, mid(i))
  <2>1. is_branch(read_pte(ws, r, i)) /\ mid(i) \in Heap /\ g[mid(i)] = MidTag(q, i)
    BY <1>3 DEF Space
  <2>2. TableOf(MidTag(q, i), q)
    BY Tags
  <2> QED BY <2>1, <2>2
<1> HIDE DEF mid
<1>4. ASSUME NEW i \in Idx, is_branch(read_pte(ws, r, i)), NEW j \in Idx
      PROVE  read_pte(new, mid(i), j) = read_pte(ws, mid(i), j) /\ Under(new, mid(i), j) = low(i, j)
  BY <1>3, <1>4, Entries DEF Same, Under
<1>5. ASSUME NEW i \in Idx, NEW j \in Idx, is_branch(read_pte(ws, r, i)),
             is_valid(read_pte(ws, mid(i), j))
      PROVE  /\ is_branch(read_pte(ws, mid(i), j)) /\ low(i, j) \in Heap
             /\ g[low(i, j)] = LowTag(q, i, j)
             /\ h[low(i, j)] = g[low(i, j)] /\ Same(ws, new, low(i, j))
  <2>1. /\ is_branch(read_pte(ws, mid(i), j)) /\ low(i, j) \in Heap
        /\ g[low(i, j)] = LowTag(q, i, j)
    BY <1>5 DEF Space, mid
  <2>2. TableOf(LowTag(q, i, j), q)
    BY Tags
  <2> HIDE DEF low
  <2> QED BY <2>1, <2>2
<1> HIDE DEF low
<1>6. ASSUME NEW i \in Idx, NEW j \in Idx, NEW k \in Idx
      PROVE  Entry(new, r, i, j, k) = Entry(ws, r, i, j, k)
  <2>1. /\ Entry(ws, r, i, j, k) =
             IF is_branch(read_pte(ws, r, i)) /\ is_branch(read_pte(ws, mid(i), j))
             THEN read_pte(ws, low(i, j), k) ELSE INVALID
        /\ Entry(new, r, i, j, k) =
             IF is_branch(read_pte(ws, r, i)) /\ is_branch(read_pte(new, mid(i), j))
             THEN read_pte(new, Under(new, mid(i), j), k) ELSE INVALID
    BY <1>2 DEF Entry, mid, low
  <2>2. CASE is_branch(read_pte(ws, r, i)) /\ is_branch(read_pte(ws, mid(i), j))
    <3>1. read_pte(new, low(i, j), k) = read_pte(ws, low(i, j), k)
      BY <1>5, <2>2, Entries DEF Same
    <3>2. read_pte(new, mid(i), j) = read_pte(ws, mid(i), j) /\ Under(new, mid(i), j) = low(i, j)
      BY <1>4, <2>2
    <3> QED BY <2>1, <2>2, <3>1, <3>2
  <2>3. CASE is_branch(read_pte(ws, r, i)) /\ ~is_branch(read_pte(ws, mid(i), j))
    <3>1. read_pte(new, mid(i), j) = read_pte(ws, mid(i), j)
      BY <1>4, <2>3
    <3> QED BY <2>1, <2>3, <3>1
  <2>4. CASE ~is_branch(read_pte(ws, r, i))
    BY <2>1, <2>4
  <2> QED BY <2>2, <2>3, <2>4
<1>7. SameEntries(ws, new, r)
  BY <1>6 DEF SameEntries
<1>8. \A i \in Idx : is_valid(read_pte(new, r, i)) =>
       /\ is_branch(read_pte(new, r, i)) /\ Under(new, r, i) \in Heap
       /\ h[Under(new, r, i)] = MidTag(q, i)
  BY <1>2, <1>3
<1>9. ASSUME NEW i \in Idx, NEW j \in Idx, is_branch(read_pte(new, r, i)),
             is_valid(read_pte(new, Under(new, r, i), j))
      PROVE  /\ is_branch(read_pte(new, Under(new, r, i), j))
             /\ Under(new, Under(new, r, i), j) \in Heap
             /\ h[Under(new, Under(new, r, i), j)] = LowTag(q, i, j)
  <2>1. is_branch(read_pte(ws, r, i)) /\ Under(new, r, i) = mid(i)
    BY <1>2, <1>9
  <2>2. read_pte(new, mid(i), j) = read_pte(ws, mid(i), j) /\ Under(new, mid(i), j) = low(i, j)
    BY <1>4, <2>1
  <2> QED BY <1>5, <1>9, <2>1, <2>2
<1>10. ASSUME NEW i \in Idx, NEW j \in Idx, NEW k \in Idx
       PROVE  UserEntry(h, q, Entry(new, r, i, j, k))
  <2>1. UserEntry(g, q, Entry(ws, r, i, j, k))
    BY DEF Space
  <2> QED BY <1>6, <2>1 DEF UserEntry
<1> QED BY <1>1, <1>7, <1>8, <1>9, <1>10 DEF Space

(* The entry of a root gets an empty table. *)
LEMMA LinkMid ==
  ASSUME NEW ws, NEW g, NEW new, NEW h, NEW p, NEW r, Space(ws, g, p, r),
         NEW i \in Idx, ~is_valid(read_pte(ws, r, i)),
         NEW x \in Heap, g[x] = FreeTag, h = Retag(g, x, MidTag(p, i)),
         Linked(ws, new, r, i, x)
  PROVE  Space(new, h, p, r) /\ SameEntries(ws, new, r)
<1> USE DEF Linked
<1>a. h[x] = MidTag(p, i) /\ \A page \in Heap : page # x => h[page] = g[page]
  BY DEF Retag
<1>b. FreeTag # RootTag(p) /\ \A a, b : FreeTag # MidTag(p, a) /\ FreeTag # LowTag(p, a, b)
  BY Tags
<1>c. \A a, b : RootTag(p) # MidTag(p, a) /\ RootTag(p) # LowTag(p, a, b)
  BY Tags
<1>1. r \in Heap /\ g[r] = RootTag(p) /\ r # x
  BY <1>b DEF Space
<1>2. is_branch(branch(x)) /\ phys_addr(branch(x)) = x
  BY Entries
<1>3. read_pte(new, r, i) = branch(x) /\ Under(new, r, i) = x
      /\ \A n \in Idx : read_pte(new, x, n) = INVALID
  BY <1>1, <1>2 DEF Under
<1>4. ASSUME NEW a \in Idx, a # i
      PROVE  read_pte(new, r, a) = read_pte(ws, r, a) /\ Under(new, r, a) = Under(ws, r, a)
  BY <1>1, <1>4 DEF Under
<1>5. ASSUME NEW a \in Idx, is_valid(read_pte(ws, r, a))
      PROVE  /\ is_branch(read_pte(ws, r, a)) /\ Under(ws, r, a) \in Heap
             /\ g[Under(ws, r, a)] = MidTag(p, a) /\ Under(ws, r, a) # x
             /\ h[Under(ws, r, a)] = MidTag(p, a) /\ Under(ws, r, a) # r
  <2>1. /\ is_branch(read_pte(ws, r, a)) /\ Under(ws, r, a) \in Heap
        /\ g[Under(ws, r, a)] = MidTag(p, a)
    BY <1>5 DEF Space
  <2>2. Under(ws, r, a) # x /\ Under(ws, r, a) # r
    BY <1>b, <1>c, <1>1, <2>1
  <2> QED BY <1>a, <2>1, <2>2
<1>6. ASSUME NEW a \in Idx, is_branch(read_pte(ws, r, a)), NEW b \in Idx
      PROVE  /\ read_pte(new, Under(ws, r, a), b) = read_pte(ws, Under(ws, r, a), b)
             /\ Under(new, Under(ws, r, a), b) = Under(ws, Under(ws, r, a), b)
  BY <1>5, <1>6, Entries DEF Under
<1>7. ASSUME NEW a \in Idx, NEW b \in Idx, is_branch(read_pte(ws, r, a)),
             is_valid(read_pte(ws, Under(ws, r, a), b))
      PROVE  LET t == Under(ws, Under(ws, r, a), b) IN
             /\ is_branch(read_pte(ws, Under(ws, r, a), b))
             /\ t \in Heap /\ t # x /\ t # r /\ h[t] = LowTag(p, a, b)
             /\ \A k \in Idx : read_pte(new, t, k) = read_pte(ws, t, k)
  <2> DEFINE t == Under(ws, Under(ws, r, a), b)
  <2>1. is_branch(read_pte(ws, Under(ws, r, a), b)) /\ t \in Heap /\ g[t] = LowTag(p, a, b)
    BY <1>7 DEF Space
  <2> HIDE DEF t
  <2>2. t # x /\ t # r
    BY <1>b, <1>c, <1>1, <2>1
  <2>3. /\ is_branch(read_pte(ws, Under(ws, r, a), b))
        /\ t \in Heap /\ t # x /\ t # r /\ h[t] = LowTag(p, a, b)
        /\ \A k \in Idx : read_pte(new, t, k) = read_pte(ws, t, k)
    BY <1>a, <2>1, <2>2
  <2> QED BY <2>3 DEF t
<1>8. ASSUME NEW a \in Idx, NEW b \in Idx, NEW k \in Idx
      PROVE  Entry(new, r, a, b, k) = Entry(ws, r, a, b, k)
  <2>1. CASE a = i
    <3>1. Entry(ws, r, a, b, k) = INVALID
      BY <2>1, Entries DEF Entry
    <3>2. ~is_branch(read_pte(new, Under(new, r, a), b))
      BY <1>3, <2>1, Entries
    <3> QED BY <3>1, <3>2 DEF Entry
  <2>2. CASE a # i /\ ~is_branch(read_pte(ws, r, a))
    BY <1>4, <2>2 DEF Entry
  <2>3. CASE a # i /\ is_branch(read_pte(ws, r, a)) /\ ~is_branch(read_pte(ws, Under(ws, r, a), b))
    <3>1. read_pte(new, Under(new, r, a), b) = read_pte(ws, Under(ws, r, a), b)
      BY <1>4, <1>6, <2>3
    <3> QED BY <2>3, <3>1 DEF Entry
  <2>4. CASE a # i /\ is_branch(read_pte(ws, r, a)) /\ is_branch(read_pte(ws, Under(ws, r, a), b))
    <3>1. /\ read_pte(new, r, a) = read_pte(ws, r, a) /\ Under(new, r, a) = Under(ws, r, a)
          /\ read_pte(new, Under(ws, r, a), b) = read_pte(ws, Under(ws, r, a), b)
          /\ Under(new, Under(ws, r, a), b) = Under(ws, Under(ws, r, a), b)
      BY <1>4, <1>6, <2>4
    <3>2. read_pte(new, Under(ws, Under(ws, r, a), b), k) = read_pte(ws, Under(ws, Under(ws, r, a), b), k)
      BY <1>7, <2>4, Entries
    <3> QED BY <3>1, <3>2 DEF Entry
  <2> QED BY <2>1, <2>2, <2>3, <2>4
<1>9. SameEntries(ws, new, r)
  BY <1>8 DEF SameEntries
<1>10. ASSUME NEW a \in Idx, is_valid(read_pte(new, r, a))
       PROVE  /\ is_branch(read_pte(new, r, a)) /\ Under(new, r, a) \in Heap
              /\ h[Under(new, r, a)] = MidTag(p, a)
  <2>1. CASE a = i
    BY <1>a, <1>2, <1>3, <2>1
  <2>2. CASE a # i
    BY <1>4, <1>5, <1>10, <2>2
  <2> QED BY <2>1, <2>2
<1>11. ASSUME NEW a \in Idx, NEW b \in Idx, is_branch(read_pte(new, r, a)),
              is_valid(read_pte(new, Under(new, r, a), b))
       PROVE  /\ is_branch(read_pte(new, Under(new, r, a), b))
              /\ Under(new, Under(new, r, a), b) \in Heap
              /\ h[Under(new, Under(new, r, a), b)] = LowTag(p, a, b)
  <2>1. a # i
    BY <1>3, <1>11, Entries
  <2>2. is_branch(read_pte(ws, r, a)) /\ Under(new, r, a) = Under(ws, r, a)
    BY <1>4, <1>11, <2>1
  <2>3. /\ read_pte(new, Under(ws, r, a), b) = read_pte(ws, Under(ws, r, a), b)
        /\ Under(new, Under(ws, r, a), b) = Under(ws, Under(ws, r, a), b)
    BY <1>6, <2>2
  <2> QED BY <1>7, <1>11, <2>2, <2>3
<1>12. ASSUME NEW a \in Idx, NEW b \in Idx, NEW k \in Idx
       PROVE  UserEntry(h, p, Entry(new, r, a, b, k))
  <2>1. UserEntry(g, p, Entry(ws, r, a, b, k))
    BY DEF Space
  <2>2. FreeTag # UserTag(p)
    BY Tags
  <2> QED BY <1>a, <1>8, <2>1, <2>2 DEF UserEntry
<1>13. r \in Heap /\ h[r] = RootTag(p)
  BY <1>a, <1>1
<1> QED BY <1>9, <1>10, <1>11, <1>12, <1>13 DEF Space

(* The entry of a table at level 1 gets an empty table. *)
LEMMA LinkLow ==
  ASSUME NEW ws, NEW g, NEW new, NEW h, NEW p, NEW r, Space(ws, g, p, r),
         NEW i \in Idx, NEW j \in Idx, is_branch(read_pte(ws, r, i)),
         ~is_valid(read_pte(ws, Under(ws, r, i), j)),
         NEW x \in Heap, g[x] = FreeTag, h = Retag(g, x, LowTag(p, i, j)),
         Linked(ws, new, Under(ws, r, i), j, x)
  PROVE  Space(new, h, p, r) /\ SameEntries(ws, new, r)
<1> USE DEF Linked
<1>0. h[x] = LowTag(p, i, j) /\ \A page \in Heap : page # x => h[page] = g[page]
  BY DEF Retag
<1>1. r \in Heap /\ g[r] = RootTag(p) /\ r # x
  BY Tags DEF Space
<1>2. is_branch(branch(x)) /\ phys_addr(branch(x)) = x
  BY Entries
<1>3. ASSUME NEW a \in Idx, is_valid(read_pte(ws, r, a))
      PROVE  /\ is_branch(read_pte(ws, r, a)) /\ Under(ws, r, a) \in Heap
             /\ g[Under(ws, r, a)] = MidTag(p, a) /\ Under(ws, r, a) # x
             /\ h[Under(ws, r, a)] = MidTag(p, a) /\ Under(ws, r, a) # r
  <2>1. /\ is_branch(read_pte(ws, r, a)) /\ Under(ws, r, a) \in Heap
        /\ g[Under(ws, r, a)] = MidTag(p, a)
    BY <1>3 DEF Space
  <2>2. Under(ws, r, a) # x /\ Under(ws, r, a) # r
    BY <1>1, <2>1, Tags
  <2> QED BY <1>0, <2>1, <2>2
<1>4. PICK t : t = Under(ws, r, i) /\ t \in Heap /\ g[t] = MidTag(p, i) /\ t # r /\ t # x
  BY <1>3, Entries
<1>5. ASSUME NEW a \in Idx
      PROVE  read_pte(new, r, a) = read_pte(ws, r, a) /\ Under(new, r, a) = Under(ws, r, a)
  BY <1>1, <1>4 DEF Under
<1>6. /\ read_pte(new, t, j) = branch(x) /\ Under(new, t, j) = x
      /\ \A n \in Idx : read_pte(new, x, n) = INVALID
  BY <1>2, <1>4 DEF Under
<1>7. ASSUME NEW a \in Idx, is_branch(read_pte(ws, r, a)), NEW b \in Idx, ~(a = i /\ b = j)
      PROVE  /\ read_pte(new, Under(ws, r, a), b) = read_pte(ws, Under(ws, r, a), b)
             /\ Under(new, Under(ws, r, a), b) = Under(ws, Under(ws, r, a), b)
  <2>1. Under(ws, r, a) \in Heap /\ Under(ws, r, a) # x /\ g[Under(ws, r, a)] = MidTag(p, a)
    BY <1>3, <1>7, Entries
  <2>2. Under(ws, r, a) = t => a = i
    BY <1>4, <2>1, Tags
  <2>3. read_pte(new, Under(ws, r, a), b) = read_pte(ws, Under(ws, r, a), b)
    BY <1>4, <1>7, <2>1, <2>2
  <2> QED BY <2>3 DEF Under
<1>8. ASSUME NEW a \in Idx, NEW b \in Idx, is_branch(read_pte(ws, r, a)),
             is_valid(read_pte(ws, Under(ws, r, a), b))
      PROVE  LET u == Under(ws, Under(ws, r, a), b) IN
             /\ is_branch(read_pte(ws, Under(ws, r, a), b))
             /\ u \in Heap /\ u # x /\ u # t /\ h[u] = LowTag(p, a, b)
             /\ \A k \in Idx : read_pte(new, u, k) = read_pte(ws, u, k)
  <2> DEFINE u == Under(ws, Under(ws, r, a), b)
  <2>1. is_branch(read_pte(ws, Under(ws, r, a), b)) /\ u \in Heap /\ g[u] = LowTag(p, a, b)
    BY <1>8 DEF Space
  <2> HIDE DEF u
  <2>2. u # x /\ u # t
    BY <1>4, <2>1, Tags
  <2>3. /\ is_branch(read_pte(ws, Under(ws, r, a), b))
        /\ u \in Heap /\ u # x /\ u # t /\ h[u] = LowTag(p, a, b)
        /\ \A k \in Idx : read_pte(new, u, k) = read_pte(ws, u, k)
    BY <1>0, <1>4, <2>1, <2>2
  <2> QED BY <2>3 DEF u
<1>9. ASSUME NEW a \in Idx, NEW b \in Idx, NEW k \in Idx
      PROVE  Entry(new, r, a, b, k) = Entry(ws, r, a, b, k)
  <2>1. CASE a = i /\ b = j
    <3>1. Entry(ws, r, a, b, k) = INVALID
      BY <2>1, Entries DEF Entry
    <3>2. Under(new, Under(new, r, a), b) = x
      BY <1>4, <1>5, <1>6, <2>1
    <3>3. read_pte(new, x, k) = INVALID
      BY <1>6
    <3> QED BY <3>1, <3>2, <3>3 DEF Entry
  <2>2. CASE ~is_branch(read_pte(ws, r, a))
    BY <1>5, <2>2 DEF Entry
  <2>3. CASE /\ ~(a = i /\ b = j) /\ is_branch(read_pte(ws, r, a))
             /\ ~is_branch(read_pte(ws, Under(ws, r, a), b))
    <3>1. read_pte(new, Under(new, r, a), b) = read_pte(ws, Under(ws, r, a), b)
      BY <1>5, <1>7, <2>3
    <3> QED BY <2>3, <3>1 DEF Entry
  <2>4. CASE /\ ~(a = i /\ b = j) /\ is_branch(read_pte(ws, r, a))
             /\ is_branch(read_pte(ws, Under(ws, r, a), b))
    <3>1. /\ read_pte(new, r, a) = read_pte(ws, r, a) /\ Under(new, r, a) = Under(ws, r, a)
          /\ read_pte(new, Under(ws, r, a), b) = read_pte(ws, Under(ws, r, a), b)
          /\ Under(new, Under(ws, r, a), b) = Under(ws, Under(ws, r, a), b)
      BY <1>5, <1>7, <2>4
    <3>2. read_pte(new, Under(ws, Under(ws, r, a), b), k) = read_pte(ws, Under(ws, Under(ws, r, a), b), k)
      BY <1>8, <2>4, Entries
    <3> QED BY <3>1, <3>2 DEF Entry
  <2> QED BY <2>1, <2>2, <2>3, <2>4
<1>10. SameEntries(ws, new, r)
  BY <1>9 DEF SameEntries
<1>11. ASSUME NEW a \in Idx, is_valid(read_pte(new, r, a))
       PROVE  /\ is_branch(read_pte(new, r, a)) /\ Under(new, r, a) \in Heap
              /\ h[Under(new, r, a)] = MidTag(p, a)
  BY <1>3, <1>5, <1>11
<1>12. ASSUME NEW a \in Idx, NEW b \in Idx, is_branch(read_pte(new, r, a)),
              is_valid(read_pte(new, Under(new, r, a), b))
       PROVE  /\ is_branch(read_pte(new, Under(new, r, a), b))
              /\ Under(new, Under(new, r, a), b) \in Heap
              /\ h[Under(new, Under(new, r, a), b)] = LowTag(p, a, b)
  <2>1. is_branch(read_pte(ws, r, a)) /\ Under(new, r, a) = Under(ws, r, a)
    BY <1>5, <1>12
  <2>2. CASE a = i /\ b = j
    BY <1>0, <1>2, <1>4, <1>6, <2>1, <2>2
  <2>3. CASE ~(a = i /\ b = j)
    <3>1. /\ read_pte(new, Under(ws, r, a), b) = read_pte(ws, Under(ws, r, a), b)
          /\ Under(new, Under(ws, r, a), b) = Under(ws, Under(ws, r, a), b)
      BY <1>7, <2>1, <2>3
    <3> QED BY <1>8, <1>12, <2>1, <3>1
  <2> QED BY <2>2, <2>3
<1>13. ASSUME NEW a \in Idx, NEW b \in Idx, NEW k \in Idx
       PROVE  UserEntry(h, p, Entry(new, r, a, b, k))
  <2>1. UserEntry(g, p, Entry(ws, r, a, b, k))
    BY DEF Space
  <2>2. FreeTag # UserTag(p)
    BY Tags
  <2> QED BY <1>0, <1>9, <2>1, <2>2 DEF UserEntry
<1>14. r \in Heap /\ h[r] = RootTag(p)
  BY <1>0, <1>1
<1> QED BY <1>10, <1>11, <1>12, <1>13, <1>14 DEF Space

EntrySet(ws, new, r, i, j, k, e) ==
  \A a, b, c \in Idx :
    Entry(new, r, a, b, c) = IF a = i /\ b = j /\ c = k THEN e ELSE Entry(ws, r, a, b, c)

(* An entry at level 0 is written. *)
LEMMA WriteEntry ==
  ASSUME NEW ws, NEW g, NEW new, NEW p, NEW r, Space(ws, g, p, r),
         NEW i \in Idx, NEW j \in Idx, NEW k \in Idx,
         is_branch(read_pte(ws, r, i)), is_branch(read_pte(ws, Under(ws, r, i), j)),
         NEW e, UserEntry(g, p, e),
         Written(ws, new, Under(ws, Under(ws, r, i), j), k, e)
  PROVE  Space(new, g, p, r) /\ EntrySet(ws, new, r, i, j, k, e)
<1> USE DEF Written
<1>1. r \in Heap /\ g[r] = RootTag(p)
  BY DEF Space
<1>2. ASSUME NEW a \in Idx, is_valid(read_pte(ws, r, a))
      PROVE  /\ is_branch(read_pte(ws, r, a)) /\ Under(ws, r, a) \in Heap
             /\ g[Under(ws, r, a)] = MidTag(p, a)
  BY <1>2 DEF Space
<1>3. ASSUME NEW a \in Idx, NEW b \in Idx, is_branch(read_pte(ws, r, a)),
             is_valid(read_pte(ws, Under(ws, r, a), b))
      PROVE  LET u == Under(ws, Under(ws, r, a), b) IN
             is_branch(read_pte(ws, Under(ws, r, a), b)) /\ u \in Heap /\ g[u] = LowTag(p, a, b)
  BY <1>3 DEF Space
<1>4. PICK t : t = Under(ws, Under(ws, r, i), j) /\ t \in Heap /\ g[t] = LowTag(p, i, j)
  BY <1>3, Entries
<1>5. ASSUME NEW a \in Idx
      PROVE  read_pte(new, r, a) = read_pte(ws, r, a) /\ Under(new, r, a) = Under(ws, r, a)
  <2>1. r # t
    BY <1>1, <1>4, Tags
  <2> QED BY <1>1, <1>4, <2>1 DEF Under
<1>6. ASSUME NEW a \in Idx, is_branch(read_pte(ws, r, a)), NEW b \in Idx
      PROVE  /\ read_pte(new, Under(ws, r, a), b) = read_pte(ws, Under(ws, r, a), b)
             /\ Under(new, Under(ws, r, a), b) = Under(ws, Under(ws, r, a), b)
  <2>1. Under(ws, r, a) \in Heap /\ g[Under(ws, r, a)] = MidTag(p, a)
    BY <1>2, <1>6, Entries
  <2>2. Under(ws, r, a) # t
    BY <1>4, <2>1, Tags
  <2> QED BY <1>4, <2>1, <2>2 DEF Under
<1>7. ASSUME NEW a \in Idx, NEW b \in Idx, NEW c \in Idx
      PROVE  Entry(new, r, a, b, c) = IF a = i /\ b = j /\ c = k THEN e ELSE Entry(ws, r, a, b, c)
  <2>1. CASE ~is_branch(read_pte(ws, r, a))
    BY <1>5, <2>1 DEF Entry
  <2>2. CASE is_branch(read_pte(ws, r, a)) /\ ~is_branch(read_pte(ws, Under(ws, r, a), b))
    <3>1. read_pte(new, Under(new, r, a), b) = read_pte(ws, Under(ws, r, a), b)
      BY <1>5, <1>6, <2>2
    <3> QED BY <2>2, <3>1 DEF Entry
  <2>3. CASE is_branch(read_pte(ws, r, a)) /\ is_branch(read_pte(ws, Under(ws, r, a), b))
    <3>1. /\ read_pte(new, r, a) = read_pte(ws, r, a) /\ Under(new, r, a) = Under(ws, r, a)
          /\ read_pte(new, Under(ws, r, a), b) = read_pte(ws, Under(ws, r, a), b)
          /\ Under(new, Under(ws, r, a), b) = Under(ws, Under(ws, r, a), b)
      BY <1>5, <1>6, <2>3
    <3>2. PICK u : u = Under(ws, Under(ws, r, a), b) /\ u \in Heap /\ g[u] = LowTag(p, a, b)
      BY <1>3, <2>3, Entries
    <3>3. u = t <=> a = i /\ b = j
      BY <1>4, <3>2, Tags
    <3>4. read_pte(new, u, c) = IF u = t /\ c = k THEN e ELSE read_pte(ws, u, c)
      BY <1>4, <3>2
    <3>5. Entry(ws, r, a, b, c) = read_pte(ws, u, c) /\ Entry(new, r, a, b, c) = read_pte(new, u, c)
      BY <2>3, <3>1, <3>2 DEF Entry
    <3> QED BY <3>3, <3>4, <3>5
  <2> QED BY <2>1, <2>2, <2>3
<1>8. ASSUME NEW a \in Idx, is_valid(read_pte(new, r, a))
       PROVE  /\ is_branch(read_pte(new, r, a)) /\ Under(new, r, a) \in Heap
              /\ g[Under(new, r, a)] = MidTag(p, a)
  BY <1>2, <1>5, <1>8
<1>9. ASSUME NEW a \in Idx, NEW b \in Idx, is_branch(read_pte(new, r, a)),
              is_valid(read_pte(new, Under(new, r, a), b))
       PROVE  /\ is_branch(read_pte(new, Under(new, r, a), b))
              /\ Under(new, Under(new, r, a), b) \in Heap
              /\ g[Under(new, Under(new, r, a), b)] = LowTag(p, a, b)
  <2>1. is_branch(read_pte(ws, r, a)) /\ Under(new, r, a) = Under(ws, r, a)
    BY <1>5, <1>9
  <2>2. /\ read_pte(new, Under(ws, r, a), b) = read_pte(ws, Under(ws, r, a), b)
        /\ Under(new, Under(ws, r, a), b) = Under(ws, Under(ws, r, a), b)
    BY <1>6, <2>1
  <2> QED BY <1>3, <1>9, <2>1, <2>2
<1>10. ASSUME NEW a \in Idx, NEW b \in Idx, NEW c \in Idx
       PROVE  UserEntry(g, p, Entry(new, r, a, b, c))
  <2>1. UserEntry(g, p, Entry(ws, r, a, b, c))
    BY DEF Space
  <2> QED BY <1>7, <2>1
<1>11. EntrySet(ws, new, r, i, j, k, e)
  BY <1>7 DEF EntrySet
<1> QED BY <1>1, <1>8, <1>9, <1>10, <1>11 DEF Space

----------------------------------------------------------------------------
(***************************************************************************)
(* The memory a handler works on, with the tags of its pages.              *)
(***************************************************************************)
Machine(bits, ws, why, r, page) ==
  [bitmap |-> bits, mem |-> ws, panic |-> why, root |-> r, page |-> page]

IsMachine(m) == m = Machine(m.bitmap, m.mem, m.panic, m.root, m.page)

Tagged(bits, g) ==
  /\ bits \subseteq 0 .. total_pages - 1
  /\ \A page \in Heap : g[page] # FreeTag => page_idx(page) \in bits

(* A panic is for the lack of pages. *)
Panic(bits, why) == why = "no" \/ (why = "oom" /\ bits = 0 .. total_pages - 1)

Base(m, g) ==
  IsMachine(m) /\ IsMem(m.mem) /\ Tagged(m.bitmap, g) /\ Panic(m.bitmap, m.panic)

LEMMA MachineFields ==
  ASSUME NEW bits, NEW ws, NEW why, NEW r, NEW page
  PROVE  LET m == Machine(bits, ws, why, r, page) IN
         /\ m.bitmap = bits /\ m.mem = ws /\ m.panic = why /\ m.root = r /\ m.page = page
         /\ IsMachine(m)
  BY DEF Machine, IsMachine

LEMMA MachineUpdates ==
  /\ \A b, w, y, r, c, z : [Machine(b, w, y, r, c) EXCEPT !.bitmap = z] = Machine(z, w, y, r, c)
  /\ \A b, w, y, r, c, z : [Machine(b, w, y, r, c) EXCEPT !.mem = z] = Machine(b, z, y, r, c)
  /\ \A b, w, y, r, c, z : [Machine(b, w, y, r, c) EXCEPT !.panic = z] = Machine(b, w, z, r, c)
  /\ \A b, w, y, r, c, z : [Machine(b, w, y, r, c) EXCEPT !.root = z] = Machine(b, w, y, z, c)
  /\ \A b, w, y, r, c, z : [Machine(b, w, y, r, c) EXCEPT !.page = z] = Machine(b, w, y, r, z)
  BY DEF Machine

LEMMA AllocPage ==
  ASSUME NEW m, NEW g, Base(m, g), m.panic = "no", NEW t
  PROVE  LET new == alloc_zeroed_page(m) IN
         \/ /\ new = Machine(m.bitmap, m.mem, "oom", m.root, m.page) /\ Base(new, g)
            /\ new.panic = "oom" /\ new.mem = m.mem /\ new.root = m.root
         \/ /\ new.panic = "no" /\ new.root = m.root
            /\ new.page \in Heap /\ g[new.page] = FreeTag
            /\ Base(new, Retag(g, new.page, t))
            /\ \A i \in Idx : read_pte(new.mem, new.page, i) = INVALID
            /\ \A page \in Heap : page # new.page => Same(m.mem, new.mem, page)
<1> DEFINE new == alloc_zeroed_page(m)
<1>1. /\ IsMachine(m) /\ IsMem(m.mem) /\ Tagged(m.bitmap, g)
      /\ m = Machine(m.bitmap, m.mem, m.panic, m.root, m.page)
      /\ m.bitmap \subseteq 0 .. total_pages - 1
  BY DEF Base, IsMachine, Tagged
<1>2. CASE CanAlloc(m.bitmap)
  <2> DEFINE idx == alloc(m.bitmap)
             x == page_addr(idx)
  <2>1. idx \in 0 .. total_pages - 1 /\ idx \notin m.bitmap
    BY <1>1, <1>2, AllocLemma
  <2>2. new = [m EXCEPT !.bitmap = @ \cup {idx}, !.mem[x] = <<>>, !.page = x]
    BY <1>2 DEF alloc_zeroed_page, unless_panicked
  <2>3. new = Machine(m.bitmap \cup {idx}, [m.mem EXCEPT ![x] = <<>>], "no", m.root, x)
    <3> HIDE DEF x, idx, new
    <3>1. PICK b, w, r, c : /\ b = m.bitmap /\ w = m.mem /\ r = m.root /\ c = m.page
                            /\ m = Machine(b, w, "no", r, c)
      BY <1>1
    <3>2. PICK bb, ww : bb = b \cup {idx} /\ ww = [w EXCEPT ![x] = <<>>]
      OBVIOUS
    <3>3. new = [[[m EXCEPT !.bitmap = bb] EXCEPT !.mem = ww] EXCEPT !.page = x]
      <4>1. PICK y : y = m /\ y.bitmap = b /\ y.mem = w
        BY <3>1
      <4>2. new = [y EXCEPT !.bitmap = bb, !.mem = ww, !.page = x]
        BY <2>2, <3>2, <4>1
      <4> HIDE DEF new
      <4> QED BY <4>1, <4>2
    <3>4. [m EXCEPT !.bitmap = bb] = Machine(bb, w, "no", r, c)
      BY <3>1, MachineUpdates
    <3>5. [Machine(bb, w, "no", r, c) EXCEPT !.mem = ww] = Machine(bb, ww, "no", r, c)
      BY MachineUpdates
    <3>6. [Machine(bb, ww, "no", r, c) EXCEPT !.page = x] = Machine(bb, ww, "no", r, x)
      BY MachineUpdates
    <3>7. new = Machine(bb, ww, "no", r, x)
      BY <3>3, <3>4, <3>5, <3>6, Zenon
    <3> QED BY <3>1, <3>2, <3>7, Zenon
  <2>4. /\ new.bitmap = m.bitmap \cup {idx} /\ new.mem = [m.mem EXCEPT ![x] = <<>>]
        /\ new.panic = "no" /\ new.root = m.root /\ new.page = x /\ IsMachine(new)
    <3> HIDE DEF x, idx, new
    <3> QED BY <2>3, MachineFields
  <2> HIDE DEF new
  <2>5. x \in Heap /\ page_idx(x) = idx
    <3>1. idx \in Nat
      BY <2>1, PageAllocAssumption
    <3> QED BY <2>1, <3>1, HeapPages DEF Heap
  <2> HIDE DEF x, idx
  <2>6. g[x] = FreeTag
    BY <1>1, <2>1, <2>5 DEF Tagged
  <2>7. DOMAIN <<>> = {}
    OBVIOUS
  <2>8. /\ IsMem(new.mem)
        /\ \A page \in Heap : page # x => Same(m.mem, new.mem, page)
        /\ \A i \in Idx : read_pte(new.mem, x, i) = INVALID
    <3>1. DOMAIN <<>> \subseteq Idx
      BY <2>7
    <3>2. \A f : DOMAIN f = {} =>
          /\ IsMem([m.mem EXCEPT ![x] = f])
          /\ \A page \in Heap : page # x =>
                \A i \in Idx : read_pte([m.mem EXCEPT ![x] = f], page, i) = read_pte(m.mem, page, i)
          /\ \A i \in Idx : read_pte([m.mem EXCEPT ![x] = f], x, i) = INVALID
      BY <1>1, <2>5, FillLemma
    <3> QED BY <2>4, <2>7, <3>2 DEF Same
  <2>9. Tagged(new.bitmap, Retag(g, x, t))
    BY <1>1, <2>1, <2>4, <2>5 DEF Tagged, Retag
  <2>10. Base(new, Retag(g, x, t))
    <3>1. Panic(new.bitmap, new.panic)
      BY <2>4 DEF Panic
    <3> QED BY <2>4, <2>8, <2>9, <3>1, Zenon DEF Base
  <2> QED BY <2>4, <2>5, <2>6, <2>8, <2>10 DEF new
<1>3. CASE ~CanAlloc(m.bitmap)
  <2>1. new = [m EXCEPT !.panic = "oom"]
    BY <1>3 DEF alloc_zeroed_page, unless_panicked
  <2>2. new = Machine(m.bitmap, m.mem, "oom", m.root, m.page)
    <3> HIDE DEF new
    <3>1. \A y : \A b, w, a, r, c : y = Machine(b, w, a, r, c) =>
            [y EXCEPT !.panic = "oom"] = Machine(b, w, "oom", r, c)
      BY DEF Machine
    <3> QED BY <1>1, <2>1, <3>1
  <2>3. /\ new.bitmap = m.bitmap /\ new.mem = m.mem /\ new.panic = "oom"
        /\ new.root = m.root /\ IsMachine(new)
    <3> HIDE DEF new
    <3> QED BY <2>2, MachineFields
  <2> HIDE DEF new
  <2>4. m.bitmap = 0 .. total_pages - 1
    BY <1>1, <1>3, AllocLemma
  <2>5. Base(new, g)
    BY <1>1, <2>3, <2>4 DEF Base, Panic
  <2> QED BY <2>2, <2>3, <2>5 DEF new
<1> QED BY <1>2, <1>3

(* A word of a page that is in use is written. *)
LEMMA EntryWritten ==
  ASSUME NEW m, NEW g, Base(m, g), m.panic = "no", NEW t \in Heap, NEW n \in Idx, NEW e
  PROVE  LET new == write_entry(m, t, n, e) IN
         /\ Base(new, g) /\ new.panic = "no" /\ new.root = m.root /\ new.page = m.page
         /\ Written(m.mem, new.mem, t, n, e)
<1> DEFINE new == write_entry(m, t, n, e)
<1>1. /\ IsMachine(m) /\ IsMem(m.mem) /\ Tagged(m.bitmap, g)
      /\ m = Machine(m.bitmap, m.mem, m.panic, m.root, m.page)
  BY DEF Base, IsMachine
<1>2. new = [m EXCEPT !.mem = write_pte(@, t, n, e)]
  BY DEF write_entry, unless_panicked
<1>3. new = Machine(m.bitmap, write_pte(m.mem, t, n, e), "no", m.root, m.page)
  <2> HIDE DEF new
  <2>1. \A y : \A b, w, a, r, c : y = Machine(b, w, a, r, c) =>
          [y EXCEPT !.mem = write_pte(@, t, n, e)] = Machine(b, write_pte(w, t, n, e), a, r, c)
    BY DEF Machine
  <2> QED BY <1>1, <1>2, <2>1
<1>4. /\ new.bitmap = m.bitmap /\ new.mem = write_pte(m.mem, t, n, e) /\ new.panic = "no"
      /\ new.root = m.root /\ new.page = m.page /\ IsMachine(new)
  <2> HIDE DEF new
  <2> QED BY <1>3, MachineFields
<1> HIDE DEF new
<1>5. IsMem(new.mem) /\ Written(m.mem, new.mem, t, n, e)
  BY <1>1, <1>4, WriteLemma DEF Written
<1> QED BY <1>1, <1>4, <1>5 DEF Base, Panic, new

(* What a handler that works on the space of p keeps of all the others. *)
Keeps(ws, g, new, h, p) ==
  \A page \in Heap : g[page] # FreeTag =>
    /\ h[page] = g[page]
    /\ \A q : q # p /\ TableOf(g[page], q) => Same(ws, new, page)

LEMMA KeepsSpace ==
  ASSUME NEW ws, NEW g, NEW new, NEW h, NEW p, Keeps(ws, g, new, h, p),
         NEW q, q # p, NEW r, Space(ws, g, q, r)
  PROVE  Space(new, h, q, r) /\ SameEntries(ws, new, r)
<1>1. ASSUME NEW page \in Heap, TableOf(g[page], q)
      PROVE  h[page] = g[page] /\ Same(ws, new, page)
  <2>1. g[page] # FreeTag
    BY <1>1, Tags
  <2> QED BY <1>1, <2>1 DEF Keeps
<1>2. \A i, j, k \in Idx : "U" \in Entry(ws, r, i, j, k).flags =>
            LET page == phys_addr(Entry(ws, r, i, j, k)) IN h[page] = g[page]
  BY Tags DEF Keeps, Space, UserEntry
<1> QED BY <1>1, <1>2, FrameLemma

LEMMA KeepsTrans ==
  ASSUME NEW ws, NEW g, NEW new, NEW h, NEW last, NEW f, NEW p,
         Keeps(ws, g, new, h, p), Keeps(new, h, last, f, p)
  PROVE  Keeps(ws, g, last, f, p)
  BY DEF Keeps, Same

(* User pages keep their words. *)
KeepsUsers(ws, g, new) ==
  \A page \in Heap : \A q : g[page] = UserTag(q) => Same(ws, new, page)

LEMMA KeepsUsersTrans ==
  ASSUME NEW ws, NEW g, NEW new, NEW h, NEW last, NEW p,
         Keeps(ws, g, new, h, p), KeepsUsers(ws, g, new), KeepsUsers(new, h, last)
  PROVE  KeepsUsers(ws, g, last)
<1> SUFFICES ASSUME NEW page \in Heap, NEW q, g[page] = UserTag(q)
             PROVE  Same(ws, last, page)
  BY DEF KeepsUsers
<1>1. h[page] = UserTag(q)
  BY Tags DEF Keeps
<1>2. Same(ws, new, page) /\ Same(new, last, page)
  BY <1>1 DEF KeepsUsers
<1> QED BY <1>2 DEF Same

LEMMA KeepsAll == \A ws, g, p : Keeps(ws, g, ws, g, p) /\ KeepsUsers(ws, g, ws)
  BY DEF Keeps, KeepsUsers, Same

LEMMA SameTrans ==
  ASSUME NEW ws, NEW new, NEW last, NEW r,
         SameEntries(ws, new, r), SameEntries(new, last, r)
  PROVE  SameEntries(ws, last, r)
  BY DEF SameEntries

TableAdded(m, g, new, t, n, tag) ==
  /\ new.panic = "no" /\ new.page \in Heap /\ g[new.page] = FreeTag
  /\ Base(new, Retag(g, new.page, tag))
  /\ Linked(m.mem, new.mem, t, n, new.page)

(* alloc_zeroed_page() and the entry n of the table t that gets the page. *)
LEMMA NewTable ==
  ASSUME NEW m, NEW g, Base(m, g), m.panic = "no", NEW t \in Heap, g[t] # FreeTag,
         NEW n \in Idx, NEW tag
  PROVE  LET new == linked(alloc_zeroed_page(m), t, n) IN
         /\ new.root = m.root
         /\ \/ new.panic = "oom" /\ new.mem = m.mem /\ Base(new, g)
            \/ TableAdded(m, g, new, t, n, tag)
<1> DEFINE a == alloc_zeroed_page(m)
           new == linked(a, t, n)
<1>1. \/ Base(a, g) /\ a.panic = "oom" /\ a.mem = m.mem /\ a.root = m.root
      \/ /\ a.panic = "no" /\ a.root = m.root
         /\ a.page \in Heap /\ g[a.page] = FreeTag
         /\ Base(a, Retag(g, a.page, tag))
         /\ \A i \in Idx : read_pte(a.mem, a.page, i) = INVALID
         /\ \A page \in Heap : page # a.page => Same(m.mem, a.mem, page)
  BY AllocPage
<1>2. new = write_entry(a, t, n, branch(a.page))
  BY DEF linked
<1> HIDE DEF a, new
<1>3. CASE Base(a, g) /\ a.panic = "oom" /\ a.mem = m.mem /\ a.root = m.root
  <2>1. new = a
    BY <1>2, <1>3 DEF write_entry, unless_panicked
  <2> QED BY <1>3, <2>1 DEF new, a
<1>4. CASE /\ a.panic = "no" /\ a.root = m.root
           /\ a.page \in Heap /\ g[a.page] = FreeTag
           /\ Base(a, Retag(g, a.page, tag))
           /\ \A i \in Idx : read_pte(a.mem, a.page, i) = INVALID
           /\ \A page \in Heap : page # a.page => Same(m.mem, a.mem, page)
  <2>1. /\ Base(new, Retag(g, a.page, tag)) /\ new.panic = "no" /\ new.root = a.root
        /\ new.page = a.page /\ Written(a.mem, new.mem, t, n, branch(a.page))
    BY <1>2, <1>4, EntryWritten
  <2>2. Linked(m.mem, new.mem, t, n, new.page)
    BY <1>4, <2>1 DEF Same, Written, Linked
  <2>3. TableAdded(m, g, new, t, n, tag)
    BY <1>4, <2>1, <2>2 DEF TableAdded
  <2> QED BY <1>4, <2>1, <2>3 DEF new, a
<1> QED BY <1>1, <1>3, <1>4

(* A step on the space of p. *)
Stepped(m, g, new, h, p) ==
  /\ Base(new, h) /\ new.root = m.root /\ Space(new.mem, h, p, m.root)
  /\ Keeps(m.mem, g, new.mem, h, p) /\ KeepsUsers(m.mem, g, new.mem)

LEMMA RetagKeeps ==
  ASSUME NEW m, NEW g, NEW new, NEW p, NEW x \in Heap, g[x] = FreeTag, NEW tag,
         NEW t \in Heap, TableOf(g[t], p),
         \A page \in Heap : page # t /\ page # x => Same(m, new, page)
  PROVE  Keeps(m, g, new, Retag(g, x, tag), p) /\ KeepsUsers(m, g, new)
<1>0. KeepsUsers(m, g, new)
  <2>1. ASSUME NEW page \in Heap, NEW q, g[page] = UserTag(q)
        PROVE  page # t /\ page # x
    BY <2>1, Tags
  <2> QED BY <2>1 DEF KeepsUsers
<1> SUFFICES ASSUME NEW page \in Heap, g[page] # FreeTag
             PROVE  /\ Retag(g, x, tag)[page] = g[page]
                    /\ \A q : q # p /\ TableOf(g[page], q) => Same(m, new, page)
  BY <1>0 DEF Keeps
<1>1. page # x /\ Retag(g, x, tag)[page] = g[page]
  BY DEF Retag
<1>2. ASSUME NEW q, q # p, TableOf(g[page], q)
      PROVE  Same(m, new, page)
  <2>1. page # t
    BY <1>2 DEF TableOf
  <2> QED BY <1>1, <2>1 DEF Same
<1> QED BY <1>1, <1>2

(* walk_or_create() at a root. *)
LEMMA WalkRoot ==
  ASSUME NEW m, NEW g, NEW p, Base(m, g), m.panic = "no", Space(m.mem, g, p, m.root),
         m.page = m.root, NEW i \in Idx
  PROVE  LET new == walk_or_create(m, i) IN
         \E h : /\ Stepped(m, g, new, h, p) /\ SameEntries(m.mem, new.mem, m.root)
                /\ new.panic = "no" => /\ is_branch(read_pte(new.mem, m.root, i))
                                       /\ new.page = Under(new.mem, m.root, i)
<1> DEFINE new == walk_or_create(m, i)
           e == read_pte(m.mem, m.root, i)
<1>1. m.root \in Heap /\ g[m.root] = RootTag(p) /\ (is_valid(e) => is_branch(e))
  BY DEF Space
<1>2. CASE is_branch(e)
  <2>1. new = [m EXCEPT !.page = phys_addr(e)]
    BY <1>2 DEF walk_or_create, unless_panicked
  <2>2. new = Machine(m.bitmap, m.mem, m.panic, m.root, phys_addr(e))
    <3> HIDE DEF new, e
    <3>1. PICK b, w, y, r, c : /\ b = m.bitmap /\ w = m.mem /\ y = m.panic /\ r = m.root
                               /\ m = Machine(b, w, y, r, c)
      BY DEF Base, IsMachine
    <3>2. [m EXCEPT !.page = phys_addr(e)] = Machine(b, w, y, r, phys_addr(e))
      BY <3>1, MachineUpdates
    <3> QED BY <2>1, <3>1, <3>2
  <2> HIDE DEF new, e
  <2>3. /\ new.bitmap = m.bitmap /\ new.mem = m.mem /\ new.panic = m.panic
        /\ new.root = m.root /\ new.page = phys_addr(e) /\ IsMachine(new)
    BY <2>2, MachineFields
  <2>4. Base(new, g)
    BY <2>3 DEF Base
  <2>5. Stepped(m, g, new, g, p)
    BY <2>3, <2>4, KeepsAll DEF Stepped
  <2>6. SameEntries(m.mem, new.mem, m.root)
    BY <2>3 DEF SameEntries
  <2> QED BY <1>2, <2>3, <2>5, <2>6 DEF Under, new, e
<1>3. CASE ~is_valid(e)
  <2>1. new = linked(alloc_zeroed_page(m), m.root, i)
    BY <1>3, Entries DEF walk_or_create, unless_panicked
  <2>2. g[m.root] # FreeTag
    BY <1>1, Tags
  <2> HIDE DEF new
  <2>3. /\ new.root = m.root
        /\ \/ new.panic = "oom" /\ new.mem = m.mem /\ Base(new, g)
           \/ TableAdded(m, g, new, m.root, i, MidTag(p, i))
    BY <1>1, <2>1, <2>2, NewTable
  <2>4. CASE new.panic = "oom" /\ new.mem = m.mem /\ Base(new, g)
    <3>1. Stepped(m, g, new, g, p)
      BY <2>3, <2>4, KeepsAll DEF Stepped
    <3>2. SameEntries(m.mem, new.mem, m.root)
      BY <2>4 DEF SameEntries
    <3> QED BY <2>4, <3>1, <3>2 DEF new
  <2>5. CASE TableAdded(m, g, new, m.root, i, MidTag(p, i))
    <3>0. PICK x \in Heap : x = new.page /\ g[x] = FreeTag
      BY <2>5 DEF TableAdded
    <3> DEFINE h == Retag(g, x, MidTag(p, i))
    <3>1. h = Retag(g, x, MidTag(p, i))
      OBVIOUS
    <3>2. TableOf(g[m.root], p)
      BY <1>1, Tags
    <3>3. Linked(m.mem, new.mem, m.root, i, x)
      BY <2>5, <3>0 DEF TableAdded
    <3>4. Keeps(m.mem, g, new.mem, h, p) /\ KeepsUsers(m.mem, g, new.mem)
      <4>1. \A page \in Heap : page # m.root /\ page # x => Same(m.mem, new.mem, page)
        BY <3>3 DEF Same, Linked
      <4> QED BY <1>1, <3>0, <3>2, <4>1, RetagKeeps
    <3> HIDE DEF h
    <3>5. Space(new.mem, h, p, m.root) /\ SameEntries(m.mem, new.mem, m.root)
      <4>1. ~is_valid(read_pte(m.mem, m.root, i))
        BY <1>3 DEF e
      <4> QED BY <3>0, <3>1, <3>3, <4>1, LinkMid
    <3>6. /\ is_branch(read_pte(new.mem, m.root, i)) /\ x = Under(new.mem, m.root, i)
      BY <1>1, <3>3, Entries DEF Under, Linked
    <3>7. Stepped(m, g, new, h, p)
      BY <2>3, <2>5, <3>0, <3>4, <3>5 DEF Stepped, h, TableAdded
    <3> QED BY <3>0, <3>5, <3>6, <3>7 DEF new
  <2> QED BY <2>3, <2>4, <2>5
<1> QED BY <1>1, <1>2, <1>3

(* walk_or_create() at a table of level 1. *)
LEMMA WalkMid ==
  ASSUME NEW m, NEW g, NEW p, Base(m, g), m.panic = "no", Space(m.mem, g, p, m.root),
         NEW i \in Idx, is_branch(read_pte(m.mem, m.root, i)),
         m.page = Under(m.mem, m.root, i), NEW j \in Idx
  PROVE  LET new == walk_or_create(m, j) IN
         \E h : /\ Stepped(m, g, new, h, p) /\ SameEntries(m.mem, new.mem, m.root)
                /\ new.panic = "no" =>
                     /\ is_branch(read_pte(new.mem, m.root, i))
                     /\ is_branch(read_pte(new.mem, Under(new.mem, m.root, i), j))
                     /\ new.page = Under(new.mem, Under(new.mem, m.root, i), j)
<1> DEFINE new == walk_or_create(m, j)
           e == read_pte(m.mem, m.page, j)
<1>1. m.root \in Heap /\ g[m.root] = RootTag(p) /\ (is_valid(e) => is_branch(e))
  BY DEF Space
<1>2. m.page \in Heap /\ g[m.page] = MidTag(p, i) /\ m.page # m.root
  <2>1. m.page \in Heap /\ g[m.page] = MidTag(p, i)
    BY Entries DEF Space
  <2> QED BY <1>1, <2>1, Tags
<1>3. CASE is_branch(e)
  <2>1. new = [m EXCEPT !.page = phys_addr(e)]
    BY <1>3 DEF walk_or_create, unless_panicked
  <2>2. new = Machine(m.bitmap, m.mem, m.panic, m.root, phys_addr(e))
    <3> HIDE DEF new, e
    <3>1. PICK b, w, y, r, c : /\ b = m.bitmap /\ w = m.mem /\ y = m.panic /\ r = m.root
                               /\ m = Machine(b, w, y, r, c)
      BY DEF Base, IsMachine
    <3>2. [m EXCEPT !.page = phys_addr(e)] = Machine(b, w, y, r, phys_addr(e))
      BY <3>1, MachineUpdates
    <3> QED BY <2>1, <3>1, <3>2
  <2> HIDE DEF new, e
  <2>3. /\ new.bitmap = m.bitmap /\ new.mem = m.mem /\ new.panic = m.panic
        /\ new.root = m.root /\ new.page = phys_addr(e) /\ IsMachine(new)
    BY <2>2, MachineFields
  <2>4. Base(new, g)
    BY <2>3 DEF Base
  <2>5. Stepped(m, g, new, g, p)
    BY <2>3, <2>4, KeepsAll DEF Stepped
  <2>6. SameEntries(m.mem, new.mem, m.root)
    BY <2>3 DEF SameEntries
  <2>7. new.page = Under(new.mem, Under(new.mem, m.root, i), j)
    BY <2>3 DEF Under, e
  <2> QED BY <1>3, <2>3, <2>5, <2>6, <2>7 DEF new, e
<1>4. CASE ~is_valid(e)
  <2>1. new = linked(alloc_zeroed_page(m), m.page, j)
    BY <1>4, Entries DEF walk_or_create, unless_panicked
  <2>2. g[m.page] # FreeTag
    BY <1>2, Tags
  <2> HIDE DEF new
  <2>3. /\ new.root = m.root
        /\ \/ new.panic = "oom" /\ new.mem = m.mem /\ Base(new, g)
           \/ TableAdded(m, g, new, m.page, j, LowTag(p, i, j))
    BY <1>2, <2>1, <2>2, NewTable
  <2>4. CASE new.panic = "oom" /\ new.mem = m.mem /\ Base(new, g)
    <3>1. Stepped(m, g, new, g, p)
      BY <2>3, <2>4, KeepsAll DEF Stepped
    <3>2. SameEntries(m.mem, new.mem, m.root)
      BY <2>4 DEF SameEntries
    <3> QED BY <2>4, <3>1, <3>2 DEF new
  <2>5. CASE TableAdded(m, g, new, m.page, j, LowTag(p, i, j))
    <3>0. PICK x \in Heap : x = new.page /\ g[x] = FreeTag
      BY <2>5 DEF TableAdded
    <3> DEFINE h == Retag(g, x, LowTag(p, i, j))
    <3>1. h = Retag(g, x, LowTag(p, i, j))
      OBVIOUS
    <3>2. TableOf(g[m.page], p)
      BY <1>2, Tags
    <3>3. Linked(m.mem, new.mem, m.page, j, x)
      BY <2>5, <3>0 DEF TableAdded
    <3>4. Keeps(m.mem, g, new.mem, h, p) /\ KeepsUsers(m.mem, g, new.mem)
      <4>1. \A page \in Heap : page # m.page /\ page # x => Same(m.mem, new.mem, page)
        BY <3>3 DEF Same, Linked
      <4> QED BY <1>2, <3>0, <3>2, <4>1, RetagKeeps
    <3> HIDE DEF h
    <3>5. Space(new.mem, h, p, m.root) /\ SameEntries(m.mem, new.mem, m.root)
      <4>1. ~is_valid(read_pte(m.mem, Under(m.mem, m.root, i), j))
        BY <1>4 DEF e
      <4>2. Linked(m.mem, new.mem, Under(m.mem, m.root, i), j, x)
        BY <3>3
      <4> QED BY <3>0, <3>1, <4>1, <4>2, LinkLow
    <3>6. read_pte(new.mem, m.root, i) = read_pte(m.mem, m.root, i)
      <4>1. m.root # x
        BY <1>1, <3>0, Tags
      <4> QED BY <1>1, <1>2, <3>3, <4>1 DEF Linked
    <3>7. Under(new.mem, m.root, i) = m.page
      BY <3>6 DEF Under
    <3>8. read_pte(new.mem, m.page, j) = branch(x) /\ is_branch(branch(x)) /\ phys_addr(branch(x)) = x
      BY <1>2, <3>3, Entries DEF Linked
    <3>9. /\ is_branch(read_pte(new.mem, m.root, i))
          /\ is_branch(read_pte(new.mem, Under(new.mem, m.root, i), j))
          /\ x = Under(new.mem, Under(new.mem, m.root, i), j)
      BY <3>6, <3>7, <3>8 DEF Under
    <3>10. Stepped(m, g, new, h, p)
      BY <2>3, <2>5, <3>0, <3>4, <3>5 DEF Stepped, h, TableAdded
    <3> QED BY <3>0, <3>5, <3>9, <3>10 DEF new
  <2> QED BY <2>3, <2>4, <2>5
<1> QED BY <1>1, <1>3, <1>4

----------------------------------------------------------------------------
(* Entries by the addresses of the pages they are for. *)
Pages == {va \in Nat : is_page_aligned(va) /\ va < VaLimit}

EntryAt(ws, r, va) == Entry(ws, r, va_parts(va).vpn2, va_parts(va).vpn1, va_parts(va).vpn0)

EntriesBut(ws, new, r, S) == \A va \in Pages \ S : EntryAt(new, r, va) = EntryAt(ws, r, va)

LEMMA SameEntriesAt ==
  ASSUME NEW ws, NEW new, NEW r, SameEntries(ws, new, r)
  PROVE  EntriesBut(ws, new, r, {})
  BY Parts DEF SameEntries, EntriesBut, EntryAt, Pages

LEMMA EntriesButTrans ==
  ASSUME NEW ws, NEW new, NEW last, NEW r, NEW S, NEW T, NEW U, S \subseteq U, T \subseteq U,
         EntriesBut(ws, new, r, S), EntriesBut(new, last, r, T)
  PROVE  EntriesBut(ws, last, r, U)
  BY DEF EntriesBut

LEMMA SteppedTrans ==
  ASSUME NEW m, NEW g, NEW new, NEW h, NEW last, NEW f, NEW p,
         Stepped(m, g, new, h, p), Stepped(new, h, last, f, p)
  PROVE  Stepped(m, g, last, f, p)
<1>1. Keeps(m.mem, g, last.mem, f, p) /\ KeepsUsers(m.mem, g, last.mem)
  BY KeepsTrans, KeepsUsersTrans DEF Stepped
<1> QED BY <1>1 DEF Stepped

(* What may be mapped: user mode gets only pages of its process. *)
MayMap(g, p, pa, flags) ==
  /\ pa \in Nat /\ is_page_aligned(pa)
  /\ "V" \in flags /\ flags \cap {"R", "W", "X"} # {}
  /\ "U" \in flags => pa \in Heap /\ g[pa] = UserTag(p)

LEMMA MayMapEntry ==
  ASSUME NEW g, NEW p, NEW pa, NEW flags, MayMap(g, p, pa, flags)
  PROVE  /\ UserEntry(g, p, Pte(pa, flags)) /\ is_leaf(Pte(pa, flags))
         /\ phys_addr(Pte(pa, flags)) = pa /\ Pte(pa, flags).flags = flags
<1>1. phys_addr(Pte(pa, flags)) = pa /\ Pte(pa, flags).flags = flags
  BY PteAddress DEF MayMap
<1> QED BY <1>1 DEF MayMap, UserEntry, is_leaf, is_valid

(* What map_page() leaves. *)
PageMapped(m, g, new, h, p, va, e) ==
  /\ Stepped(m, g, new, h, p)
  /\ new.panic = "no" => m.panic = "no" /\ EntryAt(new.mem, m.root, va) = e
  /\ EntriesBut(m.mem, new.mem, m.root, IF new.panic = "no" THEN {va} ELSE {})

LEMMA MapPage ==
  ASSUME NEW m, NEW g, NEW p, Base(m, g), Space(m.mem, g, p, m.root),
         NEW va \in Pages, NEW pa, NEW flags, m.panic = "no" => MayMap(g, p, pa, flags)
  PROVE  \E h : PageMapped(m, g, map_page(m, va, pa, flags), h, p, va, Pte(pa, flags))
<1> DEFINE v == va_parts(va)
           e == Pte(pa, flags)
           start == [m EXCEPT !.page = m.root]
           m2 == walk_or_create(start, v.vpn2)
           m1 == walk_or_create(m2, v.vpn1)
           new == map_page(m, va, pa, flags)
           r == m.root
<1>1. v.vpn2 \in Idx /\ v.vpn1 \in Idx /\ v.vpn0 \in Idx
  BY Parts DEF Pages
<1>2. new = unless_panicked(m, write_entry(m1, m1.page, v.vpn0, e))
  BY DEF map_page
<1>3. CASE m.panic # "no"
  <2>1. new = m
    BY <1>2, <1>3 DEF unless_panicked
  <2>2. Stepped(m, g, m, g, p) /\ EntriesBut(m.mem, m.mem, m.root, {})
    BY KeepsAll DEF Stepped, EntriesBut
  <2>3. PageMapped(m, g, m, g, p, va, e)
    BY <1>3, <2>2 DEF PageMapped
  <2> QED BY <2>1, <2>3
<1>4. CASE m.panic = "no"
  <2>1. new = write_entry(m1, m1.page, v.vpn0, e)
    BY <1>2, <1>4 DEF unless_panicked
  <2>2. Base(start, g) /\ start.mem = m.mem /\ start.panic = "no" /\ start.root = r /\ start.page = r
    <3>1. PICK b, w, y, c : /\ b = m.bitmap /\ w = m.mem /\ y = m.panic
                            /\ m = Machine(b, w, y, r, c)
      BY DEF Base, IsMachine
    <3> HIDE DEF r
    <3>2. start = Machine(b, w, y, r, r)
      BY <3>1, MachineUpdates DEF r
    <3> HIDE DEF start
    <3>3. /\ start.bitmap = m.bitmap /\ start.mem = m.mem /\ start.panic = m.panic
          /\ start.root = r /\ start.page = r /\ IsMachine(start)
      BY <3>1, <3>2, MachineFields
    <3> QED BY <1>4, <3>3 DEF Base
  <2> HIDE DEF v, start, new
  <2>3. PICK h2 : /\ Stepped(start, g, m2, h2, p) /\ SameEntries(start.mem, m2.mem, start.root)
                  /\ m2.panic = "no" => /\ is_branch(read_pte(m2.mem, start.root, v.vpn2))
                                        /\ m2.page = Under(m2.mem, start.root, v.vpn2)
    BY <1>1, <2>2, WalkRoot
  <2> HIDE DEF m2
  <2>4. /\ Base(m2, h2) /\ m2.root = r /\ Space(m2.mem, h2, p, r)
        /\ Keeps(m.mem, g, m2.mem, h2, p) /\ KeepsUsers(m.mem, g, m2.mem)
        /\ SameEntries(m.mem, m2.mem, r)
        /\ m2.panic = "no" => /\ is_branch(read_pte(m2.mem, r, v.vpn2))
                              /\ m2.page = Under(m2.mem, r, v.vpn2)
    BY <2>2, <2>3 DEF Stepped
  <2>5. CASE m2.panic # "no"
    <3>1. m1 = m2
      BY <2>5 DEF walk_or_create, unless_panicked
    <3>2. new = m2
      BY <2>1, <2>5, <3>1 DEF write_entry, unless_panicked
    <3>3. PageMapped(m, g, new, h2, p, va, e)
      BY <2>4, <2>5, <3>2, SameEntriesAt DEF PageMapped, Stepped
    <3> QED BY <3>3 DEF new
  <2>6. CASE m2.panic = "no"
    <3>1. PICK h1 : /\ Stepped(m2, h2, m1, h1, p) /\ SameEntries(m2.mem, m1.mem, m2.root)
                    /\ m1.panic = "no" =>
                         /\ is_branch(read_pte(m1.mem, m2.root, v.vpn2))
                         /\ is_branch(read_pte(m1.mem, Under(m1.mem, m2.root, v.vpn2), v.vpn1))
                         /\ m1.page = Under(m1.mem, Under(m1.mem, m2.root, v.vpn2), v.vpn1)
      BY <1>1, <2>4, <2>6, WalkMid
    <3> HIDE DEF m1
    <3>2. /\ Base(m1, h1) /\ m1.root = r /\ Space(m1.mem, h1, p, r)
          /\ Keeps(m.mem, g, m1.mem, h1, p) /\ KeepsUsers(m.mem, g, m1.mem)
          /\ SameEntries(m.mem, m1.mem, r)
      BY <2>4, <3>1, KeepsTrans, KeepsUsersTrans, SameTrans DEF Stepped
    <3>3. Stepped(m, g, m1, h1, p) /\ EntriesBut(m.mem, m1.mem, r, {})
      BY <3>2, SameEntriesAt DEF Stepped
    <3>4. CASE m1.panic # "no"
      <4>1. new = m1
        BY <2>1, <3>4 DEF write_entry, unless_panicked
      <4>2. PageMapped(m, g, new, h1, p, va, e)
        BY <3>3, <3>4, <4>1 DEF PageMapped
      <4> QED BY <4>2 DEF new
    <3>5. CASE m1.panic = "no"
      <4>1. /\ is_branch(read_pte(m1.mem, r, v.vpn2))
            /\ is_branch(read_pte(m1.mem, Under(m1.mem, r, v.vpn2), v.vpn1))
            /\ m1.page = Under(m1.mem, Under(m1.mem, r, v.vpn2), v.vpn1)
        BY <2>4, <3>1, <3>5
      <4>2. m1.page \in Heap /\ h1[m1.page] = LowTag(p, v.vpn2, v.vpn1)
        BY <1>1, <3>2, <4>1, Entries DEF Space
      <4>3. MayMap(h1, p, pa, flags)
        <5>1. "U" \in flags => g[pa] # FreeTag
          BY <1>4, Tags DEF MayMap
        <5> QED BY <1>4, <3>2, <5>1 DEF MayMap, Keeps
      <4>4. UserEntry(h1, p, e)
        BY <4>3, MayMapEntry
      <4> HIDE DEF e
      <4>5. /\ Base(new, h1) /\ new.panic = "no" /\ new.root = m1.root
            /\ Written(m1.mem, new.mem, m1.page, v.vpn0, e)
        BY <1>1, <2>1, <3>2, <3>5, <4>2, EntryWritten
      <4>6. Space(new.mem, h1, p, r) /\ EntrySet(m1.mem, new.mem, r, v.vpn2, v.vpn1, v.vpn0, e)
        <5>1. Written(m1.mem, new.mem, Under(m1.mem, Under(m1.mem, r, v.vpn2), v.vpn1), v.vpn0, e)
          BY <4>1, <4>5
        <5> HIDE DEF r
        <5> QED BY <1>1, <3>2, <4>1, <4>4, <5>1, WriteEntry
      <4>7. EntryAt(new.mem, r, va) = e
        BY <1>1, <4>6 DEF EntryAt, EntrySet, v
      <4>8. EntriesBut(m1.mem, new.mem, r, {va})
        <5>1. ASSUME NEW vb \in Pages, vb # va
              PROVE  EntryAt(new.mem, r, vb) = EntryAt(m1.mem, r, vb)
          <6>1. /\ va_parts(vb).vpn2 \in Idx /\ va_parts(vb).vpn1 \in Idx
                /\ va_parts(vb).vpn0 \in Idx
            BY Parts DEF Pages
          <6>2. ~(/\ va_parts(vb).vpn2 = v.vpn2 /\ va_parts(vb).vpn1 = v.vpn1
                  /\ va_parts(vb).vpn0 = v.vpn0)
            BY <5>1, PartsDiffer DEF Pages, v
          <6> QED BY <4>6, <6>1, <6>2 DEF EntryAt, EntrySet
        <5> QED BY <5>1 DEF EntriesBut
      <4>9. Keeps(m1.mem, h1, new.mem, h1, p) /\ KeepsUsers(m1.mem, h1, new.mem)
        <5>1. TableOf(h1[m1.page], p)
          BY <4>2, Tags
        <5>2. \A page \in Heap : page # m1.page => Same(m1.mem, new.mem, page)
          BY <4>5 DEF Same, Written
        <5>3. KeepsUsers(m1.mem, h1, new.mem)
          BY <5>1, <5>2, Tags DEF KeepsUsers
        <5> QED BY <4>2, <5>1, <5>2, <5>3 DEF Keeps, TableOf
      <4>10. Stepped(m1, h1, new, h1, p)
        BY <3>2, <4>5, <4>6, <4>9 DEF Stepped
      <4>11. Stepped(m, g, new, h1, p)
        BY <3>3, <4>10, SteppedTrans
      <4>12. EntriesBut(m.mem, new.mem, r, {va})
        BY <3>3, <4>8, EntriesButTrans
      <4>13. PageMapped(m, g, new, h1, p, va, e)
        BY <1>4, <4>5, <4>7, <4>11, <4>12 DEF PageMapped
      <4> QED BY <4>13 DEF new, e
    <3> QED BY <3>4, <3>5
  <2> QED BY <2>5, <2>6
<1> QED BY <1>3, <1>4

LEMMA MayMapKeeps ==
  ASSUME NEW ws, NEW g, NEW new, NEW h, NEW p, Keeps(ws, g, new, h, p),
         NEW pa, NEW flags, MayMap(g, p, pa, flags)
  PROVE  MayMap(h, p, pa, flags)
<1>1. "U" \in flags => g[pa] # FreeTag
  BY Tags DEF MayMap
<1> QED BY <1>1 DEF MayMap, Keeps

----------------------------------------------------------------------------
(***************************************************************************)
(* The loops: a record says which, and Turn is one turn of it.             *)
(***************************************************************************)
RangeLoop(first, flags) == [kind |-> "range", first |-> first, flags |-> flags]
RegionLoop == [kind |-> "regions"]
SegmentLoop(image, seg) == [kind |-> "segment", image |-> image, seg |-> seg]
ImageLoop(image) == [kind |-> "image", image |-> image]
CopyLoop(ws, r, va, total, write) ==
  [kind |-> "copy", ws |-> ws, r |-> r, va |-> va, total |-> total, write |-> write]

(* One turn of walk_user_range(). *)
CopyTurn(ws, r, user_va, total, need_write, s) ==
  LET va == wrapping(user_va + s.done)
      len == IF bytes_to_page_end(va) <= total - s.done
             THEN bytes_to_page_end(va) ELSE total - s.done
      result == walk(ws, r, va)
  IN IF /\ va < USER_VA_END
        /\ "U" \in result.flags
        /\ need_write => "W" \in result.flags
        /\ is_user_heap_pa(page_floor(result.phys))
     THEN [s EXCEPT !.done = @ + len,
                    !.chunks = Append(@, [pa |-> result.phys, len |-> len])]
     ELSE [s EXCEPT !.ok = FALSE]

Turn(l, x, k) ==
  CASE l.kind = "range" ->
         map_page(x, l.first + (k - 1) * PAGE_SIZE, l.first + (k - 1) * PAGE_SIZE, l.flags)
    [] l.kind = "regions" ->
         map_range(x, KernelRegions[k].start, KernelRegions[k].end, KernelRegions[k].flags)
    [] l.kind = "segment" ->
         load_page(x, l.image, l.seg, page_floor(l.seg.vaddr) + (k - 1) * PAGE_SIZE)
    [] l.kind = "image" -> load_segment(x, l.image, segments(l.image)[k])
    [] l.kind = "copy" ->
         IF x.ok /\ x.done < l.total THEN CopyTurn(l.ws, l.r, l.va, l.total, l.write, x) ELSE x

Turns(l, x, N, w) == w = [k \in 0 .. N |-> IF k = 0 THEN x ELSE Turn(l, w[k - 1], k)]

LEMMA TurnsExist ==
  ASSUME NEW l, NEW x, NEW N \in Nat
  PROVE  \E w : Turns(l, x, N, w)
<1> DEFINE T == {n \in 0 .. N : \E w : Turns(l, x, n, w)}
<1>1. 0 \in T
  <2>1. PICK w : w = [k \in 0 .. 0 |-> x]
    OBVIOUS
  <2>2. w = [k \in 0 .. 0 |-> IF k = 0 THEN x ELSE Turn(l, w[k - 1], k)]
    BY <2>1
  <2> QED BY <2>2 DEF Turns
<1>2. ASSUME NEW n \in 0 .. N - 1, n \in T
      PROVE  n + 1 \in T
  <2>1. PICK w : w = [k \in 0 .. n |-> IF k = 0 THEN x ELSE Turn(l, w[k - 1], k)]
    BY <1>2 DEF Turns
  <2> DEFINE v == [k \in 0 .. n + 1 |-> IF k = n + 1 THEN Turn(l, w[n], k) ELSE w[k]]
  <2>2. ASSUME NEW k \in 0 .. n + 1
        PROVE  v[k] = IF k = 0 THEN x ELSE Turn(l, v[k - 1], k)
    <3>1. CASE k = n + 1
      <4>1. v[k] = Turn(l, w[n], k) /\ v[k - 1] = w[n] /\ k # 0
        BY <3>1
      <4> QED BY <4>1
    <3>2. CASE k # n + 1
      <4>1. k \in 0 .. n /\ v[k] = w[k]
        BY <3>2
      <4>2. k # 0 => v[k - 1] = w[k - 1]
        BY <4>1
      <4>3. w[k] = IF k = 0 THEN x ELSE Turn(l, w[k - 1], k)
        BY <2>1, <4>1
      <4> QED BY <4>1, <4>2, <4>3
    <3> QED BY <3>1, <3>2
  <2>3. v = [k \in 0 .. n + 1 |-> IF k = 0 THEN x ELSE Turn(l, v[k - 1], k)]
    BY <2>2
  <2> HIDE DEF v
  <2>4. n + 1 \in 0 .. N
    OBVIOUS
  <2> QED BY <2>3, <2>4 DEF Turns
<1> HIDE DEF T
<1>3. 0 .. N \subseteq T
  BY <1>1, <1>2, Upward
<1>4. N \in T
  BY <1>3
<1> QED BY <1>4 DEF T

(* The pages of [start, end), and what map_range() leaves. *)
RangePages(start, last) == {va \in Pages : start <= va /\ va < last}

RangeMapped(m, g, new, h, p, S, flags) ==
  /\ Stepped(m, g, new, h, p)
  /\ new.panic = "no" => m.panic = "no"
                         /\ \A va \in S : EntryAt(new.mem, m.root, va) = Pte(va, flags)
  /\ EntriesBut(m.mem, new.mem, m.root, S)

LEMMA RangePagesNext ==
  ASSUME NEW start \in Nat, is_page_aligned(start), NEW k \in Nat,
         start + k * PAGE_SIZE + PAGE_SIZE <= VaLimit
  PROVE  /\ start + k * PAGE_SIZE \in Pages
         /\ start + (k + 1) * PAGE_SIZE = start + k * PAGE_SIZE + PAGE_SIZE
         /\ RangePages(start, start + (k + 1) * PAGE_SIZE)
              = RangePages(start, start + k * PAGE_SIZE) \cup {start + k * PAGE_SIZE}
<1>1. PICK P \in Int : P = PAGE_SIZE /\ P > 0
  BY PageSize
<1>2. PICK va \in Nat : va = start + k * PAGE_SIZE /\ is_page_aligned(va)
  BY AlignedPlus
<1>3. (k + 1) * P = k * P + P /\ k * P \in Nat
  BY <1>1, Z3
<1>4. start + (k + 1) * PAGE_SIZE = va + PAGE_SIZE
  BY <1>1, <1>2, <1>3
<1>5. VaLimit \in Int
  <2>1. \A a, b \in Int : a * b \in Int
    BY Z3
  <2>2. P * P * P * P \in Int
    BY <1>1, <2>1, Zenon
  <2> QED BY <1>1, <2>2 DEF VaLimit, PT_ENTRIES
<1>6. va < VaLimit
  BY <1>1, <1>2, <1>5
<1>7. va \in Pages
  BY <1>2, <1>6 DEF Pages
<1>8. start <= va
  BY <1>1, <1>2, <1>3
<1>9. ASSUME NEW x \in Pages
      PROVE  /\ x < va + PAGE_SIZE <=> x < va \/ x = va
             /\ x = va => start <= x
  <2>1. x \in Nat /\ is_page_aligned(x)
    BY DEF Pages
  <2>2. va <= x /\ x < va + PAGE_SIZE => x = va
    <3>1. ASSUME va <= x, x < va + PAGE_SIZE
          PROVE  x = va
      <4>1. va < x + PAGE_SIZE
        BY <1>1, <2>1, <3>1
      <4> QED BY <1>2, <2>1, <3>1, <4>1, SamePage
    <3> QED BY <3>1
  <2> QED BY <1>1, <1>8, <2>1, <2>2
<1>10. RangePages(start, va + PAGE_SIZE) = RangePages(start, va) \cup {va}
  BY <1>7, <1>8, <1>9 DEF RangePages
<1> QED BY <1>2, <1>4, <1>7, <1>10

(* The number of pages between two page boundaries. *)
LEMMA PageCount ==
  ASSUME NEW a \in Nat, is_page_aligned(a), NEW b \in Nat, is_page_aligned(b), a <= b
  PROVE  (b - a) \div PAGE_SIZE \in Nat /\ a + ((b - a) \div PAGE_SIZE) * PAGE_SIZE = b
<1>1. PICK P \in Int : P = PAGE_SIZE /\ P > 0
  BY PageSize
<1>2. PICK i \in Nat : a = P * i
  BY <1>1, Aligned
<1>3. PICK j \in Nat : b = P * j
  BY <1>1, Aligned
<1>4. i <= j
  <2>1. SUFFICES ASSUME j + 1 <= i PROVE FALSE
    OBVIOUS
  <2>2. P * j + P <= P * i
    BY <1>1, <2>1, Z3
  <2>3. P * j \in Int /\ P * i \in Int
    BY <1>1, Z3
  <2> QED BY <1>1, <1>2, <1>3, <2>2, <2>3
<1>5. PICK k \in Nat : k = j - i
  BY <1>4
<1>6. b - a = P * k /\ a + P * k = b
  BY <1>1, <1>2, <1>3, <1>5, Z3
<1>7. (P * k) \div P = k /\ k * P = P * k
  BY <1>1, Multiples
<1> QED BY <1>1, <1>6, <1>7

LEMMA MapRange ==
  ASSUME NEW m, NEW g, NEW p, Base(m, g), Space(m.mem, g, p, m.root),
         NEW start \in Nat, is_page_aligned(start), NEW end \in Nat, NEW flags,
         NEW last, last = page_floor(end + PAGE_SIZE - 1), start <= last, last <= VaLimit,
         m.panic = "no" => \A va \in RangePages(start, last) : MayMap(g, p, va, flags)
  PROVE  \E h : RangeMapped(m, g, map_range(m, start, end, flags), h, p,
                            RangePages(start, last), flags)
<1> DEFINE n == (last - start) \div PAGE_SIZE
           l == RangeLoop(start, flags)
           upto(k) == RangePages(start, start + k * PAGE_SIZE)
           w == CHOOSE f : f = [k \in 0 .. n |->
                  IF k = 0 THEN m
                  ELSE map_page(f[k - 1], start + (k - 1) * PAGE_SIZE,
                                start + (k - 1) * PAGE_SIZE, flags)]
           T == {k \in 0 .. n : \E h : RangeMapped(m, g, w[k], h, p, upto(k), flags)}
<1>1. last \in Nat /\ is_page_aligned(last)
  <2>1. end + PAGE_SIZE - 1 \in Nat
    BY PageSize
  <2> QED BY <2>1, FloorAligned
<1>2. n \in Nat /\ start + n * PAGE_SIZE = last
  BY <1>1, PageCount
<1>3. map_range(m, start, end, flags) = w[n]
  <2>1. page_floor(start) = start
    BY Aligned
  <2> QED BY <2>1 DEF map_range
<1>4. \A x, k : Turn(l, x, k) = map_page(x, start + (k - 1) * PAGE_SIZE,
                                         start + (k - 1) * PAGE_SIZE, flags)
  BY DEF Turn, RangeLoop
<1> HIDE DEF l, n
<1>5. w = [k \in 0 .. n |-> IF k = 0 THEN m
                            ELSE map_page(w[k - 1], start + (k - 1) * PAGE_SIZE,
                                          start + (k - 1) * PAGE_SIZE, flags)]
  <2>1. PICK f : Turns(l, m, n, f)
    BY <1>2, TurnsExist
  <2>2. f = [k \in 0 .. n |-> IF k = 0 THEN m
                              ELSE map_page(f[k - 1], start + (k - 1) * PAGE_SIZE,
                                            start + (k - 1) * PAGE_SIZE, flags)]
    BY <1>4, <2>1 DEF Turns
  <2> QED BY <2>2
<1> HIDE DEF w
<1>6. 0 \in T
  <2>1. w[0] = m /\ 0 \in 0 .. n
    BY <1>2, <1>5
  <2>2. start + 0 * PAGE_SIZE = start
    <3>1. 0 * PAGE_SIZE = 0
      BY PageSize
    <3> QED BY <3>1
  <2>3. upto(0) = {}
    BY <2>2 DEF RangePages, Pages
  <2>4. Stepped(m, g, m, g, p) /\ EntriesBut(m.mem, m.mem, m.root, {})
    BY KeepsAll DEF Stepped, EntriesBut
  <2> HIDE DEF upto
  <2>5. RangeMapped(m, g, w[0], g, p, upto(0), flags)
    BY <2>1, <2>3, <2>4 DEF RangeMapped
  <2> QED BY <2>1, <2>5
<1>7. ASSUME NEW k \in 0 .. n - 1, k \in T
      PROVE  k + 1 \in T
  <2>1. PICK h : RangeMapped(m, g, w[k], h, p, upto(k), flags)
    BY <1>7
  <2>2. PICK va : va = start + k * PAGE_SIZE
    OBVIOUS
  <2>3. va + PAGE_SIZE <= last
    <3>1. PICK P \in Int : P = PAGE_SIZE /\ P > 0
      BY PageSize
    <3>2. k + 1 <= n /\ k \in Nat
      BY <1>2
    <3>3. k * P + P <= n * P /\ k * P \in Int /\ n * P \in Int
      BY <1>2, <3>1, <3>2, Z3
    <3> QED BY <1>1, <1>2, <2>2, <3>1, <3>3
  <2>4. va \in Pages /\ upto(k + 1) = upto(k) \cup {va}
    <3>1. VaLimit >= last
      OBVIOUS
    <3>2. start + k * PAGE_SIZE + PAGE_SIZE <= VaLimit
      <4>1. VaLimit \in Int
        <5>1. \A a, b \in Int : a * b \in Int
          BY Z3
        <5> QED BY <5>1, PageSize DEF VaLimit, PT_ENTRIES
      <4>2. va \in Int
        BY <2>2, AlignedPlus
      <4> QED BY <1>1, <2>2, <2>3, <4>1, <4>2, PageSize
    <3> QED BY <1>2, <2>2, <3>2, RangePagesNext
  <2> HIDE DEF upto
  <2>5. w[k + 1] = map_page(w[k], va, va, flags) /\ k + 1 \in 0 .. n
    <3>1. k + 1 \in 0 .. n /\ k + 1 # 0 /\ (k + 1) - 1 = k
      BY <1>2
    <3> QED BY <1>5, <2>2, <3>1
  <2>6. w[k].panic = "no" => MayMap(h, p, va, flags)
    <3>1. va \in RangePages(start, last)
      <4>1. start <= va
        <5>1. k * PAGE_SIZE \in Nat
          BY Multiples
        <5> QED BY <2>2, <5>1
      <4>2. va < last
        BY <1>1, <2>3, <2>4, PageSize DEF Pages
      <4> QED BY <2>4, <4>1, <4>2 DEF RangePages
    <3> QED BY <2>1, <3>1, MayMapKeeps DEF RangeMapped, Stepped
  <2>7. Base(w[k], h) /\ Space(w[k].mem, h, p, w[k].root) /\ w[k].root = m.root
    BY <2>1 DEF RangeMapped, Stepped
  <2>8. PICK f : PageMapped(w[k], h, w[k + 1], f, p, va, Pte(va, flags))
    BY <2>4, <2>5, <2>6, <2>7, MapPage
  <2>9. PICK x, y : x = w[k] /\ y = w[k + 1]
    OBVIOUS
  <2>10. Stepped(m, g, y, f, p)
    BY <2>1, <2>8, <2>9, SteppedTrans DEF RangeMapped, PageMapped
  <2>11. EntriesBut(m.mem, y.mem, m.root, upto(k + 1))
    <3>1. EntriesBut(x.mem, y.mem, m.root, {va})
      BY <2>7, <2>8, <2>9 DEF PageMapped, EntriesBut
    <3>2. EntriesBut(m.mem, x.mem, m.root, upto(k))
      BY <2>1, <2>9 DEF RangeMapped
    <3> QED BY <2>4, <3>1, <3>2 DEF EntriesBut
  <2>12. ASSUME y.panic = "no"
         PROVE  m.panic = "no" /\ \A vb \in upto(k + 1) : EntryAt(y.mem, m.root, vb) = Pte(vb, flags)
    <3>1. x.panic = "no" /\ EntryAt(y.mem, m.root, va) = Pte(va, flags)
      BY <2>7, <2>8, <2>9, <2>12 DEF PageMapped
    <3>2. m.panic = "no" /\ \A vb \in upto(k) : EntryAt(x.mem, m.root, vb) = Pte(vb, flags)
      BY <2>1, <2>9, <3>1 DEF RangeMapped
    <3>3. EntriesBut(x.mem, y.mem, m.root, {va})
      BY <2>7, <2>8, <2>9 DEF PageMapped, EntriesBut
    <3>4. upto(k) \subseteq Pages
      BY DEF upto, RangePages
    <3> QED BY <2>4, <3>1, <3>2, <3>3, <3>4 DEF EntriesBut
  <2>13. RangeMapped(m, g, y, f, p, upto(k + 1), flags)
    BY <2>10, <2>11, <2>12 DEF RangeMapped
  <2> QED BY <2>5, <2>9, <2>13
<1> HIDE DEF T
<1>8. n \in T
  <2>1. 0 .. n \subseteq T
    BY <1>2, <1>6, <1>7, Upward
  <2> QED BY <1>2, <2>1
<1>9. upto(n) = RangePages(start, last)
  BY <1>2
<1> HIDE DEF upto
<1> QED BY <1>3, <1>8, <1>9 DEF T

----------------------------------------------------------------------------
(***************************************************************************)
(* The kernel in an address space: its regions are mapped to themselves.   *)
(***************************************************************************)
RegionPages(k) == RangePages(KernelRegions[k].start, region_end(KernelRegions[k]))
RegionIds == 1 .. Len(KernelRegions)

LEMMA VaLimitInt == VaLimit \in Int
<1>1. \A a, b \in Int : a * b \in Int
  BY Z3
<1> QED BY <1>1, PageSize DEF VaLimit, PT_ENTRIES

LEMMA RegionEnd ==
  ASSUME NEW r, r.end \in Nat
  PROVE  region_end(r) \in Nat /\ r.end <= region_end(r) /\ is_page_aligned(region_end(r))
<1>1. PICK n \in Nat : n = r.end + PAGE_SIZE - 1
  BY PageSize
<1>2. page_floor(n) \in Nat /\ n < page_floor(n) + PAGE_SIZE /\ is_page_aligned(page_floor(n))
  BY FloorAligned
<1> QED BY <1>1, <1>2, PageSize DEF region_end

LEMMA Regions ==
  ASSUME NEW k \in RegionIds
  PROVE  LET r == KernelRegions[k] IN
         /\ r.start \in Nat /\ is_page_aligned(r.start) /\ r.end \in Nat
         /\ r.start <= region_end(r) /\ region_end(r) <= VaLimit /\ region_end(r) \in Nat
         /\ region_end(r) <= USER_VA_START \/ r.start >= USER_VA_END
         /\ "V" \in r.flags /\ r.flags \cap {"R", "W", "X"} # {} /\ "U" \notin r.flags
         /\ \A l \in RegionIds \ {k} :
              region_end(r) <= KernelRegions[l].start \/ region_end(KernelRegions[l]) <= r.start
<1> DEFINE R == [start : Nat, end : Nat, flags : SUBSET {"V", "R", "W", "X", "A", "D", "G"}]
           r == KernelRegions[k]
<1>1. KernelRegions \in Seq(R) /\ DOMAIN KernelRegions = RegionIds
  <2>1. KernelRegions \in Seq(R)
    BY KvmAssumption
  <2> QED BY <2>1, LenProperties DEF RegionIds
<1>2. r \in R
  <2> HIDE DEF R
  <2> QED BY <1>1, ElementOfSeq DEF RegionIds
<1>3. r.start \in Nat /\ r.end \in Nat /\ "U" \notin r.flags
  BY <1>2
<1>4. /\ is_page_aligned(r.start) /\ r.start <= r.end /\ region_end(r) <= VaLimit
      /\ region_end(r) <= USER_VA_START \/ r.start >= USER_VA_END
      /\ "V" \in r.flags /\ r.flags \cap {"R", "W", "X"} # {}
      /\ \A l \in RegionIds \ {k} :
            region_end(r) <= KernelRegions[l].start \/ region_end(KernelRegions[l]) <= r.start
  BY <1>1, KvmAssumption
<1>5. region_end(r) \in Nat /\ r.end <= region_end(r)
  BY <1>3, RegionEnd
<1> HIDE DEF r
<1>6. r.start <= region_end(r)
  BY <1>3, <1>4, <1>5
<1> QED BY <1>3, <1>4, <1>5, <1>6 DEF r

LEMMA RegionsApart ==
  ASSUME NEW k \in RegionIds, NEW l \in RegionIds, k # l
  PROVE  RegionPages(k) \cap RegionPages(l) = {}
<1>1. /\ KernelRegions[k].start \in Nat /\ region_end(KernelRegions[k]) \in Nat
      /\ KernelRegions[l].start \in Nat /\ region_end(KernelRegions[l]) \in Nat
      /\ \/ region_end(KernelRegions[k]) <= KernelRegions[l].start
         \/ region_end(KernelRegions[l]) <= KernelRegions[k].start
  BY Regions
<1>2. \A va \in Pages : va \in Nat
  BY DEF Pages
<1>3. ASSUME NEW va \in Pages, va \in RegionPages(k), va \in RegionPages(l)
      PROVE  FALSE
  BY <1>1, <1>2, <1>3 DEF RegionPages, RangePages
<1> QED BY <1>3 DEF RegionPages, RangePages

KernelEntry(e, va, flags) ==
  is_leaf(e) /\ phys_addr(e) = va /\ (e.flags = flags \/ "U" \in e.flags)

KernelMapped(ws, r, K) ==
  \A k \in K : \A va \in RegionPages(k) :
    KernelEntry(EntryAt(ws, r, va), va, KernelRegions[k].flags)

(* What map_kernel_regions() leaves after n regions. *)
RegionsMapped(m, g, new, h, p, n) ==
  /\ Stepped(m, g, new, h, p)
  /\ new.panic = "no" => m.panic = "no" /\ KernelMapped(new.mem, m.root, 1 .. n)

LEMMA MapKernelRegions ==
  ASSUME NEW m, NEW g, NEW p, Base(m, g), Space(m.mem, g, p, m.root)
  PROVE  \E h : RegionsMapped(m, g, map_kernel_regions(m), h, p, Len(KernelRegions))
<1> DEFINE n == Len(KernelRegions)
           w == CHOOSE f : f = [k \in 0 .. n |->
                  IF k = 0 THEN m
                  ELSE map_range(f[k - 1], KernelRegions[k].start, KernelRegions[k].end,
                                 KernelRegions[k].flags)]
           T == {k \in 0 .. n : \E h : RegionsMapped(m, g, w[k], h, p, k)}
<1>1. n \in Nat
  BY KvmAssumption, LenProperties
<1>2. map_kernel_regions(m) = w[n]
  BY DEF map_kernel_regions
<1>3. \A x, k : Turn(RegionLoop, x, k) =
         map_range(x, KernelRegions[k].start, KernelRegions[k].end, KernelRegions[k].flags)
  BY DEF Turn, RegionLoop
<1>4. w = [k \in 0 .. n |->
             IF k = 0 THEN m
             ELSE map_range(w[k - 1], KernelRegions[k].start, KernelRegions[k].end,
                            KernelRegions[k].flags)]
  <2> HIDE DEF n
  <2>1. PICK f : Turns(RegionLoop, m, n, f)
    BY <1>1, TurnsExist
  <2>2. f = [k \in 0 .. n |->
             IF k = 0 THEN m
             ELSE map_range(f[k - 1], KernelRegions[k].start, KernelRegions[k].end,
                            KernelRegions[k].flags)]
    BY <1>3, <2>1 DEF Turns
  <2> QED BY <2>2
<1> HIDE DEF w
<1>5. 0 \in T
  <2> HIDE DEF n
  <2>1. w[0] = m /\ 0 \in 0 .. n
    BY <1>1, <1>4
  <2>2. Stepped(m, g, m, g, p) /\ KernelMapped(m.mem, m.root, 1 .. 0)
    BY KeepsAll DEF Stepped, KernelMapped
  <2>3. RegionsMapped(m, g, w[0], g, p, 0)
    BY <2>1, <2>2 DEF RegionsMapped
  <2> QED BY <2>1, <2>3
<1>6. ASSUME NEW k \in 0 .. n - 1, k \in T
      PROVE  k + 1 \in T
  <2>1. PICK h : RegionsMapped(m, g, w[k], h, p, k)
    BY <1>6
  <2>2. k + 1 \in RegionIds /\ k + 1 \in 0 .. n /\ k + 1 # 0 /\ (k + 1) - 1 = k /\ k \in Nat
    BY <1>1 DEF RegionIds
  <2> DEFINE r == KernelRegions[k + 1]
             y == map_range(w[k], r.start, r.end, r.flags)
  <2>3. w[k + 1] = y
    BY <1>4, <2>2
  <2>4. /\ r.start \in Nat /\ is_page_aligned(r.start) /\ r.end \in Nat
        /\ r.start <= region_end(r) /\ region_end(r) <= VaLimit /\ region_end(r) \in Nat
        /\ "V" \in r.flags /\ r.flags \cap {"R", "W", "X"} # {} /\ "U" \notin r.flags
    BY <2>2, Regions
  <2>5. RegionPages(k + 1) = RangePages(r.start, region_end(r))
    BY DEF RegionPages
  <2>6. region_end(r) = page_floor(r.end + PAGE_SIZE - 1)
    BY DEF region_end
  <2> HIDE DEF r
  <2>7. \A va \in RangePages(r.start, region_end(r)) : MayMap(h, p, va, r.flags)
    BY <2>4 DEF MayMap, RangePages, Pages
  <2>8. Base(w[k], h) /\ Space(w[k].mem, h, p, w[k].root) /\ w[k].root = m.root
    BY <2>1 DEF RegionsMapped, Stepped
  <2>9. PICK f : RangeMapped(w[k], h, y, f, p, RangePages(r.start, region_end(r)), r.flags)
    BY <2>4, <2>6, <2>7, <2>8, MapRange
  <2> HIDE DEF y, n
  <2>10. Stepped(m, g, y, f, p)
    BY <2>1, <2>9, SteppedTrans DEF RangeMapped, RegionsMapped
  <2>11. ASSUME y.panic = "no"
         PROVE  m.panic = "no" /\ KernelMapped(y.mem, m.root, 1 .. k + 1)
    <3>1. /\ w[k].panic = "no"
          /\ \A va \in RegionPages(k + 1) : EntryAt(y.mem, m.root, va) = Pte(va, r.flags)
          /\ EntriesBut(w[k].mem, y.mem, m.root, RegionPages(k + 1))
      BY <2>5, <2>8, <2>9, <2>11 DEF RangeMapped
    <3>2. m.panic = "no" /\ KernelMapped(w[k].mem, m.root, 1 .. k)
      BY <2>1, <3>1 DEF RegionsMapped
    <3>3. ASSUME NEW va \in RegionPages(k + 1)
          PROVE  KernelEntry(EntryAt(y.mem, m.root, va), va, r.flags)
      <4>1. MayMap(h, p, va, r.flags)
        BY <2>5, <2>7
      <4> QED BY <3>1, <4>1, MayMapEntry DEF KernelEntry
    <3>4. ASSUME NEW l \in 1 .. k, NEW va \in RegionPages(l)
          PROVE  KernelEntry(EntryAt(y.mem, m.root, va), va, KernelRegions[l].flags)
      <4>1. l \in RegionIds /\ l # k + 1
        BY <2>2 DEF RegionIds
      <4>2. va \in Pages /\ va \notin RegionPages(k + 1)
        BY <2>2, <4>1, RegionsApart DEF RegionPages, RangePages
      <4>3. EntryAt(y.mem, m.root, va) = EntryAt(w[k].mem, m.root, va)
        BY <3>1, <4>2 DEF EntriesBut
      <4> QED BY <3>2, <4>3 DEF KernelMapped
    <3>5. \A l \in 1 .. k + 1 : l \in 1 .. k \/ l = k + 1
      BY <2>2
    <3> QED BY <3>2, <3>3, <3>4, <3>5 DEF KernelMapped, r
  <2>12. RegionsMapped(m, g, y, f, p, k + 1)
    BY <2>10, <2>11 DEF RegionsMapped
  <2> QED BY <2>2, <2>3, <2>12
<1> HIDE DEF T, n
<1>7. n \in T
  <2>1. 0 .. n \subseteq T
    BY <1>1, <1>5, <1>6, Upward
  <2> QED BY <1>1, <2>1
<1> QED BY <1>2, <1>7 DEF T, n

----------------------------------------------------------------------------
(***************************************************************************)
(* Building an address space: kvm::init(), SYS_SPAWN, create_process().    *)
(***************************************************************************)
KeepsEach(ws, g, new, h) ==
  \A page \in Heap : g[page] # FreeTag =>
    h[page] = g[page] /\ \A q : TableOf(g[page], q) => Same(ws, new, page)

LEMMA KeepsEachSpace ==
  ASSUME NEW ws, NEW g, NEW new, NEW h, KeepsEach(ws, g, new, h)
  PROVE  /\ \A p : Keeps(ws, g, new, h, p)
         /\ \A q, r : Space(ws, g, q, r) => Space(new, h, q, r) /\ SameEntries(ws, new, r)
<1>1. \A p : Keeps(ws, g, new, h, p)
  BY DEF KeepsEach, Keeps
<1>2. ASSUME NEW q, NEW r, Space(ws, g, q, r)
      PROVE  Space(new, h, q, r) /\ SameEntries(ws, new, r)
  <2>1. PICK p : p # q
    BY {} # {{}}, q = {} \/ q # {}
  <2> QED BY <1>1, <1>2, <2>1, KeepsSpace
<1> QED BY <1>1, <1>2

(* A page of the allocator's, for the use t. *)
PageTaken(m, g, new, h, t) ==
  /\ Base(new, h) /\ new.root = m.root
  /\ KeepsEach(m.mem, g, new.mem, h) /\ KeepsUsers(m.mem, g, new.mem)
  /\ new.panic = "no" => /\ m.panic = "no" /\ new.page \in Heap /\ h[new.page] = t
                         /\ g[new.page] = FreeTag
                         /\ \A i \in Idx : read_pte(new.mem, new.page, i) = INVALID

LEMMA TakePage ==
  ASSUME NEW m, NEW g, Base(m, g), NEW t
  PROVE  \E h : PageTaken(m, g, alloc_zeroed_page(m), h, t)
<1> DEFINE new == alloc_zeroed_page(m)
<1>0. KeepsEach(m.mem, g, m.mem, g) /\ KeepsUsers(m.mem, g, m.mem)
  BY DEF KeepsEach, KeepsUsers, Same
<1>1. CASE m.panic # "no"
  <2>1. new = m
    BY <1>1 DEF alloc_zeroed_page, unless_panicked
  <2>2. PageTaken(m, g, m, g, t)
    BY <1>0, <1>1 DEF PageTaken
  <2> QED BY <2>1, <2>2
<1>2. CASE m.panic = "no"
  <2>1. \/ Base(new, g) /\ new.panic = "oom" /\ new.mem = m.mem /\ new.root = m.root
        \/ /\ new.panic = "no" /\ new.root = m.root
           /\ new.page \in Heap /\ g[new.page] = FreeTag
           /\ Base(new, Retag(g, new.page, t))
           /\ \A i \in Idx : read_pte(new.mem, new.page, i) = INVALID
           /\ \A page \in Heap : page # new.page => Same(m.mem, new.mem, page)
    BY <1>2, AllocPage
  <2> HIDE DEF new
  <2>2. CASE Base(new, g) /\ new.panic = "oom" /\ new.mem = m.mem /\ new.root = m.root
    <3>1. PageTaken(m, g, new, g, t)
      BY <1>0, <2>2 DEF PageTaken
    <3> QED BY <3>1 DEF new
  <2>3. CASE /\ new.panic = "no" /\ new.root = m.root
             /\ new.page \in Heap /\ g[new.page] = FreeTag
             /\ Base(new, Retag(g, new.page, t))
             /\ \A i \in Idx : read_pte(new.mem, new.page, i) = INVALID
             /\ \A page \in Heap : page # new.page => Same(m.mem, new.mem, page)
    <3>1. PICK h : h = Retag(g, new.page, t)
      OBVIOUS
    <3>2. h[new.page] = t /\ \A page \in Heap : page # new.page => h[page] = g[page]
      BY <2>3, <3>1 DEF Retag
    <3>3. KeepsEach(m.mem, g, new.mem, h) /\ KeepsUsers(m.mem, g, new.mem)
      BY <2>3, <3>2, Tags DEF KeepsEach, KeepsUsers
    <3>4. PageTaken(m, g, new, h, t)
      BY <1>2, <2>3, <3>1, <3>2, <3>3 DEF PageTaken
    <3> QED BY <3>4 DEF new
  <2> QED BY <2>1, <2>2, <2>3
<1> QED BY <1>1, <1>2

(* A machine that came from m while a space for p was built, and that space. *)
Building(m, g, new, h, p) ==
  /\ Base(new, h) /\ Keeps(m.mem, g, new.mem, h, p)
  /\ new.panic = "no" => m.panic = "no"

Built(m, g, new, h, p) ==
  /\ Building(m, g, new, h, p)
  /\ new.panic = "no" => /\ Space(new.mem, h, p, new.root)
                         /\ KernelMapped(new.mem, new.root, RegionIds)

LEMMA BuildingTrans ==
  ASSUME NEW m, NEW g, NEW new, NEW h, NEW last, NEW f, NEW p,
         Building(m, g, new, h, p), Building(new, h, last, f, p)
  PROVE  Building(m, g, last, f, p)
<1>1. Keeps(m.mem, g, last.mem, f, p)
  BY KeepsTrans DEF Building
<1> QED BY <1>1 DEF Building

LEMMA KernelKept ==
  ASSUME NEW ws, NEW new, NEW r, NEW K, KernelMapped(ws, r, K),
         NEW S, EntriesBut(ws, new, r, S),
         \A k \in K : \A va \in RegionPages(k) : va \in S =>
            KernelEntry(EntryAt(new, r, va), va, KernelRegions[k].flags)
  PROVE  KernelMapped(new, r, K)
  BY DEF KernelMapped, EntriesBut, RegionPages, RangePages

(* After a panic, the loops do nothing. *)
LEMMA Idle ==
  ASSUME NEW l, NEW x, NEW N \in Nat, \A k \in 1 .. N : Turn(l, x, k) = x, NEW w, Turns(l, x, N, w)
  PROVE  w[N] = x
<1> DEFINE T == {k \in 0 .. N : w[k] = x}
<1>1. 0 \in T
  BY DEF Turns
<1>2. ASSUME NEW k \in 0 .. N - 1, k \in T
      PROVE  k + 1 \in T
  <2>1. k + 1 \in 0 .. N /\ k + 1 \in 1 .. N /\ k + 1 # 0 /\ (k + 1) - 1 = k
    OBVIOUS
  <2>2. w[k + 1] = Turn(l, w[k], k + 1)
    BY <2>1 DEF Turns
  <2> QED BY <1>2, <2>1, <2>2
<1> HIDE DEF T
<1>3. 0 .. N \subseteq T
  BY <1>1, <1>2, Upward
<1> QED BY <1>3 DEF T

LEMMA PanickedRange ==
  ASSUME NEW m, m.panic # "no", NEW start \in Nat, is_page_aligned(start),
         NEW end \in Nat, NEW flags, NEW last, last = page_floor(end + PAGE_SIZE - 1), start <= last
  PROVE  map_range(m, start, end, flags) = m
<1> DEFINE n == (last - start) \div PAGE_SIZE
           l == RangeLoop(start, flags)
           w == CHOOSE f : f = [k \in 0 .. n |->
                  IF k = 0 THEN m
                  ELSE map_page(f[k - 1], start + (k - 1) * PAGE_SIZE,
                                start + (k - 1) * PAGE_SIZE, flags)]
<1>1. last \in Nat /\ is_page_aligned(last)
  <2>1. end + PAGE_SIZE - 1 \in Nat
    BY PageSize
  <2> QED BY <2>1, FloorAligned
<1>2. n \in Nat
  BY <1>1, PageCount
<1>3. map_range(m, start, end, flags) = w[n]
  <2>1. page_floor(start) = start
    BY Aligned
  <2> QED BY <2>1 DEF map_range
<1>4. \A x, k : Turn(l, x, k) = map_page(x, start + (k - 1) * PAGE_SIZE,
                                         start + (k - 1) * PAGE_SIZE, flags)
  BY DEF Turn, RangeLoop
<1>5. \A k : Turn(l, m, k) = m
  BY <1>4 DEF map_page, unless_panicked
<1> HIDE DEF l, n
<1>6. Turns(l, m, n, w)
  <2>1. PICK f : Turns(l, m, n, f)
    BY <1>2, TurnsExist
  <2>2. f = [k \in 0 .. n |-> IF k = 0 THEN m
                              ELSE map_page(f[k - 1], start + (k - 1) * PAGE_SIZE,
                                            start + (k - 1) * PAGE_SIZE, flags)]
    BY <1>4, <2>1 DEF Turns
  <2>3. w = [k \in 0 .. n |-> IF k = 0 THEN m
                              ELSE map_page(w[k - 1], start + (k - 1) * PAGE_SIZE,
                                            start + (k - 1) * PAGE_SIZE, flags)]
    BY <2>2, Zenon
  <2> HIDE DEF w
  <2>4. \A k : Turn(l, w[k - 1], k) =
          map_page(w[k - 1], start + (k - 1) * PAGE_SIZE, start + (k - 1) * PAGE_SIZE, flags)
    BY <1>4, Zenon
  <2> QED BY <2>3, <2>4 DEF Turns
<1> HIDE DEF w
<1>7. w[n] = m
  BY <1>2, <1>5, <1>6, Idle
<1> QED BY <1>3, <1>7

LEMMA PanickedRegions ==
  ASSUME NEW m, m.panic # "no"
  PROVE  map_kernel_regions(m) = m
<1> DEFINE n == Len(KernelRegions)
           w == CHOOSE f : f = [k \in 0 .. n |->
                  IF k = 0 THEN m
                  ELSE map_range(f[k - 1], KernelRegions[k].start, KernelRegions[k].end,
                                 KernelRegions[k].flags)]
<1>1. n \in Nat
  BY KvmAssumption, LenProperties
<1>2. map_kernel_regions(m) = w[n]
  BY DEF map_kernel_regions
<1>3. \A x, k : Turn(RegionLoop, x, k) =
         map_range(x, KernelRegions[k].start, KernelRegions[k].end, KernelRegions[k].flags)
  BY DEF Turn, RegionLoop
<1>4. ASSUME NEW k \in 1 .. n
      PROVE  Turn(RegionLoop, m, k) = m
  <2>1. /\ KernelRegions[k].start \in Nat /\ is_page_aligned(KernelRegions[k].start)
        /\ KernelRegions[k].end \in Nat
        /\ KernelRegions[k].start <= page_floor(KernelRegions[k].end + PAGE_SIZE - 1)
    BY Regions DEF region_end, RegionIds
  <2> QED BY <1>3, <2>1, PanickedRange
<1> HIDE DEF n
<1>5. Turns(RegionLoop, m, n, w)
  <2>1. PICK f : Turns(RegionLoop, m, n, f)
    BY <1>1, TurnsExist
  <2>2. f = [k \in 0 .. n |->
             IF k = 0 THEN m
             ELSE map_range(f[k - 1], KernelRegions[k].start, KernelRegions[k].end,
                            KernelRegions[k].flags)]
    BY <1>3, <2>1 DEF Turns
  <2>3. w = [k \in 0 .. n |->
             IF k = 0 THEN m
             ELSE map_range(w[k - 1], KernelRegions[k].start, KernelRegions[k].end,
                            KernelRegions[k].flags)]
    BY <2>2, Zenon
  <2> HIDE DEF w
  <2>4. \A k : Turn(RegionLoop, w[k - 1], k) =
          map_range(w[k - 1], KernelRegions[k].start, KernelRegions[k].end, KernelRegions[k].flags)
    BY <1>3, Zenon
  <2> QED BY <2>3, <2>4 DEF Turns
<1> HIDE DEF w
<1>6. w[n] = m
  BY <1>1, <1>4, <1>5, Idle
<1> QED BY <1>2, <1>6

(* new_root(). *)
LEMMA NewRoot ==
  ASSUME NEW m, NEW g, NEW p, Base(m, g)
  PROVE  \E h : Built(m, g, new_root(m), h, p)
<1> DEFINE a == alloc_zeroed_page(m)
           b == [a EXCEPT !.root = a.page]
           new == new_root(m)
<1>1. new = map_kernel_regions(b)
  BY DEF new_root
<1>2. PICK h : PageTaken(m, g, a, h, RootTag(p))
  BY TakePage
<1> HIDE DEF a, new
<1>3. Base(b, h) /\ b.mem = a.mem /\ b.panic = a.panic /\ b.root = a.page
  <2>0. Base(a, h)
    BY <1>2 DEF PageTaken
  <2>1. PICK x, w, y, r, c : /\ x = a.bitmap /\ w = a.mem /\ y = a.panic /\ c = a.page
                             /\ a = Machine(x, w, y, r, c)
    BY <2>0 DEF Base, IsMachine
  <2>2. b = Machine(x, w, y, c, c)
    BY <2>1, MachineUpdates
  <2> HIDE DEF b
  <2>3. /\ b.bitmap = x /\ b.mem = w /\ b.panic = y /\ b.root = c /\ IsMachine(b)
    BY <2>2, MachineFields
  <2> QED BY <2>0, <2>1, <2>3 DEF Base
<1> HIDE DEF b
<1>4. Building(m, g, b, h, p)
  BY <1>2, <1>3, KeepsEachSpace DEF Building, PageTaken
<1>5. CASE b.panic # "no"
  <2>1. new = b
    BY <1>1, <1>5, PanickedRegions
  <2>2. Built(m, g, b, h, p)
    BY <1>4, <1>5 DEF Built
  <2> QED BY <2>1, <2>2 DEF new
<1>6. CASE b.panic = "no"
  <2>1. Space(b.mem, h, p, b.root)
    <3>1. /\ b.root \in Heap /\ h[b.root] = RootTag(p)
          /\ \A i \in Idx : read_pte(b.mem, b.root, i) = INVALID
      BY <1>2, <1>3, <1>6 DEF PageTaken
    <3>2. \A i, j, k \in Idx : Entry(b.mem, b.root, i, j, k) = INVALID
      BY <3>1, Entries DEF Entry
    <3> QED BY <3>1, <3>2, Entries DEF Space, UserEntry
  <2>2. PICK f : RegionsMapped(b, h, new, f, p, Len(KernelRegions))
    BY <1>1, <1>3, <2>1, MapKernelRegions
  <2>3. Base(new, f) /\ new.root = b.root /\ Space(new.mem, f, p, b.root) /\ Keeps(b.mem, h, new.mem, f, p)
    BY <2>2 DEF RegionsMapped, Stepped
  <2>4. Building(b, h, new, f, p)
    BY <1>6, <2>3 DEF Building
  <2>5. Building(m, g, new, f, p)
    BY <1>4, <2>4, BuildingTrans
  <2>6. new.panic = "no" => KernelMapped(new.mem, new.root, RegionIds)
    BY <2>2, <2>3 DEF RegionsMapped, RegionIds
  <2>7. Built(m, g, new, f, p)
    BY <2>3, <2>5, <2>6 DEF Built
  <2> QED BY <2>7 DEF new
<1> QED BY <1>5, <1>6

(* A page at a user address is not a page of the kernel. *)
LEMMA UserNotKernel ==
  ASSUME NEW va \in Pages, is_user_va(va), NEW k \in RegionIds
  PROVE  va \notin RegionPages(k)
<1>1. /\ KernelRegions[k].start \in Nat /\ region_end(KernelRegions[k]) \in Nat
      /\ \/ region_end(KernelRegions[k]) <= USER_VA_START
         \/ KernelRegions[k].start >= USER_VA_END
  BY Regions
<1>2. va \in Nat /\ va >= USER_VA_START /\ va < USER_VA_END
  BY DEF Pages, is_user_va
<1>3. USER_VA_START \in Nat /\ USER_VA_END \in Nat
  BY KvmAssumption
<1> QED BY <1>1, <1>2, <1>3 DEF RegionPages, RangePages

LEMMA UserFlags ==
  ASSUME NEW flags \in {USER_RX, USER_RW}
  PROVE  "V" \in flags /\ "U" \in flags /\ flags \cap {"R", "W", "X"} # {}
<1>1. "R" \in flags /\ "V" \in flags /\ "U" \in flags
  BY DEF USER_RX, USER_RW
<1> QED BY <1>1

(***************************************************************************)
(* What a process sees: the words of the page at va.  While a space is     *)
(* built, what it shows outside S stays; a page is added that shows words. *)
(***************************************************************************)
ForUser(ws, r, va) == "U" \in EntryAt(ws, r, va).flags
PageWords(ws, page) == [i \in Idx |-> read_pte(ws, page, i)]
View(ws, r, va) == PageWords(ws, phys_addr(EntryAt(ws, r, va)))
PageShown(ws, r, va, words) == ForUser(ws, r, va) /\ View(ws, r, va) = words

ViewsKept(ws, new, r, S) ==
  \A va \in Pages \ S : \A words : PageShown(ws, r, va, words) => PageShown(new, r, va, words)

Adds(m, new, S) ==
  new.panic = "no" => m.panic = "no" /\ new.root = m.root /\ ViewsKept(m.mem, new.mem, m.root, S)

PageAdded(m, new, va, words) ==
  Adds(m, new, {va}) /\ (new.panic = "no" => PageShown(new.mem, new.root, va, words))

LEMMA ViewsStay ==
  ASSUME NEW ws, NEW g, NEW new, NEW p, NEW r, Space(ws, g, p, r), KeepsUsers(ws, g, new),
         NEW S, EntriesBut(ws, new, r, S)
  PROVE  ViewsKept(ws, new, r, S)
<1> SUFFICES ASSUME NEW va \in Pages \ S, ForUser(ws, r, va)
             PROVE  ForUser(new, r, va) /\ View(new, r, va) = View(ws, r, va)
  BY DEF ViewsKept, PageShown
<1>1. PICK e : e = EntryAt(ws, r, va) /\ e = EntryAt(new, r, va)
  BY DEF EntriesBut
<1>2. UserEntry(g, p, e)
  <2>1. va_parts(va).vpn2 \in Idx /\ va_parts(va).vpn1 \in Idx /\ va_parts(va).vpn0 \in Idx
    BY Parts DEF Pages
  <2> QED BY <1>1, <2>1 DEF Space, EntryAt
<1>3. phys_addr(e) \in Heap /\ g[phys_addr(e)] = UserTag(p)
  BY <1>1, <1>2 DEF UserEntry, ForUser
<1>4. Same(ws, new, phys_addr(e))
  BY <1>3 DEF KeepsUsers
<1>5. PageWords(new, phys_addr(e)) = PageWords(ws, phys_addr(e))
  BY <1>4 DEF Same, PageWords
<1> QED BY <1>1, <1>5 DEF ForUser, View

LEMMA AddsTrans ==
  ASSUME NEW m, NEW new, NEW last, NEW S, NEW T, NEW U, S \subseteq U, T \subseteq U,
         Adds(m, new, S), Adds(new, last, T)
  PROVE  Adds(m, last, U)
  BY DEF Adds, ViewsKept

(* The page just taken is mapped at a user address. *)
LEMMA MapNew ==
  ASSUME NEW m, NEW g, NEW new, NEW h, NEW p, Built(m, g, new, h, p),
         new.panic = "no" => new.page \in Heap /\ h[new.page] = UserTag(p),
         NEW va \in Pages, is_user_va(va), NEW flags \in {USER_RX, USER_RW}
  PROVE  LET last == map_new(new, va, flags) IN
         \E f : Built(m, g, last, f, p) /\ PageAdded(new, last, va, PageWords(new.mem, new.page))
<1> DEFINE last == map_page(new, va, new.page, flags)
<1>1. map_new(new, va, flags) = last
  BY DEF map_new
<1>2. CASE new.panic # "no"
  <2>1. last = new
    BY <1>2 DEF map_page, unless_panicked
  <2>2. PageAdded(new, new, va, PageWords(new.mem, new.page))
    BY <1>2 DEF PageAdded, Adds
  <2> QED BY <1>1, <2>1, <2>2
<1>3. CASE new.panic = "no"
  <2>1. Base(new, h) /\ Space(new.mem, h, p, new.root) /\ KernelMapped(new.mem, new.root, RegionIds)
    BY <1>3 DEF Built, Building
  <2>2. MayMap(h, p, new.page, flags)
    BY <1>3, UserFlags, HeapPages DEF MayMap
  <2>3. PICK f : PageMapped(new, h, last, f, p, va, Pte(new.page, flags))
    BY <2>1, <2>2, MapPage
  <2> HIDE DEF last
  <2>4. /\ Base(last, f) /\ last.root = new.root /\ Space(last.mem, f, p, new.root)
        /\ Keeps(new.mem, h, last.mem, f, p)
    BY <2>3 DEF PageMapped, Stepped
  <2>5. Building(m, g, last, f, p)
    <3>1. Building(new, h, last, f, p)
      BY <1>3, <2>4 DEF Building
    <3> QED BY <3>1, BuildingTrans DEF Built
  <2>6. ASSUME last.panic = "no"
        PROVE  KernelMapped(last.mem, new.root, RegionIds)
    <3>1. EntriesBut(new.mem, last.mem, new.root, {va})
      BY <2>3, <2>6 DEF PageMapped
    <3>2. \A k \in RegionIds : \A vb \in RegionPages(k) : vb \in {va} =>
            KernelEntry(EntryAt(last.mem, new.root, vb), vb, KernelRegions[k].flags)
      BY UserNotKernel
    <3> QED BY <2>1, <3>1, <3>2, KernelKept
  <2>7. Built(m, g, last, f, p)
    BY <2>4, <2>5, <2>6 DEF Built
  <2>8. PageAdded(new, last, va, PageWords(new.mem, new.page))
    <3>1. SUFFICES ASSUME last.panic = "no"
                   PROVE  /\ ViewsKept(new.mem, last.mem, new.root, {va})
                          /\ PageShown(last.mem, new.root, va, PageWords(new.mem, new.page))
      BY <1>3, <2>4 DEF PageAdded, Adds
    <3>2. KeepsUsers(new.mem, h, last.mem) /\ EntriesBut(new.mem, last.mem, new.root, {va})
      BY <2>3, <3>1 DEF PageMapped, Stepped
    <3>3. ViewsKept(new.mem, last.mem, new.root, {va})
      BY <2>1, <3>2, ViewsStay
    <3>4. EntryAt(last.mem, new.root, va) = Pte(new.page, flags)
      BY <2>3, <3>1 DEF PageMapped
    <3>5. /\ phys_addr(Pte(new.page, flags)) = new.page /\ "U" \in Pte(new.page, flags).flags
      BY <2>2, MayMapEntry, UserFlags
    <3>6. PageWords(last.mem, new.page) = PageWords(new.mem, new.page)
      <4>1. Same(new.mem, last.mem, new.page)
        BY <1>3, <3>2 DEF KeepsUsers
      <4> QED BY <4>1 DEF Same, PageWords
    <3>7. PageShown(last.mem, new.root, va, PageWords(new.mem, new.page))
      BY <3>4, <3>5, <3>6 DEF PageShown, ForUser, View
    <3> QED BY <3>3, <3>7
  <2> QED BY <1>1, <2>7, <2>8 DEF last
<1> QED BY <1>2, <1>3

(* A page is taken while a space is built. *)
PageFresh(m, g, new) ==
  new.panic = "no" => /\ m.panic = "no" /\ new.root = m.root
                      /\ KeepsUsers(m.mem, g, new.mem) /\ EntriesBut(m.mem, new.mem, m.root, {})
                      /\ g[new.page] = FreeTag
                      /\ \A i \in Idx : read_pte(new.mem, new.page, i) = INVALID

LEMMA TakeWhileBuilding ==
  ASSUME NEW m, NEW g, NEW new, NEW h, NEW p, Built(m, g, new, h, p)
  PROVE  \E f : LET last == alloc_zeroed_page(new) IN
           /\ Built(m, g, last, f, p)
           /\ last.panic = "no" => last.page \in Heap /\ f[last.page] = UserTag(p)
           /\ PageFresh(new, h, last)
<1> DEFINE last == alloc_zeroed_page(new)
<1>1. Base(new, h)
  BY DEF Built, Building
<1>2. PICK f : PageTaken(new, h, last, f, UserTag(p))
  BY <1>1, TakePage
<1> HIDE DEF last
<1>3. /\ Base(last, f) /\ last.root = new.root /\ KeepsEach(new.mem, h, last.mem, f)
      /\ last.panic = "no" => new.panic = "no" /\ last.page \in Heap /\ f[last.page] = UserTag(p)
      /\ KeepsUsers(new.mem, h, last.mem)
      /\ last.panic = "no" => /\ h[last.page] = FreeTag
                              /\ \A i \in Idx : read_pte(last.mem, last.page, i) = INVALID
  BY <1>2 DEF PageTaken
<1>4. Building(m, g, last, f, p)
  <2>1. Building(new, h, last, f, p)
    BY <1>3, KeepsEachSpace DEF Building
  <2> QED BY <2>1, BuildingTrans DEF Built
<1>5. ASSUME last.panic = "no"
      PROVE  /\ Space(last.mem, f, p, last.root) /\ KernelMapped(last.mem, last.root, RegionIds)
             /\ EntriesBut(new.mem, last.mem, new.root, {})
  <2>1. Space(new.mem, h, p, new.root) /\ KernelMapped(new.mem, new.root, RegionIds)
    BY <1>3, <1>5 DEF Built
  <2>2. Space(last.mem, f, p, new.root) /\ SameEntries(new.mem, last.mem, new.root)
    BY <1>3, <2>1, KeepsEachSpace
  <2>3. EntriesBut(new.mem, last.mem, new.root, {})
    BY <2>2, SameEntriesAt
  <2>4. KernelMapped(last.mem, new.root, RegionIds)
    BY <2>1, <2>3, KernelKept
  <2> QED BY <1>3, <2>2, <2>3, <2>4
<1>6. Built(m, g, last, f, p)
  BY <1>4, <1>5 DEF Built
<1>7. PageFresh(new, h, last)
  BY <1>3, <1>5 DEF PageFresh
<1> QED BY <1>3, <1>6, <1>7 DEF last

LEMMA RefillLemma ==
  ASSUME NEW ws, IsMem(ws), NEW t \in Heap, NEW f, DOMAIN f \subseteq Idx,
         NEW new, new = [ws EXCEPT ![t] = f]
  PROVE  IsMem(new) /\ \A page \in Heap : page # t => Same(ws, new, page)
<1>1. ws = [page \in Heap |-> ws[page]] /\ \A page \in Heap : DOMAIN ws[page] \subseteq Idx
  BY DEF IsMem
<1>2. new = [page \in Heap |-> IF page = t THEN f ELSE ws[page]]
  BY <1>1
<1>3. \A page \in Heap : new[page] = IF page = t THEN f ELSE ws[page]
  BY <1>2
<1>4. new = [page \in Heap |-> new[page]]
  BY <1>2
<1>5. \A page \in Heap : DOMAIN new[page] \subseteq Idx
  BY <1>1, <1>3
<1>6. \A page \in Heap : page # t => Same(ws, new, page)
  BY <1>3 DEF Same, read_pte
<1> QED BY <1>4, <1>5, <1>6 DEF IsMem

(* The words of a user page are written. *)
PageFilled(m, new, words) ==
  new.panic = "no" =>
    /\ new.root = m.root /\ EntriesBut(m.mem, new.mem, m.root, {})
    /\ \A page \in Heap : page # m.page => Same(m.mem, new.mem, page)
    /\ \A i \in Idx : read_pte(new.mem, m.page, i) = IF i \in DOMAIN words THEN words[i] ELSE INVALID

LEMMA FillPage ==
  ASSUME NEW m, NEW g, NEW new, NEW h, NEW p, Built(m, g, new, h, p),
         new.panic = "no" => new.page \in Heap /\ h[new.page] = UserTag(p),
         NEW words, DOMAIN words \subseteq Idx
  PROVE  LET last == unless_panicked(new, [new EXCEPT !.mem[new.page] = words]) IN
         /\ Built(m, g, last, h, p) /\ last.page = new.page /\ last.panic = new.panic
         /\ PageFilled(new, last, words)
<1> DEFINE last == unless_panicked(new, [new EXCEPT !.mem[new.page] = words])
<1>1. CASE new.panic # "no"
  BY <1>1 DEF unless_panicked, PageFilled
<1>2. CASE new.panic = "no"
  <2>1. last = [new EXCEPT !.mem[new.page] = words]
    BY <1>2 DEF unless_panicked
  <2>2. Base(new, h) /\ Space(new.mem, h, p, new.root) /\ KernelMapped(new.mem, new.root, RegionIds)
    BY <1>2 DEF Built, Building
  <2> HIDE DEF last
  <2>3. PICK b, w, y, r, c : /\ b = new.bitmap /\ w = new.mem /\ y = new.panic /\ r = new.root
                             /\ c = new.page /\ new = Machine(b, w, y, r, c)
    BY <2>2 DEF Base, IsMachine
  <2>4. PICK ww : ww = [w EXCEPT ![c] = words]
    OBVIOUS
  <2>5. last = [new EXCEPT !.mem = ww]
    BY <2>1, <2>3, <2>4
  <2>6. last = Machine(b, ww, y, r, c)
    BY <2>3, <2>5, MachineUpdates
  <2>7. /\ last.bitmap = b /\ last.mem = ww /\ last.panic = y /\ last.root = r /\ last.page = c
        /\ IsMachine(last)
    BY <2>6, MachineFields
  <2>8. c \in Heap /\ h[c] = UserTag(p) /\ IsMem(w)
    BY <1>2, <2>2, <2>3 DEF Base
  <2>9. IsMem(ww) /\ \A page \in Heap : page # c => Same(w, ww, page)
    BY <2>4, <2>8, RefillLemma
  <2>10. KeepsEach(w, h, ww, h)
    BY <2>8, <2>9, Tags DEF KeepsEach
  <2>11. Base(last, h)
    BY <2>2, <2>3, <2>7, <2>9 DEF Base
  <2>12. Space(ww, h, p, r) /\ SameEntries(w, ww, r)
    BY <2>2, <2>3, <2>10, KeepsEachSpace
  <2>13. KernelMapped(ww, r, RegionIds) /\ EntriesBut(w, ww, r, {})
    <3>1. EntriesBut(w, ww, r, {})
      BY <2>12, SameEntriesAt
    <3> QED BY <2>2, <2>3, <3>1, KernelKept
  <2>14. Building(m, g, last, h, p)
    <3>1. Building(new, h, last, h, p)
      BY <1>2, <2>3, <2>7, <2>10, <2>11, KeepsEachSpace DEF Building
    <3> QED BY <3>1, BuildingTrans DEF Built
  <2>15. Built(m, g, last, h, p)
    BY <2>7, <2>12, <2>13, <2>14 DEF Built
  <2>16. PageFilled(new, last, words)
    <3>1. \A i \in Idx : read_pte(ww, c, i) = IF i \in DOMAIN words THEN words[i] ELSE INVALID
      <4>1. ww[c] = words
        BY <2>4, <2>8 DEF IsMem
      <4> QED BY <4>1 DEF read_pte
    <3> QED BY <2>3, <2>7, <2>9, <2>13, <3>1 DEF PageFilled
  <2> QED BY <2>3, <2>7, <2>15, <2>16 DEF last
<1> QED BY <1>1, <1>2

(* What the file says of the address a, and of the page at va. *)
SegWord(image, seg, a) ==
  IF seg.vaddr <= a /\ a < seg.vaddr + seg.filesz
  THEN word_at(image, seg.offset + (a - seg.vaddr)) ELSE INVALID
SegWords(image, seg, va) == [i \in Idx |-> SegWord(image, seg, va + i)]

(* One page of a segment. *)
LEMMA LoadPage ==
  ASSUME NEW m, NEW g, NEW new, NEW h, NEW p, Built(m, g, new, h, p),
         NEW image, NEW seg, seg.vaddr \in Nat, seg.filesz \in Nat,
         NEW va \in Pages, is_user_va(va)
  PROVE  LET last == load_page(new, image, seg, va) IN
         \E f : Built(m, g, last, f, p) /\ PageAdded(new, last, va, SegWords(image, seg, va))
<1> DEFINE copy_start == Max2(seg.vaddr, va)
           copy_end == Min2(seg.vaddr + seg.filesz, va + PAGE_SIZE)
           words == [i \in copy_start - va .. copy_end - va - 1 |->
                       word_at(image, seg.offset + (va + i - seg.vaddr))]
           a == alloc_zeroed_page(new)
           b == unless_panicked(a, [a EXCEPT !.mem[a.page] = words])
           flags == IF seg.executable THEN USER_RX ELSE USER_RW
<1>1. load_page(new, image, seg, va) = map_new(b, va, flags)
  BY DEF load_page
<1>2. DOMAIN words \subseteq Idx
  <2>1. copy_start \in Int /\ copy_start >= va /\ copy_end \in Int /\ copy_end <= va + PAGE_SIZE
    <3>1. va \in Nat
      BY DEF Pages
    <3> QED BY <3>1, PageSize DEF Max2, Min2
  <2>2. DOMAIN words = copy_start - va .. copy_end - va - 1
    OBVIOUS
  <2>3. va \in Nat
    BY DEF Pages
  <2> HIDE DEF words, copy_start, copy_end
  <2> QED BY <2>1, <2>2, <2>3, PageSize DEF Idx
<1>0. ASSUME NEW i \in Idx
      PROVE  (IF i \in DOMAIN words THEN words[i] ELSE INVALID) = SegWord(image, seg, va + i)
  <2>1. va \in Nat /\ i \in Int /\ 0 <= i /\ i < PAGE_SIZE
    BY PageSize DEF Idx, Pages
  <2>2. i \in DOMAIN words <=> seg.vaddr <= va + i /\ va + i < seg.vaddr + seg.filesz
    <3>1. DOMAIN words = copy_start - va .. copy_end - va - 1
      OBVIOUS
    <3>2. /\ copy_start \in Int /\ copy_end \in Int
          /\ copy_start <= va + i <=> seg.vaddr <= va + i
          /\ va + i < copy_end <=> va + i < seg.vaddr + seg.filesz
      BY <2>1, PageSize DEF Max2, Min2
    <3> HIDE DEF words, copy_start, copy_end
    <3> QED BY <2>1, <3>1, <3>2
  <2>3. i \in DOMAIN words => words[i] = word_at(image, seg.offset + (va + i - seg.vaddr))
    OBVIOUS
  <2>4. (va + i) - seg.vaddr = va + i - seg.vaddr
    BY <2>1
  <2> HIDE DEF words
  <2> QED BY <2>2, <2>3, <2>4, Zenon DEF SegWord
<1> HIDE DEF words
<1>3. PICK f : /\ Built(m, g, a, f, p) /\ (a.panic = "no" => a.page \in Heap /\ f[a.page] = UserTag(p))
               /\ PageFresh(new, h, a)
  BY TakeWhileBuilding
<1> HIDE DEF a
<1>4. /\ Built(m, g, b, f, p) /\ b.page = a.page /\ b.panic = a.panic
      /\ PageFilled(a, b, words)
  BY <1>2, <1>3, FillPage
<1> HIDE DEF b
<1>5. flags \in {USER_RX, USER_RW}
  OBVIOUS
<1> HIDE DEF flags
<1> DEFINE last == map_new(b, va, flags)
<1>6. PICK x : Built(m, g, last, x, p) /\ PageAdded(b, last, va, PageWords(b.mem, b.page))
  BY <1>3, <1>4, <1>5, MapNew
<1> HIDE DEF last
<1>7. Adds(new, b, {})
  <2>1. SUFFICES ASSUME b.panic = "no"
                 PROVE  /\ new.panic = "no" /\ b.root = new.root
                        /\ ViewsKept(new.mem, b.mem, new.root, {})
    BY DEF Adds
  <2>2. /\ new.panic = "no" /\ a.root = new.root /\ h[a.page] = FreeTag
        /\ KeepsUsers(new.mem, h, a.mem) /\ EntriesBut(new.mem, a.mem, new.root, {})
    BY <1>3, <1>4, <2>1 DEF PageFresh
  <2>3. /\ b.root = a.root /\ EntriesBut(a.mem, b.mem, a.root, {})
        /\ \A page \in Heap : page # a.page => Same(a.mem, b.mem, page)
    BY <1>4, <2>1 DEF PageFilled
  <2>4. KeepsUsers(new.mem, h, b.mem)
    <3>1. ASSUME NEW page \in Heap, NEW q, h[page] = UserTag(q)
          PROVE  Same(new.mem, b.mem, page)
      <4>1. page # a.page
        BY <2>2, <3>1, Tags
      <4>2. Same(new.mem, a.mem, page) /\ Same(a.mem, b.mem, page)
        BY <2>2, <2>3, <3>1, <4>1 DEF KeepsUsers
      <4> QED BY <4>2 DEF Same
    <3> QED BY <3>1 DEF KeepsUsers
  <2>5. EntriesBut(new.mem, b.mem, new.root, {})
    BY <2>2, <2>3, EntriesButTrans
  <2>6. Space(new.mem, h, p, new.root)
    BY <2>2 DEF Built
  <2> QED BY <2>2, <2>3, <2>4, <2>5, <2>6, ViewsStay
<1>8. b.panic = "no" => PageWords(b.mem, b.page) = SegWords(image, seg, va)
  <2>1. SUFFICES ASSUME b.panic = "no", NEW i \in Idx
                 PROVE  read_pte(b.mem, b.page, i) = SegWord(image, seg, va + i)
    BY DEF PageWords, SegWords
  <2> QED BY <1>0, <1>4, <2>1 DEF PageFilled
<1>9. PageAdded(new, last, va, SegWords(image, seg, va))
  <2>1. Adds(new, last, {va})
    BY <1>6, <1>7, AddsTrans DEF PageAdded
  <2>2. last.panic = "no" => b.panic = "no"
    BY <1>6 DEF PageAdded, Adds
  <2> QED BY <1>6, <1>8, <2>1, <2>2 DEF PageAdded
<1> QED BY <1>1, <1>6, <1>9 DEF last

(* Page boundaries keep their order when a page is added. *)
LEMMA AlignedOrder ==
  ASSUME NEW a \in Nat, is_page_aligned(a), NEW b \in Nat, is_page_aligned(b),
         a < b + PAGE_SIZE
  PROVE  a <= b
<1>1. CASE b < a + PAGE_SIZE
  <2>1. a = b
    BY <1>1, SamePage
  <2> QED BY <2>1
<1>2. CASE ~(b < a + PAGE_SIZE)
  BY <1>2, PageSize
<1> QED BY <1>1, <1>2

(* The pages of a segment are at user addresses. *)
LEMMA SegmentPages ==
  ASSUME NEW seg \in Segment
  PROVE  LET n == pages_needed(seg.memsz, seg.vaddr)
             first == page_floor(seg.vaddr)
         IN /\ n \in Nat
            /\ \A k \in 1 .. n : /\ first + (k - 1) * PAGE_SIZE \in Pages
                                 /\ is_user_va(first + (k - 1) * PAGE_SIZE)
<1> DEFINE n == pages_needed(seg.memsz, seg.vaddr)
           first == page_floor(seg.vaddr)
           end == seg.vaddr + seg.memsz
           last == page_floor(end + PAGE_SIZE - 1)
<1>1. /\ seg.vaddr \in Nat /\ seg.memsz \in Nat /\ seg.vaddr >= USER_VA_START /\ end <= USER_VA_END
  BY DEF Segment
<1>2. /\ USER_VA_START \in Nat /\ USER_VA_END \in Nat /\ USER_VA_END + PAGE_SIZE <= USIZE
      /\ USER_VA_END <= VaLimit /\ is_page_aligned(USER_VA_START) /\ USIZE \in Nat
  BY KvmAssumption
<1>3. \A x \in Nat : x < USIZE => wrapping(x) = x
  BY <1>2, ModUnique DEF wrapping
<1>4. end \in Nat /\ end + PAGE_SIZE - 1 \in Nat /\ end < USIZE /\ end + PAGE_SIZE - 1 < USIZE
  BY <1>1, <1>2, PageSize
<1>5. n = (last - first) \div PAGE_SIZE
  BY <1>3, <1>4 DEF pages_needed
<1>6. /\ first \in Nat /\ first <= seg.vaddr /\ seg.vaddr < first + PAGE_SIZE
      /\ is_page_aligned(first)
  BY <1>1, FloorAligned
<1>7. /\ last \in Nat /\ last <= end + PAGE_SIZE - 1 /\ end + PAGE_SIZE - 1 < last + PAGE_SIZE
      /\ is_page_aligned(last)
  BY <1>4, FloorAligned
<1> HIDE DEF first, last
<1>8. first <= last
  <2>1. first < last + PAGE_SIZE
    BY <1>1, <1>4, <1>6, <1>7, PageSize
  <2> QED BY <1>6, <1>7, <2>1, AlignedOrder
<1>9. n \in Nat /\ first + n * PAGE_SIZE = last
  BY <1>5, <1>6, <1>7, <1>8, PageCount
<1>10. USER_VA_START <= first
  <2>1. USER_VA_START < first + PAGE_SIZE
    BY <1>1, <1>2, <1>6, PageSize
  <2> QED BY <1>2, <1>6, <2>1, AlignedOrder
<1> HIDE DEF n, end
<1>11. ASSUME NEW k \in 1 .. n
       PROVE  first + (k - 1) * PAGE_SIZE \in Pages /\ is_user_va(first + (k - 1) * PAGE_SIZE)
  <2>1. k - 1 \in Nat
    BY <1>9
  <2>2. PICK va : va = first + (k - 1) * PAGE_SIZE
    OBVIOUS
  <2>3. va \in Nat /\ is_page_aligned(va)
    BY <1>6, <2>1, <2>2, AlignedPlus
  <2>4. va >= first /\ va + PAGE_SIZE <= last
    <3>1. (k - 1) * PAGE_SIZE \in Nat
      BY <2>1, Multiples
    <3>2. (k - 1) * PAGE_SIZE + PAGE_SIZE <= n * PAGE_SIZE
      BY <1>9, PageSize, Z3
    <3>3. n * PAGE_SIZE \in Nat
      BY <1>9, Multiples
    <3> QED BY <1>6, <1>7, <1>9, <2>2, <3>1, <3>2, <3>3, PageSize
  <2>5. va >= USER_VA_START /\ va < USER_VA_END
    BY <1>1, <1>2, <1>4, <1>6, <1>7, <1>10, <2>3, <2>4, PageSize DEF end
  <2>6. va < VaLimit
    BY <1>2, <2>3, <2>5, VaLimitInt
  <2> QED BY <2>2, <2>3, <2>5, <2>6 DEF Pages, is_user_va
<1> QED BY <1>9, <1>11 DEF n, first

(* The first k pages of a segment, all of them, and what they show once they are loaded. *)
FirstPages(seg, k) == {page_floor(seg.vaddr) + (j - 1) * PAGE_SIZE : j \in 1 .. k}
SegPages(seg) == FirstPages(seg, pages_needed(seg.memsz, seg.vaddr))

PagesAdded(m, new, image, seg, S) ==
  /\ Adds(m, new, S)
  /\ new.panic = "no" =>
       \A va \in S : PageShown(new.mem, new.root, va, SegWords(image, seg, va))

LEMMA FirstPagesNext ==
  ASSUME NEW seg, seg.vaddr \in Nat, NEW k \in Nat
  PROVE  LET va == page_floor(seg.vaddr) + k * PAGE_SIZE IN
         FirstPages(seg, k + 1) = FirstPages(seg, k) \cup {va} /\ va \notin FirstPages(seg, k)
<1> DEFINE first == page_floor(seg.vaddr)
           va == first + k * PAGE_SIZE
<1>1. first \in Nat
  BY FloorAligned
<1>2. (k + 1) - 1 = k /\ k + 1 \in 1 .. k + 1
  OBVIOUS
<1>3. \A j : j \in 1 .. k + 1 <=> j \in 1 .. k \/ j = k + 1
  OBVIOUS
<1>4. ASSUME NEW j \in 1 .. k
      PROVE  va # first + (j - 1) * PAGE_SIZE
  <2>1. PICK a \in Int : a = (j - 1) * PAGE_SIZE
    BY PageSize, Z3
  <2>2. PICK b \in Int : b = k * PAGE_SIZE
    BY PageSize, Z3
  <2>3. a < b
    BY <2>1, <2>2, PageSize, Z3
  <2>4. first + a # first + b
    BY <1>1, <2>3
  <2> QED BY <2>1, <2>2, <2>4, Zenon
<1> HIDE DEF first
<1>5. FirstPages(seg, k + 1) = FirstPages(seg, k) \cup {va}
  BY <1>2, <1>3, Zenon DEF FirstPages, first
<1>6. va \notin FirstPages(seg, k)
  BY <1>4, Zenon DEF FirstPages, first
<1> QED BY <1>5, <1>6 DEF first

LEMMA MoreAdded ==
  ASSUME NEW m, NEW new, NEW last, NEW image, NEW seg, NEW S, S \subseteq Pages, NEW va, va \notin S,
         PagesAdded(m, new, image, seg, S), PageAdded(new, last, va, SegWords(image, seg, va))
  PROVE  PagesAdded(m, last, image, seg, S \cup {va})
<1>1. Adds(m, new, S) /\ Adds(new, last, {va})
  BY DEF PagesAdded, PageAdded
<1>2. Adds(m, last, S \cup {va})
  BY <1>1, AddsTrans
<1>3. ASSUME last.panic = "no", NEW vb \in S
      PROVE  PageShown(last.mem, last.root, vb, SegWords(image, seg, vb))
  <2>1. new.panic = "no" /\ last.root = new.root /\ ViewsKept(new.mem, last.mem, new.root, {va})
    BY <1>1, <1>3 DEF Adds
  <2>2. PageShown(new.mem, new.root, vb, SegWords(image, seg, vb))
    BY <1>3, <2>1 DEF PagesAdded
  <2> QED BY <1>3, <2>1, <2>2 DEF ViewsKept
<1>4. last.panic = "no" => PageShown(last.mem, last.root, va, SegWords(image, seg, va))
  BY DEF PageAdded
<1> QED BY <1>2, <1>3, <1>4 DEF PagesAdded

(* load_segment(): its pages one by one. *)
LEMMA LoadSegment ==
  ASSUME NEW m, NEW g, NEW new, NEW h, NEW p, Built(m, g, new, h, p), NEW image, NEW seg \in Segment
  PROVE  LET last == load_segment(new, image, seg) IN
         \E f : Built(m, g, last, f, p) /\ PagesAdded(new, last, image, seg, SegPages(seg))
<1> DEFINE n == pages_needed(seg.memsz, seg.vaddr)
           first == page_floor(seg.vaddr)
           w == CHOOSE f : f = [k \in 0 .. n |->
                  IF k = 0 THEN new
                  ELSE load_page(f[k - 1], image, seg, first + (k - 1) * PAGE_SIZE)]
           T == {k \in 0 .. n : \E f : /\ Built(m, g, w[k], f, p)
                                       /\ PagesAdded(new, w[k], image, seg, FirstPages(seg, k))}
           l == SegmentLoop(image, seg)
<1>1. /\ n \in Nat
      /\ \A k \in 1 .. n : /\ first + (k - 1) * PAGE_SIZE \in Pages
                           /\ is_user_va(first + (k - 1) * PAGE_SIZE)
  BY SegmentPages
<1>2. load_segment(new, image, seg) = w[n]
  BY DEF load_segment
<1>3. \A x, k : Turn(l, x, k) = load_page(x, image, seg, first + (k - 1) * PAGE_SIZE)
  BY DEF Turn, SegmentLoop
<1>4. seg.vaddr \in Nat /\ seg.filesz \in Nat
  BY DEF Segment
<1>0. SegPages(seg) = FirstPages(seg, n)
  BY DEF SegPages
<1> HIDE DEF l, n, first
<1>5. w = [k \in 0 .. n |-> IF k = 0 THEN new
                            ELSE load_page(w[k - 1], image, seg, first + (k - 1) * PAGE_SIZE)]
  <2>1. PICK f : Turns(l, new, n, f)
    BY <1>1, TurnsExist
  <2>2. f = [k \in 0 .. n |-> IF k = 0 THEN new
                              ELSE load_page(f[k - 1], image, seg, first + (k - 1) * PAGE_SIZE)]
    BY <1>3, <2>1 DEF Turns
  <2> QED BY <2>2
<1> HIDE DEF w
<1>6. 0 \in T
  <2>1. w[0] = new /\ 0 \in 0 .. n
    BY <1>1, <1>5
  <2>2. FirstPages(seg, 0) = {}
    BY DEF FirstPages
  <2>3. PagesAdded(new, new, image, seg, {})
    BY DEF PagesAdded, Adds, ViewsKept
  <2> QED BY <2>1, <2>2, <2>3
<1>7. ASSUME NEW k \in 0 .. n - 1, k \in T
      PROVE  k + 1 \in T
  <2>1. PICK f : Built(m, g, w[k], f, p) /\ PagesAdded(new, w[k], image, seg, FirstPages(seg, k))
    BY <1>7
  <2>2. k + 1 \in 1 .. n /\ k + 1 \in 0 .. n /\ k + 1 # 0 /\ (k + 1) - 1 = k
    BY <1>1
  <2>3. PICK va : va = first + ((k + 1) - 1) * PAGE_SIZE
    OBVIOUS
  <2>4. va \in Pages /\ is_user_va(va)
    BY <1>1, <2>2, <2>3
  <2>5. w[k + 1] = load_page(w[k], image, seg, va)
    BY <1>5, <2>2, <2>3
  <2>6. PICK x : Built(m, g, w[k + 1], x, p) /\ PageAdded(w[k], w[k + 1], va, SegWords(image, seg, va))
    BY <1>4, <2>1, <2>4, <2>5, LoadPage
  <2>7. FirstPages(seg, k + 1) = FirstPages(seg, k) \cup {va} /\ va \notin FirstPages(seg, k)
    <3>1. k \in Nat /\ va = page_floor(seg.vaddr) + k * PAGE_SIZE
      BY <1>1, <2>2, <2>3 DEF first
    <3> QED BY <1>4, <3>1, FirstPagesNext
  <2>8. FirstPages(seg, k) \subseteq Pages
    <3>1. ASSUME NEW j \in 1 .. k
          PROVE  first + (j - 1) * PAGE_SIZE \in Pages
      <4>1. j \in 1 .. n
        BY <1>1
      <4> QED BY <1>1, <4>1
    <3> QED BY <3>1, Zenon DEF FirstPages, first
  <2>9. PagesAdded(new, w[k + 1], image, seg, FirstPages(seg, k + 1))
    <3>1. PICK y, z, S, both : y = w[k] /\ z = w[k + 1] /\ S = FirstPages(seg, k)
                               /\ both = FirstPages(seg, k + 1)
      OBVIOUS
    <3>2. PagesAdded(new, y, image, seg, S) /\ PageAdded(y, z, va, SegWords(image, seg, va))
          /\ both = S \cup {va} /\ va \notin S /\ S \subseteq Pages
      BY <2>1, <2>6, <2>7, <2>8, <3>1
    <3>3. PagesAdded(new, z, image, seg, both)
      BY <3>2, MoreAdded
    <3> QED BY <3>1, <3>3
  <2> QED BY <2>2, <2>6, <2>9
<1> HIDE DEF T
<1>8. n \in T
  <2>1. 0 .. n \subseteq T
    BY <1>1, <1>6, <1>7, Upward
  <2> QED BY <1>1, <2>1
<1> QED BY <1>0, <1>2, <1>8 DEF T

(* Segments share no page with each other or with the stack. *)
Separate(image) ==
  \A k \in 1 .. Len(segments(image)) :
    /\ STACK_VA \notin SegPages(segments(image)[k])
    /\ \A j \in 1 .. k - 1 : SegPages(segments(image)[j]) \cap SegPages(segments(image)[k]) = {}

(* The first n segments are where their headers put them. *)
ImageShown(m, image, n) ==
  m.panic = "no" => \A k \in 1 .. n : \A va \in SegPages(segments(image)[k]) :
    PageShown(m.mem, m.root, va, SegWords(image, segments(image)[k], va))

LEMMA ImageStays ==
  ASSUME NEW m, NEW new, NEW image, NEW n \in Nat, NEW S, ImageShown(m, image, n), Adds(m, new, S),
         \A k \in 1 .. n : SegPages(segments(image)[k]) \subseteq Pages \ S
  PROVE  ImageShown(new, image, n)
<1> SUFFICES ASSUME new.panic = "no", NEW k \in 1 .. n, NEW va \in SegPages(segments(image)[k])
             PROVE  PageShown(new.mem, new.root, va, SegWords(image, segments(image)[k], va))
  BY DEF ImageShown
<1>1. m.panic = "no" /\ new.root = m.root /\ ViewsKept(m.mem, new.mem, m.root, S)
  BY DEF Adds
<1>2. PageShown(m.mem, m.root, va, SegWords(image, segments(image)[k], va))
  BY <1>1 DEF ImageShown
<1>3. va \in Pages \ S
  OBVIOUS
<1> QED BY <1>1, <1>2, <1>3 DEF ViewsKept

LEMMA SegPagesArePages ==
  ASSUME NEW seg \in Segment
  PROVE  SegPages(seg) \subseteq Pages
<1>1. \A k \in 1 .. pages_needed(seg.memsz, seg.vaddr) :
         page_floor(seg.vaddr) + (k - 1) * PAGE_SIZE \in Pages
  BY SegmentPages
<1> QED BY <1>1, Zenon DEF SegPages, FirstPages

(* load(): the address space SYS_SPAWN and launch() build from a file. *)
LEMMA LoadBuilds ==
  ASSUME NEW m, NEW g, NEW p, Base(m, g), NEW image \in Images \cup {BootImage}
  PROVE  LET last == load(m, image) IN
         \E f : /\ Built(m, g, last, f, p)
                /\ Separate(image) => ImageShown(last, image, Len(segments(image)))
<1> DEFINE segs == segments(image)
           n == Len(segs)
           w == CHOOSE f : f = [k \in 0 .. n |->
                  IF k = 0 THEN new_root(m) ELSE load_segment(f[k - 1], image, segs[k])]
           Shown(k) == Separate(image) => ImageShown(w[k], image, k)
           T == {k \in 0 .. n : (\E f : Built(m, g, w[k], f, p)) /\ Shown(k)}
           l == ImageLoop(image)
<1>1. n \in Nat /\ \A k \in 1 .. n : segs[k] \in Segment
  <2>1. segs \in Seq(Segment)
    BY MemoryAssumption
  <2> HIDE DEF segs
  <2> QED BY <2>1, LenProperties, ElementOfSeq
<1>2. load(m, image) = map_new(alloc_zeroed_page(w[n]), STACK_VA, USER_RW)
  BY DEF load
<1>3. \A x, k : Turn(l, x, k) = load_segment(x, image, segs[k])
  BY DEF Turn, ImageLoop
<1>4. \A k \in 1 .. n : SegPages(segs[k]) \subseteq Pages
  BY <1>1, SegPagesArePages
<1>5. Separate(image) => \A k \in 1 .. n : /\ STACK_VA \notin SegPages(segs[k])
                                           /\ \A j \in 1 .. k - 1 :
                                                SegPages(segs[j]) \cap SegPages(segs[k]) = {}
  BY DEF Separate
<1> HIDE DEF l, n
<1>6. w = [k \in 0 .. n |-> IF k = 0 THEN new_root(m)
                            ELSE load_segment(w[k - 1], image, segs[k])]
  <2>1. PICK f : Turns(l, new_root(m), n, f)
    BY <1>1, TurnsExist
  <2>2. f = [k \in 0 .. n |-> IF k = 0 THEN new_root(m)
                              ELSE load_segment(f[k - 1], image, segs[k])]
    BY <1>3, <2>1 DEF Turns
  <2> QED BY <2>2
<1> HIDE DEF w
<1>7. 0 \in T
  <2>1. w[0] = new_root(m) /\ 0 \in 0 .. n
    BY <1>1, <1>6
  <2>2. \E f : Built(m, g, new_root(m), f, p)
    BY NewRoot
  <2>3. Shown(0)
    BY DEF ImageShown
  <2> QED BY <2>1, <2>2, <2>3
<1>8. ASSUME NEW k \in 0 .. n - 1, k \in T
      PROVE  k + 1 \in T
  <2>1. PICK f : Built(m, g, w[k], f, p) /\ Shown(k)
    BY <1>8
  <2>2. k + 1 \in 1 .. n /\ k + 1 \in 0 .. n /\ k + 1 # 0 /\ (k + 1) - 1 = k
    BY <1>1
  <2>3. w[k + 1] = load_segment(w[k], image, segs[k + 1]) /\ segs[k + 1] \in Segment
    BY <1>1, <1>6, <2>2
  <2>4. PICK seg \in Segment : seg = segs[k + 1]
    BY <2>3
  <2>5. PICK x : Built(m, g, w[k + 1], x, p) /\ PagesAdded(w[k], w[k + 1], image, seg, SegPages(seg))
    BY <2>1, <2>3, <2>4, LoadSegment
  <2>6. Shown(k + 1)
    <3> SUFFICES ASSUME Separate(image)
                 PROVE  ImageShown(w[k + 1], image, k + 1)
      OBVIOUS
    <3>1. \A j \in 1 .. k : SegPages(segments(image)[j]) \subseteq Pages \ SegPages(seg)
      <4>1. \A j \in 1 .. k : j \in 1 .. n /\ j \in 1 .. (k + 1) - 1
        BY <1>1
      <4> QED BY <1>4, <1>5, <2>2, <2>4, <4>1
    <3>2. Adds(w[k], w[k + 1], SegPages(seg)) /\ ImageShown(w[k], image, k) /\ k \in Nat
      BY <1>1, <2>1, <2>5 DEF PagesAdded
    <3>3. ImageShown(w[k + 1], image, k)
      BY <3>1, <3>2, ImageStays
    <3>4. \A j \in 1 .. k + 1 : j \in 1 .. k \/ j = k + 1
      BY <3>2
    <3>5. w[k + 1].panic = "no" => \A va \in SegPages(seg) :
             PageShown(w[k + 1].mem, w[k + 1].root, va, SegWords(image, seg, va))
      BY <2>5 DEF PagesAdded
    <3> QED BY <2>4, <3>3, <3>4, <3>5 DEF ImageShown
  <2> QED BY <2>2, <2>5, <2>6
<1> HIDE DEF T
<1>9. n \in T
  <2>1. 0 .. n \subseteq T
    BY <1>1, <1>7, <1>8, Upward
  <2> QED BY <1>1, <2>1
<1>10. PICK f : Built(m, g, w[n], f, p) /\ Shown(n)
  BY <1>9 DEF T
<1> DEFINE a == alloc_zeroed_page(w[n])
<1>11. PICK e : /\ Built(m, g, a, e, p) /\ (a.panic = "no" => a.page \in Heap /\ e[a.page] = UserTag(p))
               /\ PageFresh(w[n], f, a)
  BY <1>10, TakeWhileBuilding
<1> HIDE DEF a
<1>12. STACK_VA \in Pages /\ is_user_va(STACK_VA)
  <2>1. /\ is_page_aligned(STACK_VA) /\ is_user_va(STACK_VA)
        /\ USER_VA_START \in Nat /\ USER_VA_END \in Nat /\ USER_VA_END <= VaLimit /\ STACK_VA \in Nat
    BY KvmAssumption
  <2>2. STACK_VA < VaLimit
    BY <2>1, VaLimitInt DEF is_user_va
  <2> QED BY <2>1, <2>2 DEF Pages
<1> DEFINE last == map_new(a, STACK_VA, USER_RW)
<1>13. PICK x : Built(m, g, last, x, p) /\ PageAdded(a, last, STACK_VA, PageWords(a.mem, a.page))
  BY <1>11, <1>12, MapNew
<1> HIDE DEF last
<1>14. Separate(image) => ImageShown(last, image, n)
  <2> SUFFICES ASSUME Separate(image)
               PROVE  ImageShown(last, image, n)
    OBVIOUS
  <2>1. Adds(w[n], a, {})
    <3>1. SUFFICES ASSUME a.panic = "no"
                   PROVE  /\ w[n].panic = "no" /\ a.root = w[n].root
                          /\ ViewsKept(w[n].mem, a.mem, w[n].root, {})
      BY DEF Adds
    <3>2. /\ w[n].panic = "no" /\ a.root = w[n].root /\ KeepsUsers(w[n].mem, f, a.mem)
          /\ EntriesBut(w[n].mem, a.mem, w[n].root, {})
      BY <1>11, <3>1 DEF PageFresh
    <3>3. Space(w[n].mem, f, p, w[n].root)
      BY <1>10, <3>2 DEF Built
    <3> QED BY <3>2, <3>3, ViewsStay
  <2>2. Adds(w[n], last, {STACK_VA})
    BY <1>13, <2>1, AddsTrans DEF PageAdded
  <2>3. \A k \in 1 .. n : SegPages(segments(image)[k]) \subseteq Pages \ {STACK_VA}
    BY <1>4, <1>5
  <2> QED BY <1>1, <1>10, <2>2, <2>3, ImageStays
<1> QED BY <1>2, <1>13, <1>14 DEF a, n, last

(* A page of the heap as the range map_range() is given. *)
LEMMA OnePage ==
  ASSUME NEW page \in Heap
  PROVE  LET last == page_floor(page + PAGE_SIZE + PAGE_SIZE - 1) IN
         /\ last = page + PAGE_SIZE /\ last <= VaLimit
         /\ RangePages(page, last) = {page} /\ page \in Pages
<1>1. /\ page \in Nat /\ is_page_aligned(page) /\ page + PAGE_SIZE <= page_addr(total_pages)
      /\ page_addr(total_pages) \in Nat
  BY HeapPages, PageAllocAssumption
<1>2. page_addr(total_pages) <= VaLimit
  BY KvmAssumption
<1>3. page + PAGE_SIZE \in Nat /\ is_page_aligned(page + PAGE_SIZE)
  <2>1. 1 * PAGE_SIZE = PAGE_SIZE
    BY PageSize
  <2> QED BY <1>1, <2>1, AlignedPlus
<1>4. page_floor(page + PAGE_SIZE + PAGE_SIZE - 1) = page + PAGE_SIZE
  <2>1. PICK n : n = page + PAGE_SIZE + PAGE_SIZE - 1
    OBVIOUS
  <2>2. n \in Nat
    BY <1>1, <2>1, PageSize
  <2>3. /\ page_floor(n) \in Nat /\ page_floor(n) <= n /\ n < page_floor(n) + PAGE_SIZE
        /\ is_page_aligned(page_floor(n))
    BY <2>2, FloorAligned
  <2>4. page_floor(n) < (page + PAGE_SIZE) + PAGE_SIZE /\ page + PAGE_SIZE < page_floor(n) + PAGE_SIZE
    BY <1>1, <2>1, <2>3, PageSize
  <2>5. page_floor(n) = page + PAGE_SIZE
    BY <1>3, <2>3, <2>4, SamePage
  <2> QED BY <2>1, <2>5
<1>5. page \in Pages
  BY <1>1, <1>2, VaLimitInt, PageSize DEF Pages
<1>6. RangePages(page, page + PAGE_SIZE) = {page}
  <2>1. ASSUME NEW va \in Pages, page <= va, va < page + PAGE_SIZE
        PROVE  va = page
    <3>1. va \in Nat /\ is_page_aligned(va) /\ page < va + PAGE_SIZE
      BY <1>1, <2>1, PageSize DEF Pages
    <3> QED BY <1>1, <2>1, <3>1, SamePage
  <2>2. page <= page /\ page < page + PAGE_SIZE
    BY <1>1, PageSize
  <2> QED BY <1>5, <2>1, <2>2 DEF RangePages
<1>7. page + PAGE_SIZE <= VaLimit
  BY <1>1, <1>2, VaLimitInt, PageSize
<1> QED BY <1>4, <1>5, <1>6, <1>7

(* A page of PID 1's is mapped to itself for user mode. *)
LEMMA MapToItself ==
  ASSUME NEW m, NEW g, NEW new, NEW h, NEW p, Built(m, g, new, h, p),
         NEW page \in Heap, new.panic = "no" => h[page] = UserTag(p),
         NEW flags \in {USER_RX, USER_RW}
  PROVE  LET last == map_range(new, page, page + PAGE_SIZE, flags) IN
         \E f : /\ Built(m, g, last, f, p) /\ (last.panic = "no" => new.panic = "no")
                /\ \A x \in Heap : h[x] # FreeTag => f[x] = h[x]
<1> DEFINE last == map_range(new, page, page + PAGE_SIZE, flags)
           end == page_floor(page + PAGE_SIZE + PAGE_SIZE - 1)
<1>1. /\ page \in Nat /\ is_page_aligned(page) /\ page + PAGE_SIZE \in Nat
      /\ page <= end /\ end <= VaLimit /\ RangePages(page, end) = {page} /\ page \in Pages
  <2>1. end = page + PAGE_SIZE /\ end <= VaLimit /\ RangePages(page, end) = {page} /\ page \in Pages
    BY OnePage
  <2>2. page \in Nat /\ is_page_aligned(page)
    BY HeapPages
  <2> HIDE DEF end
  <2> QED BY <2>1, <2>2, PageSize
<1>2. CASE new.panic # "no"
  <2>1. last = new
    BY <1>1, <1>2, PanickedRange
  <2> QED BY <1>2, <2>1
<1>3. CASE new.panic = "no"
  <2>1. Base(new, h) /\ Space(new.mem, h, p, new.root) /\ KernelMapped(new.mem, new.root, RegionIds)
    BY <1>3 DEF Built, Building
  <2>2. MayMap(h, p, page, flags)
    BY <1>1, <1>3, UserFlags DEF MayMap
  <2>3. \A va \in RangePages(page, end) : MayMap(h, p, va, flags)
    BY <1>1, <2>2
  <2>4. PICK x : x = end
    OBVIOUS
  <2>5. PICK f : RangeMapped(new, h, last, f, p, RangePages(page, x), flags)
    BY <1>1, <2>1, <2>3, <2>4, MapRange
  <2> HIDE DEF last, end
  <2>6. /\ Base(last, f) /\ last.root = new.root /\ Space(last.mem, f, p, new.root)
        /\ Keeps(new.mem, h, last.mem, f, p) /\ EntriesBut(new.mem, last.mem, new.root, {page})
    BY <1>1, <2>4, <2>5 DEF RangeMapped, Stepped
  <2>7. Building(m, g, last, f, p)
    <3>1. Building(new, h, last, f, p)
      BY <1>3, <2>6 DEF Building
    <3> QED BY <3>1, BuildingTrans DEF Built
  <2>8. ASSUME last.panic = "no"
        PROVE  KernelMapped(last.mem, new.root, RegionIds)
    <3>1. EntryAt(last.mem, new.root, page) = Pte(page, flags)
      BY <1>1, <2>4, <2>5, <2>8 DEF RangeMapped
    <3>2. \A k \in RegionIds : \A vb \in RegionPages(k) : vb \in {page} =>
            KernelEntry(EntryAt(last.mem, new.root, vb), vb, KernelRegions[k].flags)
      <4>1. /\ is_leaf(Pte(page, flags)) /\ phys_addr(Pte(page, flags)) = page
            /\ Pte(page, flags).flags = flags /\ "U" \in flags
        BY <2>2, MayMapEntry, UserFlags
      <4> QED BY <3>1, <4>1 DEF KernelEntry
    <3> QED BY <2>1, <2>6, <3>2, KernelKept
  <2>9. Built(m, g, last, f, p)
    BY <2>6, <2>7, <2>8 DEF Built
  <2>10. \A y \in Heap : h[y] # FreeTag => f[y] = h[y]
    BY <2>6 DEF Keeps
  <2> QED BY <1>3, <2>9, <2>10 DEF last
<1> QED BY <1>2, <1>3

(* create_process(): PID 1 assembled in. *)
LEMMA CreateBuilds ==
  ASSUME NEW m, NEW g, NEW p, Base(m, g)
  PROVE  \E f : Built(m, g, create_process(m), f, p)
<1> DEFINE a == alloc_zeroed_page(m)
           b == alloc_zeroed_page(a)
           c == new_root(b)
           d == map_range(c, a.page, a.page + PAGE_SIZE, USER_RX)
           e == map_range(d, b.page, b.page + PAGE_SIZE, USER_RW)
<1>1. create_process(m) = unless_panicked(a, unless_panicked(b, e))
  BY DEF create_process
<1>2. PICK ga : PageTaken(m, g, a, ga, UserTag(p))
  BY TakePage
<1> HIDE DEF a
<1>3. Base(a, ga) /\ Building(m, g, a, ga, p)
  BY <1>2, KeepsEachSpace DEF PageTaken, Building
<1>4. PICK gb : PageTaken(a, ga, b, gb, UserTag(p))
  BY <1>3, TakePage
<1> HIDE DEF b
<1>5. Base(b, gb) /\ Building(m, g, b, gb, p)
  <2>1. Base(b, gb) /\ Building(a, ga, b, gb, p)
    BY <1>4, KeepsEachSpace DEF PageTaken, Building
  <2> QED BY <1>3, <2>1, BuildingTrans
<1>6. CASE a.panic # "no"
  <2>1. create_process(m) = a
    BY <1>1, <1>6 DEF unless_panicked
  <2>2. Built(m, g, a, ga, p)
    BY <1>3, <1>6 DEF Built
  <2> QED BY <2>1, <2>2
<1>7. CASE b.panic # "no"
  <2>1. a.panic = "no" => create_process(m) = b
    BY <1>1, <1>7 DEF unless_panicked
  <2>2. Built(m, g, b, gb, p)
    BY <1>5, <1>7 DEF Built
  <2> QED BY <1>6, <2>1, <2>2
<1>8. CASE b.panic = "no"
  <2>1. /\ a.panic = "no" /\ a.page \in Heap /\ gb[a.page] = UserTag(p)
        /\ b.page \in Heap /\ gb[b.page] = UserTag(p)
    <3>1. a.panic = "no" /\ b.page \in Heap /\ gb[b.page] = UserTag(p) /\ KeepsEach(a.mem, ga, b.mem, gb)
      BY <1>4, <1>8 DEF PageTaken
    <3>2. a.page \in Heap /\ ga[a.page] = UserTag(p)
      BY <1>2, <3>1 DEF PageTaken
    <3>3. gb[a.page] = ga[a.page]
      BY <3>1, <3>2, Tags DEF KeepsEach
    <3> QED BY <3>1, <3>2, <3>3
  <2>2. create_process(m) = e
    BY <1>1, <1>8, <2>1 DEF unless_panicked
  <2>3. PICK gc : Built(b, gb, c, gc, p)
    BY <1>5, NewRoot
  <2> HIDE DEF c
  <2>4. gc[a.page] = UserTag(p) /\ gc[b.page] = UserTag(p)
    BY <2>1, <2>3, Tags DEF Built, Building, Keeps
  <2>5. PICK gd : /\ Built(b, gb, d, gd, p)
                  /\ \A x \in Heap : gc[x] # FreeTag => gd[x] = gc[x]
    BY <2>1, <2>3, <2>4, MapToItself
  <2> HIDE DEF d
  <2>6. gd[b.page] = UserTag(p)
    BY <2>1, <2>4, <2>5, Tags
  <2>7. PICK ge : Built(b, gb, e, ge, p)
    <3>1. Built(b, gb, d, gd, p) /\ b.page \in Heap /\ USER_RW \in {USER_RX, USER_RW}
      BY <2>1, <2>5
    <3>2. \E f : /\ Built(b, gb, e, f, p) /\ (e.panic = "no" => d.panic = "no")
                 /\ \A x \in Heap : gd[x] # FreeTag => f[x] = gd[x]
      BY <2>6, <3>1, MapToItself
    <3> QED BY <3>2
  <2> HIDE DEF e
  <2>8. Building(m, g, e, ge, p)
    BY <1>5, <2>7, BuildingTrans DEF Built
  <2>9. Built(m, g, e, ge, p)
    BY <2>7, <2>8 DEF Built
  <2> QED BY <2>2, <2>9 DEF e
<1> QED BY <1>7, <1>8

----------------------------------------------------------------------------
(***************************************************************************)
(* What the program reads off a page table, by the entries of the space.   *)
(***************************************************************************)
LEMMA WalkEntry ==
  ASSUME NEW ws, NEW r, NEW va
  PROVE  walk(ws, r, va) =
           IF is_leaf(EntryAt(ws, r, va))
           THEN [phys |-> phys_addr(EntryAt(ws, r, va)) + va_parts(va).offset,
                 flags |-> EntryAt(ws, r, va).flags]
           ELSE None
<1> DEFINE l2 == read_pte(ws, r, va_parts(va).vpn2)
           l1 == read_pte(ws, phys_addr(l2), va_parts(va).vpn1)
           l0 == read_pte(ws, phys_addr(l1), va_parts(va).vpn0)
           e == EntryAt(ws, r, va)
<1>1. e = IF is_branch(l2) /\ is_branch(l1) THEN l0 ELSE INVALID
  BY DEF EntryAt, Entry, Under
<1>2. walk(ws, r, va) = IF is_branch(l2) /\ is_branch(l1) /\ is_leaf(l0)
                        THEN [phys |-> phys_addr(l0) + va_parts(va).offset, flags |-> l0.flags]
                        ELSE None
  BY DEF walk
<1>3. ~is_leaf(INVALID)
  BY Entries
<1> HIDE DEF l2, l1, l0, e
<1> QED BY <1>1, <1>2, <1>3 DEF e

LEMMA WalkSame ==
  ASSUME NEW ws, NEW new, NEW r, NEW S, EntriesBut(ws, new, r, S), NEW va \in Pages \ S
  PROVE  walk(new, r, va) = walk(ws, r, va)
<1>1. EntryAt(new, r, va) = EntryAt(ws, r, va)
  BY DEF EntriesBut
<1> QED BY <1>1, WalkEntry

(* A translation for user mode is into a page of the process. *)
LEMMA WalkUser ==
  ASSUME NEW ws, NEW g, NEW p, NEW r, Space(ws, g, p, r), NEW va \in Nat,
         "U" \in walk(ws, r, va).flags
  PROVE  \E page \in Heap : g[page] = UserTag(p) /\ walk(ws, r, va).phys = page + (va % PAGE_SIZE)
<1> DEFINE e == EntryAt(ws, r, va)
<1>1. va_parts(va).vpn2 \in Idx /\ va_parts(va).vpn1 \in Idx /\ va_parts(va).vpn0 \in Idx
      /\ va_parts(va).offset = va % PAGE_SIZE
  BY Parts
<1>2. UserEntry(g, p, e)
  BY <1>1 DEF Space, EntryAt
<1> HIDE DEF e
<1>3. walk(ws, r, va) = IF is_leaf(e) THEN [phys |-> phys_addr(e) + (va % PAGE_SIZE), flags |-> e.flags]
                        ELSE None
  BY <1>1, WalkEntry DEF e
<1>4. is_leaf(e) /\ "U" \in e.flags
  BY <1>3 DEF None
<1> QED BY <1>2, <1>3, <1>4 DEF UserEntry

(***************************************************************************)
(* The pages the invariants speak of: the tables are those the tree finds, *)
(* and the user pages are those of its entries for user mode.              *)
(***************************************************************************)
LEMMA ReadWord ==
  ASSUME NEW ws, IsMem(ws), NEW t \in Heap
  PROVE  /\ DOMAIN ws[t] \subseteq Idx
         /\ \A i \in DOMAIN ws[t] : read_pte(ws, t, i) = ws[t][i]
         /\ \A i \in Idx : read_pte(ws, t, i) # INVALID => i \in DOMAIN ws[t]
  BY DEF IsMem, read_pte

LEMMA ChildrenOf ==
  ASSUME IsMem(mem), NEW t \in Heap, NEW x \in Children(t)
  PROVE  \E i \in Idx : is_branch(read_pte(mem, t, i)) /\ x = Under(mem, t, i)
<1>1. PICK i \in DOMAIN mem[t] : is_branch(mem[t][i]) /\ x = phys_addr(mem[t][i])
  BY DEF Children
<1>2. i \in Idx /\ read_pte(mem, t, i) = mem[t][i]
  BY ReadWord
<1> QED BY <1>1, <1>2 DEF Under

LEMMA TablesTagged ==
  ASSUME IsMem(mem), NEW g, NEW p, Space(mem, g, p, root[p])
  PROVE  /\ \A page \in Tables(p) : page \in Heap /\ TableOf(g[page], p)
         /\ \A page \in UserPages(p) : page \in Heap /\ g[page] = UserTag(p)
<1> DEFINE r == root[p]
<1>1. r \in Heap /\ TableOf(g[r], p)
  BY Tags DEF Space
<1>2. ASSUME NEW t \in Children(r)
      PROVE  \E i \in Idx : /\ is_branch(read_pte(mem, r, i)) /\ t = Under(mem, r, i)
                            /\ t \in Heap /\ g[t] = MidTag(p, i)
  <2>1. PICK i \in Idx : is_branch(read_pte(mem, r, i)) /\ t = Under(mem, r, i)
    BY <1>1, ChildrenOf
  <2>2. is_valid(read_pte(mem, r, i))
    BY <2>1, Entries
  <2> QED BY <2>1, <2>2 DEF Space
<1>3. ASSUME NEW t \in Children(r), NEW s \in Children(t)
      PROVE  \E i, j \in Idx : /\ is_branch(read_pte(mem, r, i)) /\ t = Under(mem, r, i)
                               /\ is_branch(read_pte(mem, t, j)) /\ s = Under(mem, t, j)
                               /\ s \in Heap /\ g[s] = LowTag(p, i, j)
  <2>1. PICK i \in Idx : /\ is_branch(read_pte(mem, r, i)) /\ t = Under(mem, r, i)
                         /\ t \in Heap /\ g[t] = MidTag(p, i)
    BY <1>2
  <2>2. PICK j \in Idx : is_branch(read_pte(mem, t, j)) /\ s = Under(mem, t, j)
    BY <2>1, ChildrenOf
  <2>3. is_valid(read_pte(mem, t, j))
    BY <2>2, Entries
  <2>4. s \in Heap /\ g[s] = LowTag(p, i, j)
    BY <2>1, <2>2, <2>3 DEF Space
  <2> QED BY <2>1, <2>2, <2>4
<1>4. ASSUME NEW page \in Tables(p)
      PROVE  page \in Heap /\ TableOf(g[page], p)
  <2>1. CASE page = r
    BY <1>1, <2>1
  <2>2. CASE page \in Children(r)
    BY <1>2, <2>2, Tags
  <2>3. CASE \E t \in Children(r) : page \in Children(t)
    BY <1>3, <2>3, Tags
  <2> QED BY <2>1, <2>2, <2>3 DEF Tables
<1>5. ASSUME NEW page \in UserPages(p)
      PROVE  page \in Heap /\ g[page] = UserTag(p)
  <2>0. PICK t \in Children(r) : \E s \in Children(t) : \E k \in DOMAIN mem[s] :
               "U" \in mem[s][k].flags /\ page = phys_addr(mem[s][k])
    BY DEF UserPages, Children
  <2>1. PICK s \in Children(t) : \E k \in DOMAIN mem[s] :
               "U" \in mem[s][k].flags /\ page = phys_addr(mem[s][k])
    BY <2>0
  <2>2. PICK k \in DOMAIN mem[s] : "U" \in mem[s][k].flags /\ page = phys_addr(mem[s][k])
    BY <2>1
  <2>3. PICK i \in Idx, j \in Idx : /\ is_branch(read_pte(mem, r, i)) /\ t = Under(mem, r, i)
                                    /\ is_branch(read_pte(mem, t, j)) /\ s = Under(mem, t, j)
                                    /\ s \in Heap
    BY <1>3
  <2>4. k \in Idx /\ read_pte(mem, s, k) = mem[s][k]
    BY <2>3, ReadWord
  <2>5. Entry(mem, r, i, j, k) = mem[s][k]
    BY <2>3, <2>4 DEF Entry
  <2>6. UserEntry(g, p, mem[s][k])
    BY <2>3, <2>4, <2>5 DEF Space
  <2> QED BY <2>2, <2>6 DEF UserEntry
<1> QED BY <1>4, <1>5

(* Every entry for user mode is of a page in UserPages. *)
LEMMA EntryInUserPages ==
  ASSUME IsMem(mem), NEW g, NEW p, Space(mem, g, p, root[p]),
         NEW i \in Idx, NEW j \in Idx, NEW k \in Idx,
         "U" \in Entry(mem, root[p], i, j, k).flags
  PROVE  phys_addr(Entry(mem, root[p], i, j, k)) \in UserPages(p)
<1> DEFINE r == root[p]
           t == Under(mem, r, i)
           s == Under(mem, t, j)
<1>1. /\ is_branch(read_pte(mem, r, i)) /\ is_branch(read_pte(mem, t, j))
      /\ Entry(mem, r, i, j, k) = read_pte(mem, s, k)
  BY Entries DEF Entry
<1>2. is_valid(read_pte(mem, r, i)) /\ is_valid(read_pte(mem, t, j))
  BY <1>1, Entries
<1>3. r \in Heap /\ t \in Heap /\ s \in Heap
  BY <1>1, <1>2 DEF Space
<1>4. i \in DOMAIN mem[r] /\ mem[r][i] = read_pte(mem, r, i)
  BY <1>1, <1>3, Entries, ReadWord
<1>5. j \in DOMAIN mem[t] /\ mem[t][j] = read_pte(mem, t, j)
  BY <1>1, <1>3, Entries, ReadWord
<1>6. k \in DOMAIN mem[s] /\ mem[s][k] = read_pte(mem, s, k)
  <2>1. read_pte(mem, s, k) # INVALID
    BY <1>1, Entries
  <2> QED BY <1>3, <2>1, ReadWord
<1>7. t = phys_addr(mem[r][i]) /\ s = phys_addr(mem[t][j])
  BY <1>4, <1>5 DEF Under
<1> HIDE DEF t, s
<1>8. PICK l1s : l1s = {phys_addr(mem[r][n]) : n \in {n \in DOMAIN mem[r] : is_branch(mem[r][n])}}
  OBVIOUS
<1>9. t \in l1s
  BY <1>1, <1>4, <1>7, <1>8
<1>10. PICK l0s : l0s = UNION {{phys_addr(mem[x][n]) : n \in {n \in DOMAIN mem[x] : is_branch(mem[x][n])}} :
                                 x \in l1s}
  OBVIOUS
<1>11. s \in l0s
  <2>1. s \in {phys_addr(mem[t][n]) : n \in {n \in DOMAIN mem[t] : is_branch(mem[t][n])}}
    BY <1>1, <1>5, <1>7
  <2> QED BY <1>9, <1>10, <2>1
<1>12. UserPages(p) = UNION {{phys_addr(mem[x][n]) : n \in {n \in DOMAIN mem[x] : "U" \in mem[x][n].flags}} :
                               x \in l0s}
  BY <1>8, <1>10 DEF UserPages
<1> QED BY <1>1, <1>6, <1>11, <1>12

(***************************************************************************)
(* Copies to a process: the chunks walk_user_range() finds lie within its  *)
(* own pages, so no table changes.                                         *)
(***************************************************************************)
Chunks(g, p) ==
  {c \in [pa : Nat, len : Nat] :
     \E page \in Heap : g[page] = UserTag(p) /\ page <= c.pa /\ c.pa + c.len <= page + PAGE_SIZE}

IsFound(g, p, s) ==
  /\ DOMAIN s = {"done", "chunks", "ok"}
  /\ s.done \in Nat /\ s.chunks \in Seq(Chunks(g, p))

LEMMA CopyTurnFinds ==
  ASSUME NEW ws, NEW g, NEW p, NEW r, Space(ws, g, p, r), NEW user_va \in Nat, NEW total \in Nat,
         NEW need_write, NEW s, IsFound(g, p, s), s.done < total
  PROVE  IsFound(g, p, CopyTurn(ws, r, user_va, total, need_write, s))
<1> DEFINE va == wrapping(user_va + s.done)
           len == IF bytes_to_page_end(va) <= total - s.done
                  THEN bytes_to_page_end(va) ELSE total - s.done
           result == walk(ws, r, va)
           good == /\ va < USER_VA_END
                   /\ "U" \in result.flags
                   /\ need_write => "W" \in result.flags
                   /\ is_user_heap_pa(page_floor(result.phys))
           chunk == [pa |-> result.phys, len |-> len]
           new == CopyTurn(ws, r, user_va, total, need_write, s)
<1>1. /\ DOMAIN s = {"done", "chunks", "ok"} /\ s.done \in Nat /\ s.done < total
      /\ s.chunks \in Seq(Chunks(g, p))
  BY DEF IsFound
<1>2. new = IF good THEN [s EXCEPT !.done = @ + len, !.chunks = Append(@, chunk)]
            ELSE [s EXCEPT !.ok = FALSE]
  BY DEF CopyTurn
<1>3. va \in Nat
  <2>1. USIZE \in Int /\ USIZE > 0
    BY KvmAssumption, PageSize
  <2>2. PICK n \in Nat : n = user_va + s.done
    BY <1>1
  <2>3. n % USIZE \in Nat
    BY <2>1, ModRange
  <2> QED BY <2>2, <2>3 DEF wrapping
<1>4. /\ va % PAGE_SIZE \in Nat /\ va % PAGE_SIZE < PAGE_SIZE
      /\ bytes_to_page_end(va) = PAGE_SIZE - (va % PAGE_SIZE)
  <2>1. va % PAGE_SIZE \in Nat /\ va % PAGE_SIZE < PAGE_SIZE
    BY <1>3, ModRange, PageSize
  <2> QED BY <2>1 DEF bytes_to_page_end
<1>5. len \in Nat /\ len <= PAGE_SIZE - (va % PAGE_SIZE)
  <2>1. PICK o \in Nat : o = va % PAGE_SIZE /\ o < PAGE_SIZE /\ bytes_to_page_end(va) = PAGE_SIZE - o
    BY <1>4
  <2> HIDE DEF va
  <2> QED BY <1>1, <2>1, PageSize
<1> HIDE DEF len, va, new
<1>6. CASE good
  <2>1. PICK page \in Heap : g[page] = UserTag(p) /\ result.phys = page + (va % PAGE_SIZE)
    BY <1>3, <1>6, WalkUser
  <2>2. page \in Nat
    BY HeapPages
  <2> HIDE DEF result
  <2>3. chunk \in Chunks(g, p)
    <3>1. PICK o \in Nat : o = va % PAGE_SIZE /\ len <= PAGE_SIZE - o /\ result.phys = page + o
      BY <1>4, <1>5, <2>1
    <3>2. result.phys \in Nat /\ page <= result.phys /\ result.phys + len <= page + PAGE_SIZE
      BY <1>5, <2>2, <3>1, PageSize
    <3> QED BY <1>5, <2>1, <3>2 DEF Chunks
  <2> HIDE DEF chunk
  <2>4. new = [s EXCEPT !.done = @ + len, !.chunks = Append(@, chunk)]
    BY <1>2, <1>6
  <2>5. /\ DOMAIN new = {"done", "chunks", "ok"}
        /\ new.done = s.done + len /\ new.chunks = Append(s.chunks, chunk)
    BY <1>1, <2>4
  <2>6. Append(s.chunks, chunk) \in Seq(Chunks(g, p)) /\ s.done + len \in Nat
    BY <1>1, <1>5, <2>3, AppendProperties
  <2> QED BY <2>5, <2>6 DEF IsFound, new
<1>7. CASE ~good
  <2>1. new = [s EXCEPT !.ok = FALSE]
    BY <1>2, <1>7
  <2>2. /\ DOMAIN new = {"done", "chunks", "ok"}
        /\ new.done = s.done /\ new.chunks = s.chunks
    BY <1>1, <2>1
  <2> QED BY <1>1, <2>2 DEF IsFound, new
<1> QED BY <1>6, <1>7

LEMMA RangeFinds ==
  ASSUME NEW ws, NEW g, NEW p, NEW r, Space(ws, g, p, r), NEW user_va \in Nat, NEW total \in Nat,
         NEW need_write
  PROVE  walk_user_range(ws, r, user_va, total, need_write).chunks \in Seq(Chunks(g, p))
<1> DEFINE N == MAX_COPY_CHUNKS
           turn(x) == CopyTurn(ws, r, user_va, total, need_write, x)
           zero == [done |-> 0, chunks |-> <<>>, ok |-> TRUE]
           w == CHOOSE f : f = [n \in 0 .. N |->
                  IF n = 0 THEN zero
                  ELSE IF f[n - 1].ok /\ f[n - 1].done < total THEN turn(f[n - 1])
                  ELSE f[n - 1]]
           T == {n \in 0 .. N : IsFound(g, p, w[n])}
           l == CopyLoop(ws, r, user_va, total, need_write)
<1>1. N \in Nat
  BY KvmAssumption
<1>2. walk_user_range(ws, r, user_va, total, need_write).chunks = w[N].chunks
  BY DEF walk_user_range, CopyTurn
<1>3. \A x, k : Turn(l, x, k) = IF x.ok /\ x.done < total THEN turn(x) ELSE x
  BY DEF Turn, CopyLoop
<1>4. IsFound(g, p, zero)
  BY DEF IsFound
<1>5. \A x : IsFound(g, p, x) /\ x.done < total => IsFound(g, p, turn(x))
  BY CopyTurnFinds
<1> HIDE DEF l, N, turn, zero
<1>6. w = [n \in 0 .. N |-> IF n = 0 THEN zero
                            ELSE IF w[n - 1].ok /\ w[n - 1].done < total THEN turn(w[n - 1])
                            ELSE w[n - 1]]
  <2>1. PICK f : Turns(l, zero, N, f)
    BY <1>1, TurnsExist
  <2>2. f = [n \in 0 .. N |-> IF n = 0 THEN zero
                              ELSE IF f[n - 1].ok /\ f[n - 1].done < total THEN turn(f[n - 1])
                              ELSE f[n - 1]]
    BY <1>3, <2>1 DEF Turns
  <2> QED BY <2>2
<1> HIDE DEF w
<1>7. 0 \in T
  <2>1. w[0] = zero /\ 0 \in 0 .. N
    BY <1>1, <1>6
  <2> QED BY <1>4, <2>1
<1>8. ASSUME NEW k \in 0 .. N - 1, k \in T
      PROVE  k + 1 \in T
  <2>1. k + 1 \in 0 .. N /\ k + 1 # 0 /\ (k + 1) - 1 = k
    BY <1>1
  <2>2. w[k + 1] = IF w[k].ok /\ w[k].done < total THEN turn(w[k]) ELSE w[k]
    BY <1>6, <2>1
  <2>3. IsFound(g, p, w[k])
    BY <1>8
  <2> QED BY <1>5, <2>1, <2>2, <2>3
<1> HIDE DEF T
<1>9. N \in T
  <2>1. 0 .. N \subseteq T
    BY <1>1, <1>7, <1>8, Upward
  <2> QED BY <1>1, <2>1
<1> QED BY <1>2, <1>9 DEF T, IsFound

(* copy_to_user() writes to pages of the process only. *)
LEMMA CopyKeeps ==
  ASSUME NEW ws, NEW g, NEW p, IsMem(ws), NEW chunks \in Seq(Chunks(g, p)), NEW d
  PROVE  LET new == copy_to_user(ws, chunks, d) IN IsMem(new) /\ KeepsEach(ws, g, new, g)
<1> DEFINE new == copy_to_user(ws, chunks, d)
           Hit(page) == {i \in 0 .. PAGE_SIZE - 1 : \E k \in DOMAIN chunks :
                           page + i \in chunks[k].pa .. chunks[k].pa + chunks[k].len - 1}
<1>1. /\ ws = [page \in Heap |-> ws[page]] /\ DOMAIN ws = Heap
      /\ \A page \in Heap : DOMAIN ws[page] \subseteq Idx
  BY DEF IsMem
<1>2. new = [page \in Heap |->
               [i \in DOMAIN ws[page] \cup Hit(page) |->
                  IF i \in Hit(page) THEN data(d) ELSE ws[page][i]]]
  BY <1>1 DEF copy_to_user
<1>3. \A page \in Heap : Hit(page) \subseteq Idx
  BY DEF Idx
<1>4. ASSUME NEW page \in Heap, Hit(page) # {}
      PROVE  g[page] = UserTag(p)
  <2>1. PICK i \in 0 .. PAGE_SIZE - 1, k \in DOMAIN chunks :
               page + i \in chunks[k].pa .. chunks[k].pa + chunks[k].len - 1
    BY <1>4
  <2>2. chunks[k] \in Chunks(g, p)
    BY LenProperties, ElementOfSeq
  <2>3. PICK pa \in Nat, len \in Nat : pa = chunks[k].pa /\ len = chunks[k].len
    BY <2>2 DEF Chunks
  <2>4. PICK x \in Heap : g[x] = UserTag(p) /\ x <= pa /\ pa + len <= x + PAGE_SIZE
    BY <2>2, <2>3 DEF Chunks
  <2>5. page \in Nat /\ is_page_aligned(page) /\ x \in Nat /\ is_page_aligned(x)
    BY HeapPages
  <2>6. page + i >= pa /\ page + i < pa + len
    BY <2>1, <2>3, <2>5, PageSize
  <2> HIDE DEF Hit
  <2>7. x < page + PAGE_SIZE /\ page < x + PAGE_SIZE
    BY <2>3, <2>4, <2>5, <2>6, PageSize
  <2>8. page = x
    BY <2>5, <2>7, SamePage
  <2> QED BY <2>4, <2>8
<1> HIDE DEF Hit, new
<1>5. ASSUME NEW page \in Heap
      PROVE  /\ DOMAIN new[page] = DOMAIN ws[page] \cup Hit(page)
             /\ \A i \in DOMAIN new[page] :
                  new[page][i] = IF i \in Hit(page) THEN data(d) ELSE ws[page][i]
  BY <1>2
<1>6. IsMem(new)
  <2>1. new = [page \in Heap |-> new[page]]
    BY <1>2
  <2>2. \A page \in Heap : DOMAIN new[page] \subseteq Idx
    BY <1>1, <1>3, <1>5
  <2> QED BY <2>1, <2>2 DEF IsMem
<1>7. ASSUME NEW page \in Heap, g[page] # UserTag(p)
      PROVE  Same(ws, new, page)
  <2>1. Hit(page) = {}
    BY <1>4, <1>7
  <2>2. DOMAIN new[page] = DOMAIN ws[page] /\ \A i \in DOMAIN ws[page] : new[page][i] = ws[page][i]
    BY <1>5, <2>1
  <2> QED BY <2>2 DEF Same, read_pte
<1>8. KeepsEach(ws, g, new, g)
  BY <1>7, Tags DEF KeepsEach
<1> QED BY <1>6, <1>8 DEF new

(* unmap_page() empties one entry. *)
LEMMA UnmapEntry ==
  ASSUME NEW ws, NEW g, NEW p, IsMem(ws), NEW r, Space(ws, g, p, r),
         NEW va \in Pages, walk(ws, r, va) # None
  PROVE  LET new == unmap_page(ws, r, va) IN
         /\ IsMem(new) /\ Space(new, g, p, r) /\ EntriesBut(ws, new, r, {va})
         /\ Keeps(ws, g, new, g, p)
<1> DEFINE i == va_parts(va).vpn2
           j == va_parts(va).vpn1
           k == va_parts(va).vpn0
           t == Under(ws, Under(ws, r, i), j)
           new == unmap_page(ws, r, va)
<1>1. i \in Idx /\ j \in Idx /\ k \in Idx
  <2>1. va \in Nat
    BY DEF Pages
  <2> QED BY <2>1, Parts
<1>2. new = write_pte(ws, t, k, INVALID)
  BY DEF unmap_page, Under
<1>3. is_branch(read_pte(ws, r, i)) /\ is_branch(read_pte(ws, Under(ws, r, i), j))
  BY DEF walk, Under
<1>4. \A vb \in Pages : va_parts(vb).vpn2 = i /\ va_parts(vb).vpn1 = j /\ va_parts(vb).vpn0 = k => vb = va
  <2>1. \A vb \in Pages : vb \in Nat /\ is_page_aligned(vb) /\ vb < VaLimit
    BY DEF Pages
  <2> QED BY <2>1, PartsDiffer
<1> HIDE DEF i, j, k
<1>5. t \in Heap /\ g[t] = LowTag(p, i, j)
  BY <1>1, <1>3, Entries DEF Space
<1> HIDE DEF t, new
<1>6. IsMem(new) /\ Written(ws, new, t, k, INVALID)
  BY <1>1, <1>2, <1>5, WriteLemma DEF Written
<1>7. UserEntry(g, p, INVALID)
  BY Entries DEF UserEntry
<1>8. Space(new, g, p, r) /\ EntrySet(ws, new, r, i, j, k, INVALID)
  BY <1>1, <1>3, <1>6, <1>7, WriteEntry DEF t
<1>9. EntriesBut(ws, new, r, {va})
  <2>1. ASSUME NEW vb \in Pages \ {va}
        PROVE  EntryAt(new, r, vb) = EntryAt(ws, r, vb)
    <3>1. /\ va_parts(vb).vpn2 \in Idx /\ va_parts(vb).vpn1 \in Idx /\ va_parts(vb).vpn0 \in Idx
      <4>1. vb \in Nat
        BY DEF Pages
      <4> QED BY <4>1, Parts
    <3>2. ~(va_parts(vb).vpn2 = i /\ va_parts(vb).vpn1 = j /\ va_parts(vb).vpn0 = k)
      BY <1>4, <2>1
    <3> QED BY <1>8, <3>1, <3>2 DEF EntrySet, EntryAt
  <2> QED BY <2>1 DEF EntriesBut
<1>10. Keeps(ws, g, new, g, p)
  <2>1. ASSUME NEW page \in Heap, page # t
        PROVE  Same(ws, new, page)
    BY <1>6, <2>1 DEF Written, Same
  <2>2. \A q : TableOf(g[t], q) => q = p
    BY <1>5, Tags
  <2> QED BY <2>1, <2>2 DEF Keeps
<1> QED BY <1>6, <1>8, <1>9, <1>10 DEF new

----------------------------------------------------------------------------
(***************************************************************************)
(* The inductive invariant: the pages of the heap can be tagged so that    *)
(* every space is a tree of tables of its own with the kernel mapped in    *)
(* it, and what a process maps or holds is tagged as its own.              *)
(***************************************************************************)
Assigned(g) ==
  /\ IsMem(mem) /\ Tagged(bitmap, g) /\ Panic(bitmap, panic)
  /\ \A p \in Spaces : Space(mem, g, p, root[p]) /\ KernelMapped(mem, root[p], RegionIds)
  /\ \A p \in PIDs : \A page \in held[p] : page \in Heap /\ g[page] = UserTag(p)

Slots ==
  /\ live \subseteq PIDs /\ current \in Spaces
  /\ DOMAIN root = 0 .. MAX_PROCS - 1 /\ DOMAIN held = PIDs

IInv == Slots /\ DOMAIN tlb \subseteq TlbVas /\ TlbCoherent /\ \E g : Assigned(g)

LEMMA MemoryMachine ==
  ASSUME NEW g, Assigned(g)
  PROVE  /\ Base(memory, g) /\ memory.mem = mem /\ memory.bitmap = bitmap /\ memory.panic = panic
         /\ memory.root = root[current]
<1>1. memory = Machine(bitmap, mem, panic, root[current], root[current])
  BY DEF memory, Machine
<1>2. /\ memory.mem = mem /\ memory.bitmap = bitmap /\ memory.panic = panic
      /\ memory.root = root[current] /\ IsMachine(memory)
  BY <1>1, MachineFields
<1> HIDE DEF memory
<1> QED BY <1>2 DEF Base, Assigned

(* Handlers that add no address space: they change entries in S at most. *)
SpacesMoved(h, S) ==
  \A p \in Spaces : Space(mem', h, p, root[p]) /\ EntriesBut(mem, mem', root[p], S)

HeldTagged(hs, h) ==
  DOMAIN hs = PIDs /\ \A p \in PIDs : \A page \in hs[p] : page \in Heap /\ h[page] = UserTag(p)

LEMMA Preserved ==
  ASSUME IInv, NEW g, Assigned(g), NEW h, NEW S, SpacesMoved(h, S),
         \A k \in RegionIds : \A va \in RegionPages(k) : va \notin S,
         IsMem(mem'), Tagged(bitmap', h), Panic(bitmap', panic'),
         UNCHANGED <<root, live, current>>,
         DOMAIN tlb' \subseteq DOMAIN tlb \ S, \A v \in DOMAIN tlb' : tlb'[v] = tlb[v],
         HeldTagged(held', h)
  PROVE  IInv'
<1>1. Spaces' = Spaces /\ root' = root /\ current' = current /\ current \in Spaces
  BY DEF Spaces, IInv, Slots
<1>2. ASSUME NEW p \in Spaces
      PROVE  Space(mem', h, p, root[p]) /\ KernelMapped(mem', root[p], RegionIds)
  <2>1. EntriesBut(mem, mem', root[p], S) /\ Space(mem', h, p, root[p])
    BY DEF SpacesMoved
  <2>2. KernelMapped(mem, root[p], RegionIds)
    BY DEF Assigned
  <2>3. KernelMapped(mem', root[p], RegionIds)
    BY <2>1, <2>2, KernelKept
  <2> QED BY <2>1, <2>3
<1>3. Assigned(h)'
  BY <1>1, <1>2 DEF Assigned, HeldTagged
<1>4. DOMAIN tlb' \subseteq TlbVas
  BY DEF IInv
<1>5. ASSUME NEW v \in DOMAIN tlb'
      PROVE  tlb'[v] = walk(mem', root[current], v)
  <2>1. v \in Pages \ S
    BY <1>4, MemoryAssumption DEF Pages
  <2>2. EntriesBut(mem, mem', root[current], S)
    BY <1>1 DEF SpacesMoved
  <2>3. walk(mem', root[current], v) = walk(mem, root[current], v)
    BY <2>1, <2>2, WalkSame
  <2>4. tlb[v] = walk(mem, root[current], v)
    BY DEF IInv, TlbCoherent
  <2> QED BY <2>3, <2>4
<1>6. TlbCoherent'
  BY <1>1, <1>5 DEF TlbCoherent
<1>7. Slots'
  BY <1>1 DEF IInv, Slots, HeldTagged
<1> QED BY <1>3, <1>4, <1>6, <1>7 DEF IInv

LEMMA PreservedAll ==
  ASSUME IInv, NEW g, Assigned(g), NEW h, SpacesMoved(h, {}),
         IsMem(mem'), Tagged(bitmap', h), Panic(bitmap', panic'),
         UNCHANGED <<root, live, current, tlb>>, HeldTagged(held', h)
  PROVE  IInv'
<1>1. PICK S : S = {}
  OBVIOUS
<1>2. \A k \in RegionIds : \A va \in RegionPages(k) : va \notin S
  BY <1>1
<1>3. DOMAIN tlb' \subseteq DOMAIN tlb \ S /\ \A v \in DOMAIN tlb' : tlb'[v] = tlb[v]
  BY <1>1
<1>4. SpacesMoved(h, S) /\ UNCHANGED <<root, live, current>>
  BY <1>1
<1> QED BY <1>2, <1>3, <1>4, Preserved

LEMMA KeepsHeld ==
  ASSUME NEW g, Assigned(g), Slots, NEW h, NEW p, Keeps(mem, g, mem', h, p)
  PROVE  HeldTagged(held, h)
  BY Tags DEF Assigned, Keeps, HeldTagged, Slots

LEMMA EachMoved ==
  ASSUME NEW g, Assigned(g), NEW h, KeepsEach(mem, g, mem', h)
  PROVE  SpacesMoved(h, {})
<1>1. ASSUME NEW p \in Spaces
      PROVE  Space(mem', h, p, root[p]) /\ EntriesBut(mem, mem', root[p], {})
  <2>1. Space(mem, g, p, root[p])
    BY DEF Assigned
  <2>2. Space(mem', h, p, root[p]) /\ SameEntries(mem, mem', root[p])
    BY <2>1, KeepsEachSpace
  <2> QED BY <2>2, SameEntriesAt
<1> QED BY <1>1 DEF SpacesMoved

(* A handler that works on the space of the caller. *)
LEMMA OwnMoved ==
  ASSUME NEW g, Assigned(g), Slots, NEW h, NEW S, Keeps(mem, g, mem', h, current),
         Space(mem', h, current, root[current]), EntriesBut(mem, mem', root[current], S)
  PROVE  SpacesMoved(h, S)
<1>1. ASSUME NEW p \in Spaces, p # current
      PROVE  Space(mem', h, p, root[p]) /\ EntriesBut(mem, mem', root[p], S)
  <2>1. Space(mem, g, p, root[p])
    BY DEF Assigned
  <2>2. Space(mem', h, p, root[p]) /\ SameEntries(mem, mem', root[p])
    BY <1>1, <2>1, KeepsSpace
  <2>3. EntriesBut(mem, mem', root[p], {})
    BY <2>2, SameEntriesAt
  <2> QED BY <2>2, <2>3 DEF EntriesBut
<1> QED BY <1>1 DEF SpacesMoved

LEMMA Unchanged ==
  ASSUME IInv, UNCHANGED <<bitmap, mem, root, live, current, tlb, held, panic>>
  PROVE  IInv'
  BY DEF IInv, Slots, Assigned, Spaces, TlbCoherent

LEMMA Returns ==
  ASSUME IInv, NEW value, return(value)
  PROVE  IInv'
<1>1. UNCHANGED <<bitmap, mem, root, live, current, tlb, held, panic>>
  BY DEF return
<1> QED BY <1>1, Unchanged

----------------------------------------------------------------------------
(* The actions. *)
LEMMA AllocPagesStep ==
  ASSUME IInv, AllocPages
  PROVE  IInv'
<1>1. current \in PIDs /\ panic = "no"
  BY DEF AllocPages, Ecall
<1>2. PICK count : sys_alloc_pages(count)
  BY DEF AllocPages
<1>3. CASE return(ERR)
  BY <1>3, Returns
<1>4. CASE ~return(ERR)
  <2> DEFINE page == page_addr(alloc(bitmap))
             new == alloc_zeroed_page(memory)
  <2>1. /\ CanAlloc(bitmap)
        /\ bitmap' = bitmap \cup {alloc(bitmap)} /\ mem' = [mem EXCEPT ![page] = <<>>]
        /\ held' = [held EXCEPT ![current] = @ \cup {page}]
        /\ UNCHANGED <<root, live, current, tlb, panic>>
    BY <1>2, <1>4 DEF sys_alloc_pages
  <2>2. PICK g : Assigned(g)
    BY DEF IInv
  <2>3. Base(memory, g)
    BY <2>2, MemoryMachine
  <2>4. PICK h : PageTaken(memory, g, new, h, UserTag(current))
    BY <2>3, TakePage
  <2>5. new.bitmap = bitmap' /\ new.mem = mem' /\ new.page = page /\ new.panic = "no"
    <3>1. memory = Machine(bitmap, mem, "no", root[current], root[current])
      BY <1>1 DEF memory, Machine
    <3>2. /\ memory.bitmap = bitmap /\ memory.mem = mem /\ memory.panic = "no"
      BY <3>1, MachineFields
    <3> HIDE DEF memory
    <3>3. new = [memory EXCEPT !.bitmap = @ \cup {alloc(bitmap)}, !.mem[page] = <<>>, !.page = page]
      BY <2>1, <3>2 DEF alloc_zeroed_page, unless_panicked
    <3>4. PICK y : y = memory
      OBVIOUS
    <3>5. new = [y EXCEPT !.bitmap = bitmap', !.mem = mem', !.page = page]
      BY <2>1, <3>2, <3>3, <3>4
    <3>6. DOMAIN y = {"bitmap", "mem", "panic", "root", "page"}
      BY <3>1, <3>4 DEF Machine
    <3> HIDE DEF new, page
    <3> QED BY <3>2, <3>4, <3>5, <3>6
  <2> HIDE DEF new, page
  <2>6. /\ Base(new, h) /\ KeepsEach(mem, g, mem', h) /\ page \in Heap /\ h[page] = UserTag(current)
    BY <2>2, <2>4, <2>5, MemoryMachine DEF PageTaken
  <2>7. SpacesMoved(h, {})
    BY <2>2, <2>6, EachMoved
  <2>8. HeldTagged(held', h)
    <3>1. Keeps(mem, g, mem', h, current)
      BY <2>6, KeepsEachSpace
    <3>2. HeldTagged(held, h)
      BY <2>2, <3>1, KeepsHeld DEF IInv
    <3> QED BY <1>1, <2>1, <2>6, <3>2 DEF HeldTagged
  <2>9. IsMem(mem') /\ Tagged(bitmap', h) /\ Panic(bitmap', panic')
    BY <1>1, <2>1, <2>5, <2>6 DEF Base, Panic
  <2> QED BY <2>1, <2>2, <2>7, <2>8, <2>9, PreservedAll
<1> QED BY <1>3, <1>4

(* sfence_vma() of an aligned address that has just been mapped or unmapped. *)
LEMMA FencedTlb ==
  ASSUME NEW va \in Pages, sfence_vma(va)
  PROVE  DOMAIN tlb' \subseteq DOMAIN tlb \ {va} /\ \A v \in DOMAIN tlb' : tlb'[v] = tlb[v]
<1>1. page_floor(va) = va
  BY Aligned DEF Pages
<1> QED BY <1>1 DEF sfence_vma

LEMMA UserPage ==
  ASSUME NEW va \in Nat, is_page_aligned(va), is_user_va(va)
  PROVE  va \in Pages /\ \A k \in RegionIds : \A vb \in RegionPages(k) : vb \notin {va}
<1>1. va \in Pages
  <2>1. USER_VA_END \in Nat /\ USER_VA_END <= VaLimit
    BY KvmAssumption
  <2> QED BY <2>1, VaLimitInt DEF Pages, is_user_va
<1> QED BY <1>1, UserNotKernel

LEMMA InHeap ==
  ASSUME NEW bits, NEW addr \in Nat, is_allocated(bits, addr)
  PROVE  addr \in Heap
<1>1. PICK P \in Int : P = PAGE_SIZE /\ P > 0
  BY PageSize
<1>2. PICK b \in Nat : base_addr = P * b
  <2>1. base_addr \in Nat /\ is_page_aligned(base_addr)
    BY PageAllocAssumption DEF is_page_aligned
  <2> QED BY <1>1, <2>1, Aligned
<1>3. PICK q \in Nat : addr = P * q
  <2>1. is_page_aligned(addr)
    BY DEF is_allocated, is_page_aligned
  <2> QED BY <1>1, <2>1, Aligned
<1>4. P * q >= P * b
  BY <1>2, <1>3 DEF is_allocated
<1>5. q >= b
  BY <1>1, <1>4, Z3
<1>6. PICK i \in Nat : i = q - b
  BY <1>5
<1>7. P * q - P * b = P * i + 0 /\ P * q - P * b \in Int /\ P * b + i * P = P * q
  BY <1>1, <1>6, Z3
<1>8. page_idx(addr) = i
  <2>1. PICK d \in Int : d = P * q - P * b /\ d = P * i + 0
    BY <1>7
  <2>2. d \div P = i
    BY <1>1, <2>1, DivUnique
  <2>3. page_idx(addr) = (P * q - P * b) \div P
    BY <1>1, <1>2, <1>3, Zenon DEF page_idx
  <2> QED BY <2>1, <2>2, <2>3, Zenon
<1>9. i \in 0 .. total_pages - 1
  BY <1>8, PageAllocAssumption DEF is_allocated
<1>10. addr = page_addr(i)
  <2>1. page_addr(i) = P * b + i * P
    BY <1>1, <1>2, Zenon DEF page_addr
  <2> QED BY <1>3, <1>7, <2>1, Zenon
<1> QED BY <1>9, <1>10 DEF Heap

(***************************************************************************)
(* Processes pass no page of the heap but their own to SYS_MAP and         *)
(* SYS_FREE_PAGES.  The handlers accept any, tables included; what follows *)
(* rests on this.                                                          *)
(***************************************************************************)
KeepToOwnPages == (ForeignMaps \cup ForeignFrees) \cap Heap = {}

LEMMA NotAllocated ==
  ASSUME IInv, KeepToOwnPages, NEW phys \in Unused \cup ForeignMaps \cup ForeignFrees
  PROVE  ~is_allocated(bitmap, phys)
<1>1. CASE phys \in Unused
  <2>1. CanAlloc(bitmap) /\ phys = page_addr(alloc(bitmap))
    BY <1>1 DEF Unused
  <2>2. bitmap \subseteq 0 .. total_pages - 1
    BY DEF IInv, Assigned, Tagged
  <2>3. alloc(bitmap) \in 0 .. total_pages - 1 /\ alloc(bitmap) \notin bitmap
    BY <2>1, <2>2, AllocLemma
  <2>4. page_idx(phys) \notin bitmap
    <3>1. alloc(bitmap) \in Nat
      BY <2>3, PageAllocAssumption
    <3> QED BY <2>1, <2>3, <3>1, HeapPages
  <2> QED BY <2>4 DEF is_allocated
<1>2. CASE phys \in ForeignMaps \cup ForeignFrees
  <2>1. phys \in Nat /\ phys \notin Heap
    BY <1>2, MemoryAssumption DEF KeepToOwnPages
  <2> QED BY <2>1, InHeap
<1> QED BY <1>1, <1>2

LEMMA MapStep ==
  ASSUME IInv, KeepToOwnPages, Map
  PROVE  IInv'
<1>1. current \in PIDs /\ panic = "no" /\ current \in Spaces
  BY DEF Map, Ecall, IInv, Slots
<1>2. PICK phys \in held[current] \cup Unused \cup ForeignMaps, virt \in Vas, flags \in 0 .. 2 :
         sys_map(phys, virt, flags)
  BY DEF Map
<1>3. CASE return(ERR)
  BY <1>3, Returns
<1>4. CASE ~return(ERR)
  <2>1. PICK m : /\ MapAccepted(phys, virt, flags)
                 /\ m = map_page(memory, virt, phys, IF flags = 0 THEN USER_RW ELSE USER_RX)
                 /\ commit(m)
                 /\ IF m.panic = "no" THEN sfence_vma(virt) ELSE UNCHANGED tlb
                 /\ UNCHANGED <<root, live, current, held>>
    BY <1>2, <1>4 DEF sys_map
  <2>2. phys \in held[current] /\ virt \in Vas
    <3>1. is_allocated(bitmap, phys)
      BY <2>1 DEF MapAccepted
    <3> QED BY <1>2, <3>1, NotAllocated
  <2>3. PICK g : Assigned(g)
    BY DEF IInv
  <2>4. /\ Base(memory, g) /\ memory.mem = mem /\ memory.panic = "no" /\ memory.root = root[current]
        /\ Space(mem, g, current, root[current])
    BY <1>1, <2>3, MemoryMachine DEF Assigned
  <2> HIDE DEF memory
  <2>5. virt \in Pages /\ is_user_va(virt) /\ \A k \in RegionIds : \A vb \in RegionPages(k) : vb \notin {virt}
    <3>1. virt \in Nat
      BY <2>2, MemoryAssumption
    <3>2. is_page_aligned(virt) /\ is_user_va(virt)
      BY <2>1 DEF MapAccepted
    <3> QED BY <3>1, <3>2, UserPage
  <2>6. PICK f \in {USER_RX, USER_RW} : f = (IF flags = 0 THEN USER_RW ELSE USER_RX)
    OBVIOUS
  <2>7. MayMap(g, current, phys, f)
    <3>1. phys \in Heap /\ g[phys] = UserTag(current)
      BY <1>1, <2>2, <2>3 DEF Assigned
    <3> QED BY <3>1, UserFlags, HeapPages DEF MayMap
  <2>8. PICK h : PageMapped(memory, g, m, h, current, virt, Pte(phys, f))
    <3>1. m = map_page(memory, virt, phys, f)
      BY <2>1, <2>6
    <3>2. Space(memory.mem, g, current, memory.root)
      BY <2>4
    <3> QED BY <2>4, <2>5, <2>7, <3>1, <3>2, MapPage
  <2>9. PICK S : S = IF m.panic = "no" THEN {virt} ELSE {}
    OBVIOUS
  <2>10. /\ mem' = m.mem /\ bitmap' = m.bitmap /\ panic' = m.panic
    BY <2>1 DEF commit
  <2>11. /\ Base(m, h) /\ Keeps(mem, g, mem', h, current) /\ Space(mem', h, current, root[current])
         /\ EntriesBut(mem, mem', root[current], S)
    BY <2>4, <2>8, <2>9, <2>10 DEF PageMapped, Stepped
  <2>12. SpacesMoved(h, S)
    BY <2>3, <2>11, OwnMoved DEF IInv
  <2>13. HeldTagged(held', h)
    <3>1. HeldTagged(held, h)
      BY <2>3, <2>11, KeepsHeld DEF IInv
    <3> QED BY <2>1, <3>1
  <2>14. IsMem(mem') /\ Tagged(bitmap', h) /\ Panic(bitmap', panic')
    BY <2>10, <2>11 DEF Base
  <2>15. DOMAIN tlb' \subseteq DOMAIN tlb \ S /\ \A v \in DOMAIN tlb' : tlb'[v] = tlb[v]
    <3>1. CASE m.panic = "no"
      BY <2>1, <2>5, <2>9, <3>1, FencedTlb
    <3>2. CASE m.panic # "no"
      BY <2>1, <2>9, <3>2
    <3> QED BY <3>1, <3>2
  <2>16. \A k \in RegionIds : \A vb \in RegionPages(k) : vb \notin S
    BY <2>5, <2>9
  <2>17. UNCHANGED <<root, live, current>>
    BY <2>1
  <2> QED BY <2>3, <2>12, <2>13, <2>14, <2>15, <2>16, <2>17, Preserved
<1> QED BY <1>3, <1>4

LEMMA UnmapStep ==
  ASSUME IInv, Unmap
  PROVE  IInv'
<1>1. current \in PIDs /\ current \in Spaces
  BY DEF Unmap, Ecall, IInv, Slots
<1>2. PICK virt \in Vas : sys_unmap(virt)
  BY DEF Unmap
<1>3. CASE return(ERR)
  BY <1>3, Returns
<1>4. CASE ~return(ERR)
  <2>1. /\ is_page_aligned(virt) /\ is_user_va(virt) /\ walk(mem, root[current], virt) # None
        /\ mem' = unmap_page(mem, root[current], virt) /\ sfence_vma(virt)
        /\ UNCHANGED <<bitmap, root, live, current, held, panic>>
    BY <1>2, <1>4 DEF sys_unmap, UnmapAccepted
  <2>2. PICK g : Assigned(g)
    BY DEF IInv
  <2>3. IsMem(mem) /\ Space(mem, g, current, root[current])
    BY <1>1, <2>2 DEF Assigned
  <2>4. virt \in Pages /\ \A k \in RegionIds : \A vb \in RegionPages(k) : vb \notin {virt}
    <3>1. virt \in Nat
      BY MemoryAssumption
    <3> QED BY <2>1, <3>1, UserPage
  <2>5. /\ IsMem(mem') /\ Space(mem', g, current, root[current])
        /\ EntriesBut(mem, mem', root[current], {virt}) /\ Keeps(mem, g, mem', g, current)
    BY <2>1, <2>3, <2>4, UnmapEntry
  <2>6. SpacesMoved(g, {virt})
    BY <2>2, <2>5, OwnMoved DEF IInv
  <2>7. HeldTagged(held', g)
    <3>1. HeldTagged(held, g)
      BY <2>2, <2>5, KeepsHeld DEF IInv
    <3> QED BY <2>1, <3>1
  <2>8. Tagged(bitmap', g) /\ Panic(bitmap', panic')
    BY <2>1, <2>2 DEF Assigned
  <2>9. DOMAIN tlb' \subseteq DOMAIN tlb \ {virt} /\ \A v \in DOMAIN tlb' : tlb'[v] = tlb[v]
    BY <2>1, <2>4, FencedTlb
  <2>10. PICK S : S = {virt}
    OBVIOUS
  <2>11. UNCHANGED <<root, live, current>>
    BY <2>1
  <2> QED BY <2>2, <2>4, <2>5, <2>6, <2>7, <2>8, <2>9, <2>10, <2>11, Preserved
<1> QED BY <1>3, <1>4

LEMMA FreePagesStep ==
  ASSUME IInv, KeepToOwnPages, FreePages
  PROVE  IInv'
<1>1. current \in PIDs /\ current \in Spaces /\ panic = "no"
  BY DEF FreePages, Ecall, IInv, Slots
<1>2. PICK g : Assigned(g)
  BY DEF IInv
<1>3. PICK phys \in (held[current] \ UserPages(current)) \cup Unused \cup ForeignFrees,
           count \in {1, 2} :
         sys_free_pages(phys, count)
  BY DEF FreePages
<1>4. CASE return(ERR)
  BY <1>4, Returns
<1>5. CASE ~return(ERR)
  <2>1. /\ count = 1 /\ is_allocated(bitmap, phys)
        /\ mem' = [mem EXCEPT ![phys] = <<>>] /\ bitmap' = freed(bitmap, phys)
        /\ held' = [held EXCEPT ![current] = @ \ {phys}]
        /\ UNCHANGED <<root, live, current, tlb, panic>>
    BY <1>3, <1>5 DEF sys_free_pages
  <2>2. phys \in held[current] /\ phys \notin UserPages(current)
    BY <1>3, <2>1, NotAllocated
  <2>3. phys \in Heap /\ g[phys] = UserTag(current)
    BY <1>1, <1>2, <2>2 DEF Assigned
  <2>4. PICK h : h = Retag(g, phys, FreeTag)
    OBVIOUS
  <2>5. h[phys] = FreeTag /\ \A page \in Heap : page # phys => h[page] = g[page]
    BY <2>3, <2>4 DEF Retag
  <2>6. IsMem(mem') /\ \A page \in Heap : page # phys => Same(mem, mem', page)
    <3>1. DOMAIN <<>> \subseteq Idx
      OBVIOUS
    <3>2. IsMem(mem)
      BY <1>2 DEF Assigned
    <3> QED BY <2>1, <2>3, <3>1, <3>2, RefillLemma
  <2>7. ASSUME NEW p \in Spaces
        PROVE  Space(mem', h, p, root[p]) /\ EntriesBut(mem, mem', root[p], {})
    <3>1. IsMem(mem) /\ Space(mem, g, p, root[p])
      BY <1>2 DEF Assigned
    <3>2. \A page \in Heap : TableOf(g[page], p) => h[page] = g[page] /\ Same(mem, mem', page)
      BY <2>3, <2>5, <2>6, Tags
    <3>3. ASSUME NEW i \in Idx, NEW j \in Idx, NEW k \in Idx, "U" \in Entry(mem, root[p], i, j, k).flags
          PROVE  LET page == phys_addr(Entry(mem, root[p], i, j, k)) IN h[page] = g[page]
      <4> DEFINE page == phys_addr(Entry(mem, root[p], i, j, k))
      <4>1. page \in Heap /\ g[page] = UserTag(p)
        BY <3>1, <3>3 DEF Space, UserEntry
      <4>2. p = current => page \in UserPages(current)
        BY <3>1, <3>3, EntryInUserPages
      <4>3. page # phys
        BY <2>2, <2>3, <4>1, <4>2, Tags
      <4> HIDE DEF page
      <4> QED BY <2>5, <4>1, <4>3 DEF page
    <3>4. Space(mem', h, p, root[p]) /\ SameEntries(mem, mem', root[p])
      BY <3>1, <3>2, <3>3, FrameLemma
    <3> QED BY <3>4, SameEntriesAt
  <2>8. SpacesMoved(h, {})
    BY <2>7 DEF SpacesMoved
  <2>9. bitmap' = bitmap \ {page_idx(phys)}
    <3>1. /\ phys % PAGE_SIZE = 0 /\ phys \in Nat /\ ~(phys < base_addr)
          /\ ~(page_idx(phys) >= total_pages) /\ page_idx(phys) \in bitmap
      <4>1. phys \in Nat /\ page_idx(phys) \in Int
        BY <2>3, HeapPages, PageAllocAssumption
      <4> QED BY <2>1, <4>1, PageAllocAssumption DEF is_allocated
    <3>2. free(bitmap, phys) = "Ok"
      BY <3>1 DEF free
    <3> QED BY <2>1, <3>2 DEF freed
  <2>10. Tagged(bitmap', h)
    <3>1. Tagged(bitmap, g)
      BY <1>2 DEF Assigned
    <3>2. \A page \in Heap : page # phys => page_idx(page) # page_idx(phys)
      BY <2>3, HeapPages
    <3> QED BY <2>5, <2>9, <3>1, <3>2 DEF Tagged
  <2>11. HeldTagged(held', h)
    <3>1. ASSUME NEW p \in PIDs, NEW page \in held'[p]
          PROVE  page \in Heap /\ h[page] = UserTag(p)
      <4>1. DOMAIN held = PIDs
        BY DEF IInv, Slots
      <4>2. page \in held[p] /\ (p = current => page # phys)
        BY <2>1, <3>1, <4>1
      <4>3. page \in Heap /\ g[page] = UserTag(p)
        BY <1>2, <4>2 DEF Assigned
      <4>4. page # phys
        BY <2>3, <4>2, <4>3, Tags
      <4> QED BY <2>5, <4>3, <4>4
    <3>2. DOMAIN held' = PIDs
      BY <2>1 DEF IInv, Slots
    <3> QED BY <3>1, <3>2 DEF HeldTagged
  <2>12. Panic(bitmap', panic')
    BY <1>1, <2>1 DEF Panic
  <2> QED BY <1>2, <2>1, <2>6, <2>8, <2>10, <2>11, <2>12, PreservedAll
<1> QED BY <1>4, <1>5

(* The kernel panics while a space is built: the others are as they were. *)
LEMMA SpawnStep ==
  ASSUME IInv, Spawn
  PROVE  IInv'
<1>1. current \in PIDs /\ current \in Spaces /\ panic = "no"
  BY DEF Spawn, Ecall, IInv, Slots
<1>2. PICK g : Assigned(g)
  BY DEF IInv
<1>3. PICK image \in Images : sys_spawn(image)
  BY DEF Spawn
<1>4. CASE return(ERR)
  BY <1>4, Returns
<1>5. CASE ~return(ERR)
  <2>1. PICK new, pid :
           /\ PIDs \ live # {} /\ new = load(memory, image) /\ pid = Least(PIDs \ live) /\ commit(new)
           /\ IF new.panic = "no"
              THEN root' = [root EXCEPT ![pid] = new.root] /\ live' = live \cup {pid}
              ELSE UNCHANGED <<root, live>>
           /\ UNCHANGED <<current, tlb, held>>
    BY <1>3, <1>5 DEF sys_spawn
  <2>2. pid \in PIDs \ live
    <3>1. PIDs \ live \subseteq Nat
      BY DEF PIDs
    <3> QED BY <2>1, <3>1, LeastLemma
  <2>3. /\ Base(memory, g) /\ memory.mem = mem
    BY <1>2, MemoryMachine
  <2>4. PICK h : Built(memory, g, new, h, pid)
    BY <2>1, <2>3, LoadBuilds
  <2>5. /\ mem' = new.mem /\ bitmap' = new.bitmap /\ panic' = new.panic
    BY <2>1 DEF commit
  <2>6. /\ Base(new, h) /\ Keeps(mem, g, mem', h, pid)
        /\ new.panic = "no" => Space(mem', h, pid, new.root) /\ KernelMapped(mem', new.root, RegionIds)
    BY <2>3, <2>4, <2>5 DEF Built, Building
  <2>7. ASSUME NEW p \in Spaces
        PROVE  /\ p # pid /\ Space(mem', h, p, root[p]) /\ EntriesBut(mem, mem', root[p], {})
    <3>1. p # pid
      BY <2>2 DEF Spaces, PIDs
    <3>2. Space(mem, g, p, root[p])
      BY <1>2 DEF Assigned
    <3>3. Space(mem', h, p, root[p]) /\ SameEntries(mem, mem', root[p])
      BY <2>6, <3>1, <3>2, KeepsSpace
    <3> QED BY <3>1, <3>3, SameEntriesAt
  <2>8. HeldTagged(held', h)
    <3>1. HeldTagged(held, h)
      BY <1>2, <2>6, KeepsHeld DEF IInv
    <3> QED BY <2>1, <3>1
  <2>9. IsMem(mem') /\ Tagged(bitmap', h) /\ Panic(bitmap', panic')
    BY <2>5, <2>6 DEF Base
  <2>10. CASE new.panic # "no"
    <3>1. SpacesMoved(h, {})
      BY <2>7 DEF SpacesMoved
    <3>2. UNCHANGED <<root, live, current, tlb>>
      BY <2>1, <2>10
    <3> QED BY <1>2, <2>8, <2>9, <3>1, <3>2, PreservedAll
  <2>11. CASE new.panic = "no"
    <3>1. /\ root' = [root EXCEPT ![pid] = new.root] /\ live' = live \cup {pid}
          /\ DOMAIN root = 0 .. MAX_PROCS - 1 /\ pid \in DOMAIN root
      <4>1. DOMAIN root = 0 .. MAX_PROCS - 1
        BY DEF IInv, Slots
      <4>2. pid \in 0 .. MAX_PROCS - 1
        BY <2>2, MemoryAssumption DEF PIDs
      <4> QED BY <2>1, <2>11, <4>1, <4>2
    <3>2. root'[pid] = new.root /\ \A p \in Spaces : root'[p] = root[p]
      <4>1. \A p \in Spaces : p \in DOMAIN root
        BY <3>1, MemoryAssumption DEF Spaces, IInv, Slots, PIDs
      <4> QED BY <2>7, <3>1, <4>1
    <3>3. Spaces' = Spaces \cup {pid}
      BY <3>1 DEF Spaces
    <3>4. ASSUME NEW p \in Spaces'
          PROVE  Space(mem', h, p, root'[p]) /\ KernelMapped(mem', root'[p], RegionIds)
      <4>1. CASE p = pid
        BY <2>6, <2>11, <3>2, <4>1
      <4>2. CASE p \in Spaces
        <5>1. KernelMapped(mem, root[p], RegionIds)
          BY <1>2, <4>2 DEF Assigned
        <5>2. Space(mem', h, p, root[p]) /\ EntriesBut(mem, mem', root[p], {})
          BY <2>7, <4>2
        <5>3. KernelMapped(mem', root[p], RegionIds)
          BY <5>1, <5>2, KernelKept
        <5> QED BY <3>2, <4>2, <5>2, <5>3
      <4> QED BY <3>3, <4>1, <4>2
    <3>5. Assigned(h)'
      BY <2>8, <2>9, <3>4 DEF Assigned, HeldTagged
    <3>6. TlbCoherent' /\ DOMAIN tlb' \subseteq TlbVas
      <4>1. DOMAIN tlb \subseteq TlbVas /\ TlbCoherent
        BY DEF IInv
      <4>2. tlb' = tlb /\ current' = current /\ root'[current] = root[current]
        BY <1>1, <2>1, <3>2
      <4>3. ASSUME NEW v \in DOMAIN tlb
            PROVE  tlb[v] = walk(mem', root[current], v)
        <5>1. v \in Pages \ {}
          BY <4>1, MemoryAssumption DEF Pages
        <5>2. EntriesBut(mem, mem', root[current], {})
          BY <1>1, <2>7
        <5>3. walk(mem', root[current], v) = walk(mem, root[current], v)
          BY <5>1, <5>2, WalkSame
        <5> QED BY <4>1, <5>3 DEF TlbCoherent
      <4> QED BY <4>1, <4>2, <4>3 DEF TlbCoherent
    <3>7. Slots'
      BY <2>1, <2>2, <2>8, <3>1, <3>3 DEF IInv, Slots, HeldTagged
    <3> QED BY <3>5, <3>6, <3>7 DEF IInv
  <2> QED BY <2>10, <2>11
<1> QED BY <1>4, <1>5

LEMMA CopyOutStep ==
  ASSUME IInv, CopyOut
  PROVE  IInv'
<1>1. current \in Spaces
  BY DEF CopyOut, Ecall, IInv, Slots
<1>2. PICK range \in CopyRanges : copy_out(range)
  BY DEF CopyOut
<1>3. PICK r : /\ r = walk_user_range(mem, root[current], range.va, range.len, TRUE)
               /\ \/ /\ mem' = copy_to_user(mem, r.chunks, current)
                     /\ UNCHANGED <<bitmap, root, live, current, tlb, held, panic>>
                  \/ return(ERR)
  BY <1>2 DEF copy_out
<1>4. CASE return(ERR)
  BY <1>4, Returns
<1>5. CASE ~return(ERR)
  <2>1. /\ mem' = copy_to_user(mem, r.chunks, current)
        /\ UNCHANGED <<bitmap, root, live, current, tlb, held, panic>>
    BY <1>3, <1>5
  <2>2. PICK g : Assigned(g)
    BY DEF IInv
  <2>3. IsMem(mem) /\ Space(mem, g, current, root[current]) /\ Tagged(bitmap, g) /\ Panic(bitmap, panic)
    BY <1>1, <2>2 DEF Assigned
  <2>4. range.va \in Nat /\ range.len \in Nat
    BY MemoryAssumption
  <2>5. r.chunks \in Seq(Chunks(g, current))
    BY <1>3, <2>3, <2>4, RangeFinds
  <2>6. IsMem(mem') /\ KeepsEach(mem, g, mem', g)
    BY <2>1, <2>3, <2>5, CopyKeeps
  <2>7. SpacesMoved(g, {})
    BY <2>2, <2>6, EachMoved
  <2>8. HeldTagged(held', g)
    <3>1. Keeps(mem, g, mem', g, current)
      BY <2>6, KeepsEachSpace
    <3>2. HeldTagged(held, g)
      BY <2>2, <3>1, KeepsHeld DEF IInv
    <3> QED BY <2>1, <3>2
  <2>9. Tagged(bitmap', g) /\ Panic(bitmap', panic') /\ UNCHANGED <<root, live, current, tlb>>
    BY <2>1, <2>3
  <2> QED BY <2>2, <2>6, <2>7, <2>8, <2>9, PreservedAll
<1> QED BY <1>4, <1>5

(* A switch of address spaces, by Exit or Switch. *)
LEMMA SwitchStep ==
  ASSUME IInv, Exit \/ Switch
  PROVE  IInv'
<1>1. PICK g : Assigned(g)
  BY DEF IInv
<1>2. PICK next : /\ live' \subseteq live /\ next \in live' \cup {0} /\ switch_to(next)
                  /\ UNCHANGED <<bitmap, mem, root, panic>>
                  /\ held' \in {held, [held EXCEPT ![current] = {}]}
  <2>1. CASE Exit
    BY <2>1 DEF Exit
  <2>2. CASE Switch
    BY <2>2 DEF Switch
  <2> QED BY <2>1, <2>2
<1>3. current' = next /\ tlb' = <<>>
  BY <1>2 DEF switch_to, sfence_vma_all
<1>4. Spaces' \subseteq Spaces
  BY <1>2 DEF Spaces
<1>5. DOMAIN held' = PIDs /\ \A p \in PIDs : held'[p] \subseteq held[p]
  <2>1. DOMAIN held = PIDs
    BY DEF IInv, Slots
  <2>2. CASE held' = held
    BY <2>1, <2>2
  <2>3. CASE held' = [held EXCEPT ![current] = {}]
    BY <2>1, <2>3
  <2> QED BY <1>2, <2>2, <2>3
<1>6. Assigned(g)'
  BY <1>1, <1>2, <1>4, <1>5 DEF Assigned
<1>7. DOMAIN tlb' = {}
  BY <1>3
<1>8. TlbCoherent'
  BY <1>7 DEF TlbCoherent
<1>9. Slots'
  BY <1>2, <1>3, <1>5 DEF IInv, Slots, Spaces
<1> QED BY <1>6, <1>7, <1>8, <1>9 DEF IInv

LEMMA FillStep ==
  ASSUME IInv, Fill
  PROVE  IInv'
<1>1. PICK va \in TlbVas \ DOMAIN tlb :
         /\ tlb' = [v \in DOMAIN tlb \cup {va} |-> IF v = va THEN walk(mem, root[current], va) ELSE tlb[v]]
         /\ UNCHANGED <<bitmap, mem, root, live, current, held, panic>>
  BY DEF Fill
<1>2. PICK g : Assigned(g)
  BY DEF IInv
<1>3. Assigned(g)'
  BY <1>1, <1>2 DEF Assigned, Spaces
<1>4. Slots' /\ DOMAIN tlb' \subseteq TlbVas
  BY <1>1 DEF IInv, Slots, Spaces
<1>5. \A v \in DOMAIN tlb : tlb[v] = walk(mem, root[current], v)
  BY DEF IInv, TlbCoherent
<1>6. TlbCoherent'
  BY <1>1, <1>5 DEF TlbCoherent
<1> QED BY <1>3, <1>4, <1>6 DEF IInv

LEMMA NextKeepsIInv ==
  ASSUME IInv, KeepToOwnPages, [Next]_vars
  PROVE  IInv'
<1>1. CASE AllocPages
  BY <1>1, AllocPagesStep
<1>2. CASE Map
  BY <1>2, MapStep
<1>3. CASE Unmap
  BY <1>3, UnmapStep
<1>4. CASE FreePages
  BY <1>4, FreePagesStep
<1>5. CASE Spawn
  BY <1>5, SpawnStep
<1>6. CASE CopyOut
  BY <1>6, CopyOutStep
<1>7. CASE Exit \/ Switch
  BY <1>7, SwitchStep
<1>8. CASE Fill
  BY <1>8, FillStep
<1>9. CASE Stopped \/ UNCHANGED vars
  <2>1. UNCHANGED vars
    BY <1>9 DEF Stopped
  <2>2. UNCHANGED <<bitmap, mem, root, live, current, tlb, held, panic>>
    BY <2>1 DEF vars
  <2> QED BY <2>2, Unchanged
<1> QED BY <1>1, <1>2, <1>3, <1>4, <1>5, <1>6, <1>7, <1>8, <1>9 DEF Next

(* The kernel's page table and PID 1. *)
LEMMA InitIInv ==
  ASSUME Init
  PROVE  IInv
<1> DEFINE m == [bitmap |-> {}, mem |-> [page \in Heap |-> <<>>], panic |-> "no",
                 root |-> 0, page |-> 0]
<1>1. PICK kernel, boot :
         /\ kernel = new_root(m)
         /\ boot = create_process(kernel) \/ boot = load(kernel, BootImage)
         /\ boot.panic = "no"
         /\ bitmap = boot.bitmap /\ mem = boot.mem /\ panic = boot.panic
         /\ root = [p \in 0 .. MAX_PROCS - 1 |->
                      IF p = 0 THEN kernel.root ELSE IF p = 1 THEN boot.root ELSE 0]
         /\ live = {1} /\ current = 1 /\ tlb = <<>> /\ held = [p \in PIDs |-> {}]
  BY DEF Init
<1>2. PICK g : g = [page \in Heap |-> FreeTag]
  OBVIOUS
<1>3. Base(m, g)
  <2>1. m = Machine({}, [page \in Heap |-> <<>>], "no", 0, 0)
    BY DEF Machine
  <2>2. m.bitmap = {} /\ m.mem = [page \in Heap |-> <<>>] /\ m.panic = "no" /\ IsMachine(m)
    BY <2>1, MachineFields
  <2> HIDE DEF m
  <2>3. IsMem(m.mem)
    BY <2>2 DEF IsMem
  <2>4. Tagged(m.bitmap, g)
    BY <1>2, <2>2 DEF Tagged
  <2> QED BY <2>2, <2>3, <2>4 DEF Base, Panic
<1> HIDE DEF m
<1>4. PICK h : Built(m, g, kernel, h, 0)
  BY <1>1, <1>3, NewRoot
<1>5. Base(kernel, h)
  BY <1>4 DEF Built, Building
<1>6. PICK f : Built(kernel, h, boot, f, 1)
  BY <1>1, <1>5, CreateBuilds, LoadBuilds
<1>7. /\ Base(boot, f) /\ Keeps(kernel.mem, h, boot.mem, f, 1) /\ kernel.panic = "no"
      /\ Space(boot.mem, f, 1, boot.root) /\ KernelMapped(boot.mem, boot.root, RegionIds)
  BY <1>1, <1>6 DEF Built, Building
<1>8. Space(boot.mem, f, 0, kernel.root) /\ KernelMapped(boot.mem, kernel.root, RegionIds)
  <2>1. Space(kernel.mem, h, 0, kernel.root) /\ KernelMapped(kernel.mem, kernel.root, RegionIds)
    BY <1>4, <1>7 DEF Built
  <2>2. Space(boot.mem, f, 0, kernel.root) /\ SameEntries(kernel.mem, boot.mem, kernel.root)
    <3>1. 0 # 1
      OBVIOUS
    <3> QED BY <1>7, <2>1, <3>1, KeepsSpace
  <2>3. EntriesBut(kernel.mem, boot.mem, kernel.root, {})
    BY <2>2, SameEntriesAt
  <2> QED BY <2>1, <2>2, <2>3, KernelKept
<1>9. Spaces = {0, 1} /\ root[0] = kernel.root /\ root[1] = boot.root /\ DOMAIN root = 0 .. MAX_PROCS - 1
  <2>1. 0 \in 0 .. MAX_PROCS - 1 /\ 1 \in 0 .. MAX_PROCS - 1
    BY MemoryAssumption
  <2> QED BY <1>1, <2>1 DEF Spaces
<1>10. Assigned(f)
  <2>1. IsMem(mem) /\ Tagged(bitmap, f) /\ Panic(bitmap, panic)
    BY <1>1, <1>7 DEF Base
  <2>2. \A p \in Spaces : Space(mem, f, p, root[p]) /\ KernelMapped(mem, root[p], RegionIds)
    BY <1>1, <1>7, <1>8, <1>9
  <2>3. \A p \in PIDs : held[p] = {}
    BY <1>1
  <2> QED BY <2>1, <2>2, <2>3 DEF Assigned
<1>11. Slots
  BY <1>1, <1>9, MemoryAssumption DEF Slots, Spaces, PIDs
<1>12. DOMAIN tlb = {}
  BY <1>1
<1> QED BY <1>10, <1>11, <1>12 DEF IInv, TlbCoherent

LEMMA Inductive ==
  ASSUME KeepToOwnPages
  PROVE  Spec => []IInv
<1>1. Init => IInv
  BY InitIInv
<1>2. IInv /\ [Next]_vars => IInv'
  BY NextKeepsIInv
<1> QED BY <1>1, <1>2, PTL DEF Spec

----------------------------------------------------------------------------
(***************************************************************************)
(* A page in use has one use, whatever the sizes of the machine: as long   *)
(* as processes pass no heap page but their own to SYS_MAP and             *)
(* SYS_FREE_PAGES, the allocator never hands out a page twice, and no      *)
(* table is shared or mapped for user mode.                                *)
(***************************************************************************)
THEOREM PagesAreExclusive ==
  ASSUME KeepToOwnPages
  PROVE  Spec => []PagesExclusive
<1>1. ASSUME IInv
      PROVE  PagesExclusive
  <2>1. PICK g : Assigned(g)
    BY <1>1 DEF IInv
  <2> DEFINE tables == [p \in Spaces |-> Tables(p)]
             owned == [p \in Spaces |-> UserPages(p) \cup (IF p = 0 THEN {} ELSE held[p])]
  <2>2. ASSUME NEW p \in Spaces
        PROVE  /\ \A page \in tables[p] : page \in Heap /\ TableOf(g[page], p)
               /\ \A page \in owned[p] : page \in Heap /\ g[page] = UserTag(p)
    <3>1. IsMem(mem) /\ Space(mem, g, p, root[p])
      BY <2>1 DEF Assigned
    <3>2. /\ \A page \in Tables(p) : page \in Heap /\ TableOf(g[page], p)
          /\ \A page \in UserPages(p) : page \in Heap /\ g[page] = UserTag(p)
      BY <3>1, TablesTagged
    <3>3. p # 0 => \A page \in held[p] : page \in Heap /\ g[page] = UserTag(p)
      BY <1>1, <2>1 DEF Assigned, IInv, Slots, Spaces
    <3>4. tables[p] = Tables(p) /\ owned[p] = UserPages(p) \cup (IF p = 0 THEN {} ELSE held[p])
      OBVIOUS
    <3> QED BY <3>2, <3>3, <3>4
  <2> HIDE DEF tables, owned
  <2>3. ASSUME NEW page \in Heap, g[page] # FreeTag
        PROVE  is_allocated(bitmap, page)
    <3>1. page_idx(page) \in bitmap
      BY <2>1, <2>3 DEF Assigned, Tagged
    <3>2. /\ page \in Nat /\ is_page_aligned(page) /\ page >= base_addr
          /\ page_idx(page) \in 0 .. total_pages - 1
      BY HeapPages
    <3> QED BY <3>1, <3>2, PageAllocAssumption DEF is_allocated, is_page_aligned
  <2>4. \A p \in Spaces : \A page \in tables[p] \cup owned[p] : is_allocated(bitmap, page)
    BY <2>2, <2>3, Tags
  <2>5. \A t, p, q : TableOf(t, p) /\ TableOf(t, q) => p = q
    BY DEF TableOf
  <2>6. \A p, q \in Spaces :
          /\ owned[p] \cap tables[q] = {}
          /\ p # q => tables[p] \cap tables[q] = {} /\ owned[p] \cap owned[q] = {}
    BY <2>2, <2>5, Tags
  <2> QED BY <2>4, <2>6 DEF PagesExclusive, tables, owned
<1> QED BY <1>1, Inductive, PTL

(***************************************************************************)
(* The kernel's regions stay identity-mapped in every address space, as    *)
(* long as no process frees or maps a page table or another's page: the    *)
(* handlers do not refuse those.                                           *)
(***************************************************************************)
THEOREM KernelAlwaysMapped ==
  ASSUME KeepToOwnPages
  PROVE  Spec => []KernelStaysMapped
<1>1. ASSUME IInv
      PROVE  KernelStaysMapped
  <2>1. PICK g : Assigned(g)
    BY <1>1 DEF IInv
  <2>2. DOMAIN KernelRegions = RegionIds
    BY KvmAssumption, LenProperties DEF RegionIds
  <2>3. ASSUME NEW p \in Spaces, NEW k \in RegionIds,
               NEW i \in 0 .. (KernelRegions[k].end - KernelRegions[k].start) \div PAGE_SIZE - 1
        PROVE  LET va == KernelRegions[k].start + i * PAGE_SIZE
                   result == walk(mem, root[p], va)
               IN /\ result.phys = va
                  /\ result.flags = KernelRegions[k].flags \/ va \in UserPages(p)
    <3> DEFINE r == KernelRegions[k]
               va == r.start + i * PAGE_SIZE
               e == EntryAt(mem, root[p], va)
    <3>1. /\ r.start \in Nat /\ is_page_aligned(r.start) /\ r.end \in Nat
          /\ region_end(r) \in Nat /\ region_end(r) <= VaLimit /\ r.end <= region_end(r)
          /\ r.start <= r.end
      <4>1. r.start <= r.end
        BY <2>2, KvmAssumption
      <4> QED BY <4>1, Regions, RegionEnd
    <3> HIDE DEF r
    <3>2. PICK n \in Nat, rest \in Nat : n = (r.end - r.start) \div PAGE_SIZE
                                       /\ r.end - r.start = PAGE_SIZE * n + rest
      <4>1. r.end - r.start \in Nat
        BY <3>1
      <4> QED BY <4>1, Floor
    <3>3. i \in Nat /\ i < n
      BY <3>2 DEF r
    <3>4. va \in Nat /\ is_page_aligned(va)
      BY <3>1, <3>3, AlignedPlus
    <3>5. va + PAGE_SIZE <= r.end /\ r.start <= va
      <4>1. i * PAGE_SIZE \in Nat /\ PAGE_SIZE * n \in Nat
        BY <3>2, <3>3, Multiples
      <4>2. i * PAGE_SIZE + PAGE_SIZE <= PAGE_SIZE * n
        BY <3>2, <3>3, PageSize, Z3
      <4> QED BY <3>1, <3>2, <4>1, <4>2, PageSize
    <3> HIDE DEF va
    <3>6. va \in RegionPages(k)
      BY <3>1, <3>4, <3>5, PageSize, VaLimitInt DEF RegionPages, RangePages, Pages, r
    <3>7. KernelEntry(e, va, r.flags)
      BY <2>1, <3>6 DEF Assigned, KernelMapped, r
    <3>8. va_parts(va).offset = 0
      <4>1. va % PAGE_SIZE = 0
        BY <3>4 DEF is_page_aligned
      <4> QED BY <3>4, <4>1, Parts
    <3>9. "U" \in e.flags => va \in UserPages(p)
      <4>1. va_parts(va).vpn2 \in Idx /\ va_parts(va).vpn1 \in Idx /\ va_parts(va).vpn0 \in Idx
        BY <3>4, Parts
      <4>2. IsMem(mem) /\ Space(mem, g, p, root[p])
        BY <2>1 DEF Assigned
      <4>3. phys_addr(e) = va
        BY <3>7 DEF KernelEntry
      <4> QED BY <4>1, <4>2, <4>3, EntryInUserPages DEF EntryAt
    <3>10. walk(mem, root[p], va) = [phys |-> phys_addr(e) + va_parts(va).offset, flags |-> e.flags]
      BY <3>7, WalkEntry DEF KernelEntry
    <3>11. walk(mem, root[p], va).phys = va /\ walk(mem, root[p], va).flags = e.flags
      BY <3>4, <3>7, <3>8, <3>10 DEF KernelEntry
    <3>12. e.flags = r.flags \/ "U" \in e.flags
      BY <3>7 DEF KernelEntry
    <3> QED BY <3>9, <3>11, <3>12 DEF va, r
  <2> QED BY <2>2, <2>3 DEF KernelStaysMapped
<1> QED BY <1>1, Inductive, PTL

(***************************************************************************)
(* No translation the hart has cached is stale, among processes that keep  *)
(* to their own pages.                                                     *)
(***************************************************************************)
THEOREM TlbStaysCoherent ==
  ASSUME KeepToOwnPages
  PROVE  Spec => []TlbCoherent
<1>1. IInv => TlbCoherent
  BY DEF IInv
<1> QED BY <1>1, Inductive, PTL

(***************************************************************************)
(* A panic is for lack of memory, and then every page is in use, among     *)
(* processes that keep to their own pages.                                 *)
(***************************************************************************)
THEOREM PanicOnlyWhenFull ==
  ASSUME KeepToOwnPages
  PROVE  Spec => []OutOfMemoryOnlyWhenFull
<1>1. ASSUME IInv, panic # "no"
      PROVE  panic = "oom" /\ free_count(bitmap) = 0
  <2>1. panic = "oom" /\ bitmap = 0 .. total_pages - 1
    BY <1>1 DEF IInv, Assigned, Panic
  <2>2. Cardinality(0 .. total_pages - 1) = total_pages
    <3>1. total_pages \in Nat /\ total_pages > 0
      BY PageAllocAssumption
    <3>2. Cardinality(0 .. total_pages - 1) = (total_pages - 1) - 0 + 1
      BY <3>1, FS_Interval
    <3> QED BY <3>1, <3>2
  <2> QED BY <2>1, <2>2, PageAllocAssumption DEF free_count, allocated_count
<1>2. IInv => OutOfMemoryOnlyWhenFull
  BY <1>1 DEF OutOfMemoryOnlyWhenFull
<1> QED BY <1>2, Inductive, PTL

----------------------------------------------------------------------------
(***************************************************************************)
(* What a copy to a process writes.  Within a page the translations of     *)
(* addresses differ in the offset only.                                    *)
(***************************************************************************)
LEMMA DivWithin ==
  ASSUME NEW P \in Int, P > 0, NEW c \in Int, c > 0, NEW a \in Nat, NEW j \in Nat,
         (a % P) + j < P
  PROVE  (a + j) \div (P * c) = a \div (P * c)
<1>1. PICK m \in Int : m = P * c /\ m > 0
  BY Z3
<1>2. PICK q \in Int, r \in Int : q = a \div m /\ a = m * q + r /\ 0 <= r /\ r < m
  BY <1>1, ModRange
<1>3. PICK u \in Int, v \in Int : r = P * u + v /\ 0 <= v /\ v < P
  BY <1>2, ModRange
<1>4. a % P = v
  <2>1. PICK k \in Int : k = c * q + u
    <3>1. PICK x \in Int : x = c * q
      BY Z3
    <3> QED BY <3>1
  <2>2. a = P * k + v
    <3>1. P * k = P * (c * q) + P * u
      BY <2>1, Z3
    <3>2. P * (c * q) = m * q
      BY <1>1, Z3
    <3>3. PICK x \in Int, y \in Int : x = m * q /\ y = P * u
      BY Z3
    <3>4. a = x + (y + v) /\ P * k = x + y
      BY <1>2, <1>3, <3>1, <3>2, <3>3, Zenon
    <3> QED BY <3>3, <3>4
  <2> QED BY <1>3, <2>2, ModUnique
<1>5. u <= c - 1
  <2>1. SUFFICES ASSUME c <= u PROVE FALSE
    OBVIOUS
  <2>2. P * c <= P * u
    BY <2>1, Z3
  <2>3. PICK y \in Int : y = P * u
    BY Z3
  <2> QED BY <1>1, <1>2, <1>3, <2>2, <2>3
<1>6. P * u <= m - P
  <2>1. PICK d \in Int : d = c - 1 - u /\ d >= 0
    BY <1>5
  <2>2. P * d >= 0 /\ P * d = P * c - P - P * u
    BY <2>1, Z3
  <2>3. PICK y \in Int, z \in Int : y = P * u /\ z = P * d
    BY Z3
  <2> QED BY <1>1, <2>2, <2>3
<1>7. r + j \in Int /\ 0 <= r + j /\ r + j < m
  <2>1. PICK y \in Int : y = P * u
    BY Z3
  <2> QED BY <1>2, <1>3, <1>4, <1>6, <2>1
<1>8. a + j = m * q + (r + j)
  <2>1. PICK x \in Int : x = m * q
    BY Z3
  <2>2. a = x + r
    BY <1>2, <2>1, Zenon
  <2>3. a + j = x + (r + j)
    BY <2>2
  <2> QED BY <2>1, <2>3, Zenon
<1>9. a + j \in Int
  OBVIOUS
<1>10. (a + j) \div m = q
  BY <1>1, <1>7, <1>8, <1>9, DivUnique
<1> QED BY <1>1, <1>2, <1>10

LEMMA Within ==
  ASSUME NEW a \in Nat, NEW j \in Nat, (a % PAGE_SIZE) + j < PAGE_SIZE
  PROVE  /\ (a + j) % PAGE_SIZE = (a % PAGE_SIZE) + j
         /\ page_floor(a + j) = page_floor(a)
         /\ va_parts(a + j).vpn2 = va_parts(a).vpn2 /\ va_parts(a + j).vpn1 = va_parts(a).vpn1
         /\ va_parts(a + j).vpn0 = va_parts(a).vpn0
<1>1. PICK P \in Int : P = PAGE_SIZE /\ P > 0
  BY PageSize
<1>2. P * P \in Int /\ P * P > 0
  BY <1>1, Z3
<1>3. (a + j) \div P = a \div P
  <2>1. (a + j) \div (P * 1) = a \div (P * 1)
    BY <1>1, DivWithin
  <2>2. P * 1 = P
    BY <1>1
  <2> QED BY <2>1, <2>2
<1>4. (a + j) \div (P * P) = a \div (P * P)
  BY <1>1, DivWithin
<1>5. (a + j) \div (P * P * P) = a \div (P * P * P)
  <2>1. (a + j) \div (P * (P * P)) = a \div (P * (P * P))
    <3>1. PICK q \in Int : q = P * P /\ q > 0
      BY <1>2, Zenon
    <3>2. (a + j) \div (P * q) = a \div (P * q)
      <4>1. (a % P) + j < P /\ P > 0
        BY <1>1, Zenon
      <4> QED BY <3>1, <4>1, DivWithin, Zenon
    <3> QED BY <3>1, <3>2, Zenon
  <2>2. P * (P * P) = P * P * P
    BY <1>1, Z3
  <2> QED BY <2>1, <2>2, Zenon
<1>6. (a + j) % P = (a % P) + j
  <2>1. PICK q \in Int, r \in Int : q = a \div P /\ r = a % P /\ 0 <= r /\ r < P /\ a = P * q + r
    BY <1>1, ModRange
  <2>2. PICK x \in Int : x = P * q
    BY <1>1, Z3
  <2>3. a + j = P * q + (r + j) /\ r + j \in Int /\ 0 <= r + j /\ r + j < P /\ a + j \in Int
    BY <1>1, <2>1, <2>2
  <2>4. (a + j) % P = r + j
    BY <1>1, <2>1, <2>3, ModUnique
  <2> QED BY <2>1, <2>4
<1>7. page_floor(a + j) = page_floor(a)
  BY <1>1, <1>3 DEF page_floor
<1> QED BY <1>1, <1>3, <1>4, <1>5, <1>6, <1>7, Zenon DEF va_parts, PT_ENTRIES

LEMMA WalkWithin ==
  ASSUME NEW ws, NEW r, NEW a \in Nat, NEW j \in Nat, (a % PAGE_SIZE) + j < PAGE_SIZE
  PROVE  /\ walk(ws, r, a + j).flags = walk(ws, r, a).flags
         /\ EntryAt(ws, r, a + j) = EntryAt(ws, r, a)
<1>1. EntryAt(ws, r, a + j) = EntryAt(ws, r, a)
  BY Within DEF EntryAt
<1> QED BY <1>1, WalkEntry DEF None


(* A word that the process may write: the checks of walk_user_range(). *)
WritableAt(ws, r, a) ==
  /\ a < USER_VA_END
  /\ "U" \in walk(ws, r, a).flags /\ "W" \in walk(ws, r, a).flags
  /\ is_user_heap_pa(page_floor(walk(ws, r, a).phys))

LEMMA WritableWithin ==
  ASSUME NEW ws, NEW g, NEW p, NEW r, Space(ws, g, p, r), NEW a \in Nat, WritableAt(ws, r, a),
         NEW j \in Nat, (a % PAGE_SIZE) + j < PAGE_SIZE
  PROVE  /\ WritableAt(ws, r, a + j)
         /\ walk(ws, r, a).phys \in Nat /\ walk(ws, r, a + j).phys = walk(ws, r, a).phys + j
<1> DEFINE e == EntryAt(ws, r, a)
<1>1. /\ EntryAt(ws, r, a + j) = e /\ walk(ws, r, a + j).flags = walk(ws, r, a).flags
      /\ (a + j) % PAGE_SIZE = (a % PAGE_SIZE) + j /\ page_floor(a + j) = page_floor(a)
  BY Within, WalkWithin
<1>2. va_parts(a).vpn2 \in Idx /\ va_parts(a).vpn1 \in Idx /\ va_parts(a).vpn0 \in Idx
      /\ va_parts(a).offset = a % PAGE_SIZE /\ va_parts(a + j).offset = (a + j) % PAGE_SIZE
  BY Parts
<1>3. UserEntry(g, p, e)
  BY <1>2 DEF Space, EntryAt
<1> HIDE DEF e
<1>4. /\ walk(ws, r, a) =
           IF is_leaf(e) THEN [phys |-> phys_addr(e) + (a % PAGE_SIZE), flags |-> e.flags] ELSE None
      /\ walk(ws, r, a + j) =
           IF is_leaf(e) THEN [phys |-> phys_addr(e) + ((a % PAGE_SIZE) + j), flags |-> e.flags]
           ELSE None
  BY <1>1, <1>2, WalkEntry DEF e
<1>5. is_leaf(e) /\ "U" \in e.flags
  BY <1>4 DEF WritableAt, None
<1>6. PICK page \in Heap : page = phys_addr(e)
  BY <1>3, <1>5 DEF UserEntry
<1>7. page \in Nat /\ page % PAGE_SIZE = 0
  BY HeapPages DEF is_page_aligned
<1>8. PICK o \in Nat : o = a % PAGE_SIZE /\ o + j < PAGE_SIZE
  BY FloorAligned
<1>9. walk(ws, r, a).phys = page + o /\ walk(ws, r, a + j).phys = page + (o + j)
  BY <1>4, <1>5, <1>6, <1>8
<1>10. page_floor(page + o) = page_floor(page) /\ page_floor(page + (o + j)) = page_floor(page)
  <2>1. (page % PAGE_SIZE) + o < PAGE_SIZE /\ (page % PAGE_SIZE) + (o + j) < PAGE_SIZE
        /\ o + j \in Nat
    BY <1>7, <1>8, PageSize
  <2> QED BY <1>7, <2>1, Within
<1>11. a + j < USER_VA_END
  <2>1. /\ page_floor(a) \in Nat /\ is_page_aligned(page_floor(a)) /\ page_floor(a) <= a
        /\ a + j < page_floor(a) + PAGE_SIZE
    <3>1. a + j \in Nat
      OBVIOUS
    <3>2. a + j < page_floor(a + j) + PAGE_SIZE
      BY <3>1, FloorAligned
    <3> QED BY <1>1, <3>2, FloorAligned
  <2>2. USER_VA_END \in Nat /\ is_page_aligned(USER_VA_END) /\ a < USER_VA_END
    BY KvmAssumption DEF WritableAt
  <2>3. PICK f \in Nat : f = page_floor(a)
    BY <2>1
  <2>4. SUFFICES ASSUME USER_VA_END <= a + j PROVE FALSE
    BY <2>2
  <2>5. f < USER_VA_END + PAGE_SIZE /\ USER_VA_END < f + PAGE_SIZE
    BY <2>1, <2>2, <2>3, <2>4, PageSize
  <2>6. f = USER_VA_END
    BY <2>1, <2>2, <2>3, <2>5, SamePage
  <2> QED BY <2>1, <2>2, <2>3, <2>6
<1>12. /\ walk(ws, r, a).phys \in Nat
       /\ walk(ws, r, a + j).phys = walk(ws, r, a).phys + j
  <2>1. PICK x \in Nat : x = page + o /\ page + (o + j) = x + j
    BY <1>7, <1>8
  <2> QED BY <1>9, <2>1
<1> QED BY <1>1, <1>9, <1>10, <1>11, <1>12 DEF WritableAt

(* Where copied words are put, and where the words of the buffer are. *)
Covered(chunks, x) ==
  \E k \in DOMAIN chunks : x \in chunks[k].pa .. chunks[k].pa + chunks[k].len - 1
Places(ws, r, va, n) == {walk(ws, r, va + i).phys : i \in 0 .. n - 1}

(***************************************************************************)
(* The state of walk_user_range() after n turns: what it has found is the  *)
(* buffer's first words, up to the end of its n-th page; what made it fail *)
(* is a word of the buffer that the process may not write.                 *)
(***************************************************************************)
FoundFirst(ws, r, va, total, n, s) ==
  IF s.ok
  THEN /\ s.done \in 0 .. total
       /\ \A i \in 0 .. s.done - 1 : WritableAt(ws, r, va + i)
       /\ \A x : Covered(s.chunks, x) <=> x \in Places(ws, r, va, s.done)
       /\ s.done < total => page_floor(va + s.done) = page_floor(va) + n * PAGE_SIZE
  ELSE \E i \in 0 .. total - 1 : ~WritableAt(ws, r, va + i)


LEMMA TurnFindsNext ==
  ASSUME NEW ws, NEW g, NEW p, NEW r, Space(ws, g, p, r), NEW va \in Nat, va < USIZE,
         NEW total \in Nat, NEW n \in Nat, NEW s, IsFound(g, p, s), s.ok = TRUE, s.done < total,
         FoundFirst(ws, r, va, total, n, s)
  PROVE  LET new == CopyTurn(ws, r, va, total, TRUE, s) IN
         new.ok \in BOOLEAN /\ FoundFirst(ws, r, va, total, n + 1, new)
<1>1. PICK d \in Nat : d = s.done /\ d < total
  BY DEF IsFound
<1>2. PICK a \in Nat : a = va + d
  OBVIOUS
<1>3. /\ \A i \in 0 .. d - 1 : WritableAt(ws, r, va + i)
      /\ \A x : Covered(s.chunks, x) <=> x \in Places(ws, r, va, d)
      /\ page_floor(a) = page_floor(va) + n * PAGE_SIZE
  BY <1>1, <1>2 DEF FoundFirst
<1>4. wrapping(va + s.done) = a
  <2>1. a < USIZE
    <3>1. CASE d = 0
      BY <1>2, <3>1
    <3>2. CASE d > 0
      <4>1. d - 1 \in 0 .. d - 1 /\ va + (d - 1) = a - 1
        BY <1>2, <3>2
      <4>2. a - 1 < USER_VA_END
        BY <1>3, <4>1 DEF WritableAt
      <4> QED BY <4>2, KvmAssumption, PageSize
    <3> QED BY <3>1, <3>2
  <2>2. USIZE \in Int /\ USIZE > 0
    BY <2>1, KvmAssumption
  <2>3. a % USIZE = a
    <3>1. a = USIZE * 0 + a
      BY <2>2
    <3> QED BY <2>1, <2>2, <3>1, ModUnique
  <2> QED BY <1>1, <1>2, <2>3 DEF wrapping
<1>5. PICK o \in Nat : o = a % PAGE_SIZE /\ o < PAGE_SIZE /\ page_floor(a) + o = a
  <2>1. a % PAGE_SIZE \in 0 .. PAGE_SIZE - 1 /\ page_floor(a) + (a % PAGE_SIZE) = a
    BY FloorAligned
  <2>2. \A x \in 0 .. PAGE_SIZE - 1 : x \in Nat /\ x < PAGE_SIZE
    BY PageSize
  <2> QED BY <2>1, <2>2, Zenon
<1>6. PICK len \in Nat :
         /\ len = IF bytes_to_page_end(a) <= total - d THEN bytes_to_page_end(a) ELSE total - d
         /\ len >= 1 /\ o + len <= PAGE_SIZE /\ d + len <= total
         /\ d + len < total => o + len = PAGE_SIZE
  <2>1. bytes_to_page_end(a) = PAGE_SIZE - o
    BY <1>5 DEF bytes_to_page_end
  <2> QED BY <1>1, <1>5, <2>1, PageSize
<1> DEFINE chunk == [pa |-> walk(ws, r, a).phys, len |-> len]
           new == CopyTurn(ws, r, va, total, TRUE, s)
<1>7. new = IF WritableAt(ws, r, a)
            THEN [s EXCEPT !.done = @ + len, !.chunks = Append(@, chunk)]
            ELSE [s EXCEPT !.ok = FALSE]
  BY <1>1, <1>4, <1>6 DEF CopyTurn, WritableAt
<1> HIDE DEF new, chunk
<1>8. CASE ~WritableAt(ws, r, a)
  <2>1. new.ok = FALSE
    BY <1>7, <1>8 DEF IsFound
  <2>2. d \in 0 .. total - 1 /\ ~WritableAt(ws, r, va + d)
    BY <1>1, <1>2, <1>8
  <2> QED BY <2>1, <2>2 DEF FoundFirst, new
<1>9. CASE WritableAt(ws, r, a)
  <2>1. new.ok = TRUE /\ new.done = d + len /\ new.chunks = Append(s.chunks, chunk)
    BY <1>1, <1>7, <1>9 DEF IsFound
  <2>2. PICK pa \in Nat : /\ pa = walk(ws, r, a).phys
                          /\ \A j \in 0 .. len - 1 : /\ WritableAt(ws, r, a + j)
                                                     /\ walk(ws, r, a + j).phys = pa + j
    <3>1. ASSUME NEW j \in 0 .. len - 1
          PROVE  /\ WritableAt(ws, r, a + j) /\ walk(ws, r, a).phys \in Nat
                 /\ walk(ws, r, a + j).phys = walk(ws, r, a).phys + j
      <4>1. j \in Nat /\ o + j < PAGE_SIZE
        BY <1>6, PageSize
      <4>2. (a % PAGE_SIZE) + j < PAGE_SIZE
        BY <1>5, <4>1
      <4> QED BY <1>9, <4>1, <4>2, WritableWithin
    <3>2. 0 \in 0 .. len - 1
      BY <1>6
    <3> QED BY <3>1, <3>2
  <2>3. \A i \in 0 .. (d + len) - 1 : i \in 0 .. d - 1 \/ \E j \in 0 .. len - 1 : i = d + j /\ va + i = a + j
    <3> TAKE i \in 0 .. (d + len) - 1
    <3>1. CASE i >= d
      <4>1. i - d \in 0 .. len - 1 /\ i = d + (i - d) /\ va + i = a + (i - d)
        BY <1>2, <1>6, <3>1
      <4> QED BY <4>1
    <3>2. CASE i < d
      BY <3>2
    <3> QED BY <3>1, <3>2
  <2>4. \A i \in 0 .. (d + len) - 1 : WritableAt(ws, r, va + i)
    BY <1>3, <2>2, <2>3
  <2>5. \A x : x \in Places(ws, r, va, d + len)
                 <=> x \in Places(ws, r, va, d) \/ x \in pa .. pa + len - 1
    <3> TAKE x
    <3>1. ASSUME NEW i \in 0 .. (d + len) - 1, x = walk(ws, r, va + i).phys
          PROVE  x \in Places(ws, r, va, d) \/ x \in pa .. pa + len - 1
      <4>1. CASE i \in 0 .. d - 1
        BY <3>1, <4>1 DEF Places
      <4>2. ASSUME NEW j \in 0 .. len - 1, va + i = a + j
            PROVE  x \in pa .. pa + len - 1
        BY <2>2, <3>1, <4>2
      <4> QED BY <2>3, <4>1, <4>2
    <3>2. ASSUME NEW i \in 0 .. d - 1, x = walk(ws, r, va + i).phys
          PROVE  x \in Places(ws, r, va, d + len)
      <4>1. i \in 0 .. (d + len) - 1
        BY <1>6
      <4> QED BY <3>2, <4>1 DEF Places
    <3>3. ASSUME x \in pa .. pa + len - 1
          PROVE  x \in Places(ws, r, va, d + len)
      <4>1. PICK j \in 0 .. len - 1 : x = pa + j
        <5>1. x - pa \in 0 .. len - 1 /\ x = pa + (x - pa)
          BY <3>3
        <5> QED BY <5>1
      <4>2. d + j \in 0 .. (d + len) - 1 /\ va + (d + j) = a + j
        BY <1>2
      <4>3. x = walk(ws, r, va + (d + j)).phys
        BY <2>2, <4>1, <4>2
      <4> QED BY <4>2, <4>3 DEF Places
    <3> QED BY <3>1, <3>2, <3>3 DEF Places
  <2>6. \A x : Covered(new.chunks, x) <=> Covered(s.chunks, x) \/ x \in pa .. pa + len - 1
    <3>1. PICK m \in Nat : m = Len(s.chunks) /\ DOMAIN s.chunks = 1 .. m
      BY LenProperties DEF IsFound
    <3>2. /\ DOMAIN new.chunks = 1 .. m + 1 /\ new.chunks[m + 1] = chunk
          /\ \A k \in 1 .. m : new.chunks[k] = s.chunks[k]
      <4>1. chunk \in {chunk} \cup Chunks(g, p) /\ s.chunks \in Seq({chunk} \cup Chunks(g, p))
        BY <3>1, ElementOfSeq, LenProperties, SeqDef DEF IsFound
      <4> QED BY <2>1, <3>1, <4>1, AppendProperties
    <3>3. chunk.pa = pa /\ chunk.len = len
      BY <2>2 DEF chunk
    <3>4. ASSUME NEW k \in 1 .. m + 1 PROVE k \in 1 .. m \/ k = m + 1
      OBVIOUS
    <3>5. \A k \in 1 .. m : k \in 1 .. m + 1
      OBVIOUS
    <3>6. m + 1 \in 1 .. m + 1
      OBVIOUS
    <3> QED BY <3>1, <3>2, <3>3, <3>4, <3>5, <3>6, Zenon DEF Covered
  <2>7. d + len < total => page_floor(va + (d + len)) = page_floor(va) + (n + 1) * PAGE_SIZE
    <3>1. SUFFICES ASSUME d + len < total
                   PROVE  page_floor(va + (d + len)) = page_floor(va) + (n + 1) * PAGE_SIZE
      OBVIOUS
    <3>2. PICK b \in Nat : b = page_floor(va) /\ is_page_aligned(b)
      BY FloorAligned
    <3>3. b + (n + 1) * PAGE_SIZE \in Nat /\ is_page_aligned(b + (n + 1) * PAGE_SIZE)
      <4>1. n + 1 \in Nat
        OBVIOUS
      <4> QED BY <3>2, <4>1, AlignedPlus
    <3>4. PICK t \in Int : t = n * PAGE_SIZE /\ (n + 1) * PAGE_SIZE = t + PAGE_SIZE
      BY PageSize, Z3
    <3>5. page_floor(a) = b + t
      BY <1>3, <3>2, <3>4, Zenon
    <3>6. va + (d + len) = b + (t + PAGE_SIZE)
      <4>1. a = (b + t) + o
        BY <1>5, <3>5, Zenon
      <4>2. o + len = PAGE_SIZE
        BY <1>6, <3>1
      <4> QED BY <1>2, <3>2, <4>1, <4>2, PageSize
    <3>7. va + (d + len) = b + (n + 1) * PAGE_SIZE
      BY <3>4, <3>6, Zenon
    <3> QED BY <3>2, <3>3, <3>7, Aligned
  <2>8. d + len \in 0 .. total
    BY <1>6
  <2> QED BY <1>3, <2>1, <2>4, <2>5, <2>6, <2>7, <2>8 DEF FoundFirst, new
<1> QED BY <1>8, <1>9


(* A buffer that starts at a machine address and touches at most MAX_COPY_CHUNKS pages. *)
Fits(va, total) ==
  va < USIZE /\ va + total <= page_floor(va) + MAX_COPY_CHUNKS * PAGE_SIZE

LEMMA RangeFindsAll ==
  ASSUME NEW ws, NEW g, NEW p, NEW r, Space(ws, g, p, r), NEW va \in Nat, NEW total \in Nat,
         Fits(va, total)
  PROVE  LET found == walk_user_range(ws, r, va, total, TRUE) IN
         /\ found.ok <=> \A i \in 0 .. total - 1 : WritableAt(ws, r, va + i)
         /\ found.ok => \A x : Covered(found.chunks, x) <=> x \in Places(ws, r, va, total)
<1> DEFINE N == MAX_COPY_CHUNKS
           turn(x) == CopyTurn(ws, r, va, total, TRUE, x)
           start == [done |-> 0, chunks |-> <<>>, ok |-> TRUE]
           w == CHOOSE f : f = [n \in 0 .. N |->
                  IF n = 0 THEN start
                  ELSE IF f[n - 1].ok /\ f[n - 1].done < total THEN turn(f[n - 1])
                  ELSE f[n - 1]]
           Good(n, x) == IsFound(g, p, x) /\ x.ok \in BOOLEAN /\ FoundFirst(ws, r, va, total, n, x)
           T == {n \in 0 .. N : Good(n, w[n])}
           l == CopyLoop(ws, r, va, total, TRUE)
           found == walk_user_range(ws, r, va, total, TRUE)
<1>1. N \in Nat
  BY KvmAssumption
<1>2. found.ok = (w[N].ok /\ w[N].done >= total) /\ found.chunks = w[N].chunks
  BY DEF walk_user_range, CopyTurn
<1>3. \A x, k : Turn(l, x, k) = IF x.ok /\ x.done < total THEN turn(x) ELSE x
  BY DEF Turn, CopyLoop
<1>4. Good(0, start)
  <2>1. IsFound(g, p, start) /\ start.ok = TRUE /\ start.done = 0 /\ start.chunks = <<>>
    BY DEF IsFound
  <2>2. \A x : ~Covered(start.chunks, x) /\ x \notin Places(ws, r, va, 0)
    BY <2>1 DEF Covered, Places
  <2>3. page_floor(va + 0) = page_floor(va) + 0 * PAGE_SIZE
    <3>1. page_floor(va) \in Nat /\ va + 0 = va
      BY FloorAligned
    <3>2. 0 * PAGE_SIZE = 0
      BY PageSize
    <3> QED BY <3>1, <3>2
  <2> HIDE DEF start
  <2>4. start.done \in 0 .. total /\ \A i \in 0 .. start.done - 1 : WritableAt(ws, r, va + i)
    <3>1. 0 \in 0 .. total /\ \A i \in 0 .. 0 - 1 : FALSE
      OBVIOUS
    <3> QED BY <2>1, <3>1, Zenon
  <2>5. \A x : Covered(start.chunks, x) <=> x \in Places(ws, r, va, start.done)
    BY <2>1, <2>2, Zenon
  <2>6. page_floor(va + start.done) = page_floor(va) + 0 * PAGE_SIZE
    BY <2>1, <2>3, Zenon
  <2>7. FoundFirst(ws, r, va, total, 0, start)
    BY <2>1, <2>4, <2>5, <2>6, Zenon DEF FoundFirst
  <2> QED BY <2>1, <2>7
<1>5. ASSUME NEW n \in Nat, NEW x, Good(n, x), x.ok, x.done < total
      PROVE  Good(n + 1, turn(x))
  <2>1. x.ok = TRUE
    BY <1>5
  <2> QED BY <1>5, <2>1, CopyTurnFinds, TurnFindsNext DEF Fits
<1>6. ASSUME NEW n \in Nat, NEW x, Good(n, x), ~(x.ok /\ x.done < total)
      PROVE  Good(n + 1, x)
  BY <1>6 DEF FoundFirst
<1> HIDE DEF l, N, turn, start, found
<1>7. w = [n \in 0 .. N |-> IF n = 0 THEN start
                            ELSE IF w[n - 1].ok /\ w[n - 1].done < total THEN turn(w[n - 1])
                            ELSE w[n - 1]]
  <2>1. PICK f : Turns(l, start, N, f)
    BY <1>1, TurnsExist
  <2>2. f = [n \in 0 .. N |-> IF n = 0 THEN start
                              ELSE IF f[n - 1].ok /\ f[n - 1].done < total THEN turn(f[n - 1])
                              ELSE f[n - 1]]
    BY <1>3, <2>1 DEF Turns
  <2> QED BY <2>2
<1> HIDE DEF w, Good
<1>8. 0 \in T
  <2>1. w[0] = start /\ 0 \in 0 .. N
    BY <1>1, <1>7
  <2> QED BY <1>4, <2>1
<1>9. ASSUME NEW k \in 0 .. N - 1, k \in T
      PROVE  k + 1 \in T
  <2>1. k + 1 \in 0 .. N /\ k + 1 # 0 /\ (k + 1) - 1 = k /\ k \in Nat
    BY <1>1
  <2>2. w[k + 1] = IF w[k].ok /\ w[k].done < total THEN turn(w[k]) ELSE w[k]
    BY <1>7, <2>1
  <2>3. Good(k, w[k])
    BY <1>9
  <2> QED BY <1>5, <1>6, <2>1, <2>2, <2>3
<1> HIDE DEF T
<1>10. Good(N, w[N])
  <2>1. 0 .. N \subseteq T
    BY <1>1, <1>8, <1>9, Upward
  <2> QED BY <1>1, <2>1 DEF T
<1>11. CASE w[N].ok = FALSE
  BY <1>2, <1>10, <1>11 DEF Good, FoundFirst, found
<1>12. CASE w[N].ok = TRUE
  <2>1. /\ w[N].done \in 0 .. total
        /\ \A i \in 0 .. w[N].done - 1 : WritableAt(ws, r, va + i)
        /\ \A x : Covered(w[N].chunks, x) <=> x \in Places(ws, r, va, w[N].done)
        /\ w[N].done < total => page_floor(va + w[N].done) = page_floor(va) + N * PAGE_SIZE
    BY <1>10, <1>12 DEF Good, FoundFirst
  <2>2. w[N].done = total
    <3>1. SUFFICES ASSUME w[N].done < total PROVE FALSE
      BY <2>1
    <3>2. PICK d \in Nat : d = w[N].done /\ d < total
      BY <2>1, <3>1
    <3>3. PICK e \in Nat : e = page_floor(va + d) /\ e <= va + d
      <4>1. va + d \in Nat
        OBVIOUS
      <4> QED BY <4>1, FloorAligned
    <3>4. va + total <= e
      BY <2>1, <3>1, <3>2, <3>3 DEF Fits, N
    <3> QED BY <3>2, <3>3, <3>4
  <2>3. found.ok
    <3>1. total >= total
      OBVIOUS
    <3> QED BY <1>2, <1>12, <2>2, <3>1, Zenon
  <2>4. \A i \in 0 .. total - 1 : WritableAt(ws, r, va + i)
    BY <2>1, <2>2, Zenon
  <2>5. \A x : Covered(found.chunks, x) <=> x \in Places(ws, r, va, total)
    BY <1>2, <2>1, <2>2, Zenon
  <2> QED BY <2>3, <2>4, <2>5, Zenon DEF found
<1> QED BY <1>10, <1>11, <1>12 DEF Good

(* copy_to_user() writes the words of its chunks and no other. *)
LEMMA CopyReads ==
  ASSUME NEW ws, IsMem(ws), NEW chunks, NEW d, NEW page \in Heap, NEW j \in 0 .. PAGE_SIZE - 1
  PROVE  read_pte(copy_to_user(ws, chunks, d), page, j) =
           IF Covered(chunks, page + j) THEN data(d) ELSE read_pte(ws, page, j)
<1> DEFINE new == copy_to_user(ws, chunks, d)
           Hit == {i \in 0 .. PAGE_SIZE - 1 : Covered(chunks, page + i)}
<1>1. DOMAIN ws = Heap
  BY DEF IsMem
<1>2. new[page] = [i \in DOMAIN ws[page] \cup Hit |->
                     IF i \in Hit THEN data(d) ELSE ws[page][i]]
  BY <1>1 DEF copy_to_user, Covered
<1>3. j \in Hit <=> Covered(chunks, page + j)
  OBVIOUS
<1> HIDE DEF Hit, new
<1> QED BY <1>2, <1>3 DEF read_pte, new

LEMMA CopyLemma ==
  ASSUME IInv, NEW range \in CopyRanges, Fits(range.va, range.len), Ecall, copy_out(range)
  PROVE  LET Target(i) == translate_user(mem, root[current], range.va + i)
             writable == \A i \in 0 .. range.len - 1 : "W" \in Target(i).flags
             targets == {Target(i).phys : i \in 0 .. range.len - 1}
         IN IF writable
            THEN \A page \in Heap : \A j \in 0 .. PAGE_SIZE - 1 :
                   read_pte(mem', page, j) =
                     IF page + j \in targets THEN data(current) ELSE read_pte(mem, page, j)
            ELSE a0' = ERR /\ mem' = mem
<1> DEFINE r == root[current]
           Target(i) == translate_user(mem, r, range.va + i)
           writable == \A i \in 0 .. range.len - 1 : "W" \in Target(i).flags
           targets == {Target(i).phys : i \in 0 .. range.len - 1}
           found == walk_user_range(mem, r, range.va, range.len, TRUE)
<1>1. PICK g : Assigned(g)
  BY DEF IInv
<1>2. current \in Spaces
  BY DEF Ecall, IInv, Slots
<1>3. IsMem(mem) /\ Space(mem, g, current, r) /\ range.va \in Nat /\ range.len \in Nat
  BY <1>1, <1>2, MemoryAssumption DEF Assigned
<1>4. /\ found.ok <=> \A i \in 0 .. range.len - 1 : WritableAt(mem, r, range.va + i)
      /\ found.ok => \A x : Covered(found.chunks, x) <=> x \in Places(mem, r, range.va, range.len)
  BY <1>3, RangeFindsAll
<1>5. \A i : "W" \in Target(i).flags <=> WritableAt(mem, r, range.va + i)
  BY DEF translate_user, WritableAt, None
<1>6. \A i : WritableAt(mem, r, range.va + i) => Target(i).phys = walk(mem, r, range.va + i).phys
  BY DEF translate_user, WritableAt
<1>7. \/ found.ok /\ mem' = copy_to_user(mem, found.chunks, current)
      \/ ~found.ok /\ a0' = ERR /\ mem' = mem
  BY DEF copy_out, return
<1> HIDE DEF found, Target, r
<1>8. CASE writable
  <2>1. found.ok
    BY <1>4, <1>5, <1>8
  <2>2. targets = Places(mem, r, range.va, range.len)
    BY <1>5, <1>6, <1>8 DEF Places
  <2>3. mem' = copy_to_user(mem, found.chunks, current)
    BY <1>7, <2>1
  <2> HIDE DEF targets
  <2>4. ASSUME NEW page \in Heap, NEW j \in 0 .. PAGE_SIZE - 1
        PROVE  read_pte(mem', page, j) =
                 IF page + j \in targets THEN data(current) ELSE read_pte(mem, page, j)
    <3>1. Covered(found.chunks, page + j) <=> page + j \in targets
      BY <1>4, <2>1, <2>2
    <3>2. read_pte(copy_to_user(mem, found.chunks, current), page, j) =
            IF Covered(found.chunks, page + j) THEN data(current) ELSE read_pte(mem, page, j)
      BY <1>3, CopyReads
    <3> QED BY <2>3, <3>1, <3>2
  <2> QED BY <1>8, <2>4 DEF targets, Target, r
<1>9. CASE ~writable
  <2>1. ~found.ok
    BY <1>4, <1>5, <1>9
  <2> QED BY <1>7, <1>9, <2>1 DEF Target, r
<1> QED BY <1>8, <1>9

(***************************************************************************)
(* copy_to_user() writes every word of a buffer of at most MAX_COPY_CHUNKS *)
(* pages and nothing else, or, when the process may not write one of its   *)
(* words, nothing at all: for every page size, page table and buffer,      *)
(* among processes that keep to their own pages.                           *)
(***************************************************************************)
THEOREM CopiesAllOrNothing ==
  ASSUME KeepToOwnPages, \A range \in CopyRanges : Fits(range.va, range.len)
  PROVE  Spec => CopyIsAllOrNothing
<1> DEFINE Copied(range) ==
             LET Target(i) == translate_user(mem, root[current], range.va + i)
                 writable == \A i \in 0 .. range.len - 1 : "W" \in Target(i).flags
                 targets == {Target(i).phys : i \in 0 .. range.len - 1}
             IN IF writable
                THEN \A page \in Heap : \A j \in 0 .. PAGE_SIZE - 1 :
                       read_pte(mem', page, j) =
                         IF page + j \in targets THEN data(current) ELSE read_pte(mem, page, j)
                ELSE a0' = ERR /\ mem' = mem
<1>1. IInv => \A range \in CopyRanges :
                 a0' \in {range.len, ERR} /\ Ecall /\ copy_out(range) => Copied(range)
  <2>1. ASSUME IInv, NEW range \in CopyRanges, Ecall, copy_out(range)
        PROVE  Copied(range)
    BY <2>1, CopyLemma
  <2> QED BY <2>1
<1> QED BY <1>1, Inductive, PTL DEF CopyIsAllOrNothing

(***************************************************************************)
(* What the process a file becomes reads.  Every address of a segment is   *)
(* on a page that load() adds for it.                                      *)
(***************************************************************************)
LEMMA SegmentCovered ==
  ASSUME NEW seg \in Segment, NEW i \in 0 .. seg.memsz - 1
  PROVE  page_floor(seg.vaddr + i) \in SegPages(seg)
<1> DEFINE n == pages_needed(seg.memsz, seg.vaddr)
           first == page_floor(seg.vaddr)
           end == seg.vaddr + seg.memsz
           last == page_floor(end + PAGE_SIZE - 1)
           f == page_floor(seg.vaddr + i)
<1>1. /\ seg.vaddr \in Nat /\ seg.memsz \in Nat /\ end <= USER_VA_END
  BY DEF Segment
<1>2. i \in Nat /\ i < seg.memsz /\ seg.vaddr + i \in Nat
  BY <1>1
<1>3. USER_VA_END \in Nat /\ USER_VA_END + PAGE_SIZE <= USIZE /\ USIZE \in Nat
  BY KvmAssumption
<1>4. \A x \in Nat : x < USIZE => wrapping(x) = x
  BY <1>3, ModUnique DEF wrapping
<1>5. end \in Nat /\ end + PAGE_SIZE - 1 \in Nat /\ end < USIZE /\ end + PAGE_SIZE - 1 < USIZE
  BY <1>3, <1>1, PageSize
<1>6. n = (last - first) \div PAGE_SIZE
  BY <1>4, <1>5 DEF pages_needed
<1>7. first \in Nat /\ first <= seg.vaddr /\ is_page_aligned(first)
  BY <1>1, FloorAligned
<1>8. last \in Nat /\ end + PAGE_SIZE - 1 < last + PAGE_SIZE /\ is_page_aligned(last)
  BY <1>5, FloorAligned
<1>9. f \in Nat /\ f <= seg.vaddr + i /\ seg.vaddr + i < f + PAGE_SIZE /\ is_page_aligned(f)
  BY <1>2, FloorAligned
<1> HIDE DEF first, last, f
<1>10. first <= f
  <2>1. first < f + PAGE_SIZE
    BY <1>1, <1>2, <1>7, <1>9, PageSize
  <2> QED BY <1>7, <1>9, <2>1, AlignedOrder
<1>11. f < last
  BY <1>1, <1>2, <1>5, <1>8, <1>9, PageSize
<1>12. n \in Nat /\ first + n * PAGE_SIZE = last
  BY <1>6, <1>7, <1>8, <1>9, <1>10, <1>11, PageCount
<1>13. PICK k \in Nat : first + k * PAGE_SIZE = f
  BY <1>7, <1>9, <1>10, PageCount
<1> HIDE DEF n
<1>14. k < n
  <2>1. SUFFICES ASSUME n <= k PROVE FALSE
    BY <1>12
  <2>2. n * PAGE_SIZE <= k * PAGE_SIZE
    BY <1>12, <2>1, PageSize, Z3
  <2>3. PICK x \in Nat, y \in Nat : x = n * PAGE_SIZE /\ y = k * PAGE_SIZE
    BY <1>12, Multiples
  <2> QED BY <1>7, <1>8, <1>9, <1>11, <1>12, <1>13, <2>2, <2>3
<1>15. k + 1 \in 1 .. n /\ (k + 1) - 1 = k
  BY <1>12, <1>14
<1>16. f = first + ((k + 1) - 1) * PAGE_SIZE
  BY <1>13, <1>15
<1> QED BY <1>15, <1>16, Zenon DEF SegPages, FirstPages, n, first, f

(* A word of a page that a process sees is the one it reads there. *)
LEMMA ShownWord ==
  ASSUME NEW ws, NEW g, NEW p, NEW r, Space(ws, g, p, r), NEW a \in Nat, a < USER_VA_END,
         NEW words, PageShown(ws, r, page_floor(a), words)
  PROVE  LET t == translate_user(ws, r, a) IN
         t # None /\ read_pte(ws, page_floor(t.phys), t.phys % PAGE_SIZE) = words[a % PAGE_SIZE]
<1> DEFINE e == EntryAt(ws, r, a)
           t == translate_user(ws, r, a)
<1>1. PICK o \in Nat : /\ o = a % PAGE_SIZE /\ o < PAGE_SIZE
                      /\ page_floor(a) \in Nat /\ page_floor(a) + o = a
  <2>1. /\ page_floor(a) \in Nat /\ page_floor(a) + (a % PAGE_SIZE) = a
        /\ a % PAGE_SIZE \in 0 .. PAGE_SIZE - 1
    BY FloorAligned
  <2>2. PICK o \in 0 .. PAGE_SIZE - 1 : o = a % PAGE_SIZE
    BY <2>1
  <2>3. o \in Nat /\ o < PAGE_SIZE
    BY PageSize
  <2> QED BY <2>1, <2>2, <2>3
<1>2. page_floor(a) % PAGE_SIZE = 0
  BY FloorAligned DEF is_page_aligned
<1>3. e = EntryAt(ws, r, page_floor(a))
  <2>1. (page_floor(a) % PAGE_SIZE) + o < PAGE_SIZE
    BY <1>1, <1>2
  <2>2. EntryAt(ws, r, page_floor(a) + o) = EntryAt(ws, r, page_floor(a))
    BY <1>1, <2>1, WalkWithin
  <2> QED BY <1>1, <2>2
<1>4. "U" \in e.flags /\ words = PageWords(ws, phys_addr(e))
  BY <1>3 DEF PageShown, ForUser, View
<1>5. UserEntry(g, p, e)
  BY Parts DEF Space, EntryAt
<1>6. is_leaf(e) /\ phys_addr(e) \in Heap
  BY <1>4, <1>5 DEF UserEntry
<1>7. walk(ws, r, a) = [phys |-> phys_addr(e) + o, flags |-> e.flags]
  BY <1>1, <1>6, WalkEntry, Parts
<1> HIDE DEF e
<1>8. PICK page \in Heap : page = phys_addr(e)
  BY <1>6
<1>9. page \in Nat /\ page % PAGE_SIZE = 0 /\ page_floor(page) = page /\ is_user_heap_pa(page)
  <2>1. page \in Nat /\ is_page_aligned(page) /\ page >= base_addr
        /\ page + PAGE_SIZE <= page_addr(total_pages)
    BY HeapPages
  <2>2. page % PAGE_SIZE = 0
    BY <2>1 DEF is_page_aligned
  <2>3. page_floor(page) = page
    BY <2>1, <2>2, FloorAligned
  <2>4. page_addr(total_pages) \in Nat /\ base_addr \in Nat
    BY HeapPages, PageAllocAssumption
  <2>5. page < page_addr(total_pages)
    BY <2>1, <2>4, PageSize
  <2> QED BY <2>1, <2>2, <2>3, <2>5 DEF is_user_heap_pa
<1>10. (page + o) % PAGE_SIZE = o /\ page_floor(page + o) = page
  <2>1. (page % PAGE_SIZE) + o < PAGE_SIZE /\ (page % PAGE_SIZE) + o = o
    BY <1>1, <1>9
  <2> QED BY <1>9, <2>1, Within
<1>11. t = [phys |-> page + o, flags |-> e.flags]
  BY <1>4, <1>7, <1>8, <1>9, <1>10 DEF translate_user
<1>12. t # None
  BY <1>4, <1>11 DEF None
<1>13. words[o] = read_pte(ws, page, o)
  <2>1. o \in Idx
    BY <1>1, PageSize DEF Idx
  <2> QED BY <1>4, <1>8, <2>1 DEF PageWords
<1> HIDE DEF t
<1> QED BY <1>1, <1>10, <1>11, <1>12, <1>13 DEF t

(***************************************************************************)
(* What load() needs of a file besides what parse() checks: the data of a  *)
(* segment is in the file without a wrap of usize, and no two of its       *)
(* segments share a page with each other or with the stack.  The linker    *)
(* scripts of userspace put every section on a page of its own.            *)
(***************************************************************************)
WellFormed(image) ==
  /\ Separate(image)
  /\ image.len \in Nat
  /\ \A k \in 1 .. Len(segments(image)) :
       segments(image)[k].offset + segments(image)[k].filesz <= image.len

LEMMA FileWord ==
  ASSUME NEW image, image.len \in Nat, NEW seg \in Segment, seg.offset + seg.filesz <= image.len,
         NEW i \in Nat
  PROVE  SegWord(image, seg, seg.vaddr + i) =
           IF i < seg.filesz THEN data(seg.offset + i + 1) ELSE INVALID
<1>1. seg.vaddr \in Nat /\ seg.offset \in Nat /\ seg.filesz \in Nat
  BY DEF Segment
<1>2. seg.vaddr <= seg.vaddr + i /\ (seg.vaddr + i) - seg.vaddr = i
  BY <1>1
<1>3. seg.vaddr + i < seg.vaddr + seg.filesz <=> i < seg.filesz
  BY <1>1
<1>4. i < seg.filesz => word_at(image, seg.offset + i) = data(seg.offset + i + 1)
  <2>1. i < seg.filesz => seg.offset + i < image.len
    BY <1>1
  <2> QED BY <2>1 DEF word_at
<1> QED BY <1>2, <1>3, <1>4 DEF SegWord

LEMMA SpawnLemma ==
  ASSUME IInv, NEW image \in Images, parse(image) = "Ok" => WellFormed(image),
         ~(live' \subseteq live), sys_spawn(image)
  PROVE  \A seg \in {segments(image)[k] : k \in DOMAIN segments(image)} :
           \A i \in 0 .. seg.memsz - 1 :
             user_word(a0, seg.vaddr + i)' =
               IF i < seg.filesz THEN data(seg.offset + i + 1) ELSE INVALID
<1>1. PICK g : Assigned(g)
  BY DEF IInv
<1>2. ~return(ERR)
  BY DEF return
<1>3. PICK new, pid :
         /\ parse(image) = "Ok" /\ PIDs \ live # {} /\ new = load(memory, image)
         /\ pid = Least(PIDs \ live) /\ commit(new)
         /\ IF new.panic = "no"
            THEN root' = [root EXCEPT ![pid] = new.root] /\ live' = live \cup {pid} /\ a0' = pid
            ELSE UNCHANGED <<root, live, a0>>
  BY <1>2 DEF sys_spawn
<1>4. new.panic = "no" /\ mem' = new.mem
  BY <1>3 DEF commit
<1>5. root'[a0'] = new.root
  <2>1. pid \in PIDs
    <3>1. PIDs \ live \subseteq Nat
      BY DEF PIDs
    <3> QED BY <1>3, <3>1, LeastLemma
  <2>2. DOMAIN root = 0 .. MAX_PROCS - 1
    BY DEF IInv, Slots
  <2>3. pid \in DOMAIN root
    BY <2>1, <2>2, MemoryAssumption DEF PIDs
  <2> QED BY <1>3, <1>4, <2>3
<1>6. PICK h : /\ Built(memory, g, new, h, pid)
               /\ Separate(image) => ImageShown(new, image, Len(segments(image)))
  <2>1. Base(memory, g)
    BY <1>1, MemoryMachine
  <2> QED BY <1>3, <2>1, LoadBuilds
<1>7. Space(mem', h, pid, root'[a0'])
  BY <1>4, <1>5, <1>6 DEF Built
<1>8. WellFormed(image)
  BY <1>3
<1>9. segments(image) \in Seq(Segment)
  BY MemoryAssumption
<1> SUFFICES ASSUME NEW k \in DOMAIN segments(image), NEW i \in 0 .. segments(image)[k].memsz - 1
             PROVE  user_word(a0, segments(image)[k].vaddr + i)' =
                      IF i < segments(image)[k].filesz
                      THEN data(segments(image)[k].offset + i + 1) ELSE INVALID
  OBVIOUS
<1>10. PICK seg \in Segment : seg = segments(image)[k]
  BY <1>9, ElementOfSeq, LenProperties
<1>11. /\ k \in 1 .. Len(segments(image))
       /\ seg.offset + seg.filesz <= image.len /\ image.len \in Nat
  <2>1. k \in 1 .. Len(segments(image))
    BY <1>9, LenProperties
  <2> QED BY <1>8, <1>10, <2>1 DEF WellFormed
<1>12. i \in Nat /\ seg.vaddr + i \in Nat /\ seg.vaddr + i < USER_VA_END
  BY <1>10, KvmAssumption DEF Segment
<1>13. PICK a \in Nat : a = seg.vaddr + i
  BY <1>12
<1>14. PageShown(mem', root'[a0'], page_floor(a), SegWords(image, seg, page_floor(a)))
  <2>1. page_floor(a) \in SegPages(seg)
    BY <1>10, <1>13, SegmentCovered
  <2> QED BY <1>4, <1>5, <1>6, <1>8, <1>10, <1>11, <2>1 DEF ImageShown, WellFormed
<1>15. user_word(a0, a)' = SegWords(image, seg, page_floor(a))[a % PAGE_SIZE]
  BY <1>7, <1>12, <1>13, <1>14, ShownWord DEF user_word
<1>16. SegWords(image, seg, page_floor(a))[a % PAGE_SIZE] = SegWord(image, seg, a)
  <2>1. a % PAGE_SIZE \in Idx /\ page_floor(a) + (a % PAGE_SIZE) = a
    BY FloorAligned DEF Idx
  <2> QED BY <2>1 DEF SegWords
<1>17. SegWord(image, seg, a) = IF i < seg.filesz THEN data(seg.offset + i + 1) ELSE INVALID
  BY <1>11, <1>12, <1>13, FileWord
<1> QED BY <1>10, <1>13, <1>15, <1>16, <1>17

(***************************************************************************)
(* A process that SYS_SPAWN starts reads every word of its file's segments *)
(* where their headers put it, then zeros up to memsz: for every page      *)
(* size, memory and file whose data is in it and whose segments share no   *)
(* page.  Where two share one, load() maps it twice, and the later map     *)
(* hides the words of the earlier segment.  Processes keep to their own    *)
(* pages, as above.                                                        *)
(***************************************************************************)
THEOREM SpawnLoadsFile ==
  ASSUME KeepToOwnPages, \A image \in Images : parse(image) = "Ok" => WellFormed(image)
  PROVE  Spec => SpawnLoadsImage
<1> DEFINE Loaded(image) ==
             \A seg \in {segments(image)[k] : k \in DOMAIN segments(image)} :
               \A i \in 0 .. seg.memsz - 1 :
                 user_word(a0, seg.vaddr + i)' =
                   IF i < seg.filesz THEN data(seg.offset + i + 1) ELSE INVALID
<1>1. IInv => \A image \in Images : ~(live' \subseteq live) /\ sys_spawn(image) => Loaded(image)
  <2>1. ASSUME IInv, NEW image \in Images, ~(live' \subseteq live), sys_spawn(image)
        PROVE  Loaded(image)
    BY <2>1, SpawnLemma
  <2> QED BY <2>1
<1> QED BY <1>1, Inductive, PTL DEF SpawnLoadsImage

=============================================================================
