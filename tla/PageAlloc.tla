----------------------------- MODULE PageAlloc -----------------------------
(***************************************************************************)
(* The bitmap page allocator of kernel/src/page_alloc.rs.  Its state is a  *)
(* `bitmap`, given as the set of page indices whose bit is set; the        *)
(* operators below take it as a parameter.  Addresses count words of eight *)
(* bytes, the size of a page-table entry.                                  *)
(***************************************************************************)
EXTENDS Integers, FiniteSets

CONSTANTS
  PAGE_SIZE,    \* words per page
  WORD_BITS,    \* bits per word of the bitmap: 64
  base_addr,    \* address of the first page
  total_pages   \* pages between _end and _heap_end

ASSUME PageAllocAssumption ==
  /\ PAGE_SIZE \in Nat /\ PAGE_SIZE >= 2 /\ WORD_BITS \in Nat \ {0}
  /\ base_addr \in Nat \ {0} /\ base_addr % PAGE_SIZE = 0
  /\ total_pages \in Nat \ {0}

page_idx(addr) == (addr - base_addr) \div PAGE_SIZE
page_addr(idx) == base_addr + idx * PAGE_SIZE
Heap == {page_addr(i) : i \in 0 .. total_pages - 1}

(* Mutant of words_used: the division rounds down. *)
words_used_rounded_down == total_pages \div WORD_BITS

(* How many words of the bitmap are in use. *)
words_used == (total_pages + WORD_BITS - 1) \div WORD_BITS

(* The zero bits of one word, and the words that are not u64::MAX. *)
ZeroBits(bitmap, word) == {b \in 0 .. WORD_BITS - 1 : word * WORD_BITS + b \notin bitmap}
OpenWords(bitmap) == {w \in 0 .. words_used - 1 : ZeroBits(bitmap, w) # {}}

Least(set) == CHOOSE n \in set : \A k \in set : n <= k

(* The first zero bit of the first word that has one. *)
FirstZero(bitmap) ==
  LET word == Least(OpenWords(bitmap))
  IN word * WORD_BITS + Least(ZeroBits(bitmap, word))

(***************************************************************************)
(* alloc(): the index it returns, and when it returns one.  The bits of    *)
(* the last word beyond total_pages are zero as well, so the bit found may *)
(* be past the end: that is OutOfMemory.                                   *)
(***************************************************************************)
CanAlloc(bitmap) == OpenWords(bitmap) # {} /\ FirstZero(bitmap) < total_pages
alloc(bitmap) == FirstZero(bitmap)

is_allocated(bitmap, addr) ==
  /\ addr % PAGE_SIZE = 0 /\ addr >= base_addr
  /\ page_idx(addr) < total_pages
  /\ page_idx(addr) \in bitmap

(* What free() returns, and the bitmap it leaves when that is Ok. *)
free(bitmap, addr) ==
  CASE addr % PAGE_SIZE # 0 -> "NotAligned"
    [] addr % PAGE_SIZE = 0 /\ (addr < base_addr \/ page_idx(addr) >= total_pages)
         -> "InvalidAddress"
    [] OTHER -> IF page_idx(addr) \in bitmap THEN "Ok" ELSE "DoubleFree"

(* Mutant of freed: the bit is cleared in the first word. *)
freed_first_word(bitmap, addr) ==
  IF free(bitmap, addr) = "Ok" THEN bitmap \ {page_idx(addr) % WORD_BITS} ELSE bitmap

freed(bitmap, addr) ==
  IF free(bitmap, addr) = "Ok" THEN bitmap \ {page_idx(addr)} ELSE bitmap

allocated_count(bitmap) == Cardinality(bitmap)
free_count(bitmap) == total_pages - allocated_count(bitmap)

============================================================================
