-------------------------------- MODULE Kvm --------------------------------
(***************************************************************************)
(* Building and reading address spaces: kernel/src/kvm.rs.  The operators  *)
(* thread a memory m through a handler: m.bitmap of the page allocator,    *)
(* m.mem, the words of the heap's pages by page address, m.root, the page  *)
(* table that is worked on, m.page, the page found or allocated last, and  *)
(* m.panic, whether the handler has panicked (then nothing changes more).  *)
(***************************************************************************)
EXTENDS PageTable, Elf

CONSTANTS
  KernelRegions,    \* the identity-mapped regions, a sequence of [start, end, flags]
  USER_VA_START,    \* 0x5000_0000
  USER_VA_END,      \* 0x8000_0000, also USER_VA_MAX
  STACK_VA,         \* 0x7FFF_0000
  MAX_COPY_CHUNKS   \* 32

(* security.rs: the checks on addresses. *)
is_page_aligned(addr) == addr % PAGE_SIZE = 0

is_user_va(va) == va >= USER_VA_START /\ va < USER_VA_END

is_user_heap_pa(pa) == pa >= base_addr /\ pa < page_addr(total_pages)

(* The virtual addresses that three table indices and an offset tell apart. *)
VaLimit == PAGE_SIZE * PT_ENTRIES * PT_ENTRIES * PT_ENTRIES

(* Where the last page of a region ends. *)
region_end(r) == page_floor(r.end + PAGE_SIZE - 1)

(***************************************************************************)
(* The memory layout (linker.ld, platform.rs): every address is within the *)
(* 39 bits of Sv39; the kernel's regions start on page boundaries, share   *)
(* no page with each other or with user addresses, and are not for user    *)
(* mode.                                                                   *)
(***************************************************************************)
ASSUME KvmAssumption ==
  /\ USIZE \in Nat
  /\ USER_VA_START \in Nat /\ USER_VA_END \in Nat
  /\ USER_VA_END <= VaLimit /\ USER_VA_END + PAGE_SIZE <= USIZE
  /\ is_page_aligned(USER_VA_START) /\ is_page_aligned(USER_VA_END)
  /\ STACK_VA \in Nat /\ is_page_aligned(STACK_VA) /\ is_user_va(STACK_VA)
  /\ page_addr(total_pages) <= VaLimit
  /\ MAX_COPY_CHUNKS \in Nat
  /\ KernelRegions \in Seq([start : Nat, end : Nat,
                            flags : SUBSET {"V", "R", "W", "X", "A", "D", "G"}])
  /\ \A k \in DOMAIN KernelRegions :
       LET r == KernelRegions[k] IN
       /\ is_page_aligned(r.start) /\ r.start <= r.end /\ region_end(r) <= VaLimit
       /\ region_end(r) <= USER_VA_START \/ r.start >= USER_VA_END
       /\ "V" \in r.flags /\ r.flags \cap {"R", "W", "X"} # {}
       /\ \A l \in DOMAIN KernelRegions \ {k} :
            region_end(r) <= KernelRegions[l].start \/ region_end(KernelRegions[l]) <= r.start

unless_panicked(m, next) == IF m.panic = "no" THEN next ELSE m

(***************************************************************************)
(* alloc_zeroed_page(): "out of memory for page tables" is a panic.        *)
(***************************************************************************)
alloc_zeroed_page(m) ==
  LET zeroed(idx) == [m EXCEPT !.bitmap = @ \cup {idx}, !.mem[page_addr(idx)] = <<>>,
                               !.page = page_addr(idx)]
  IN unless_panicked(m, IF CanAlloc(m.bitmap) THEN zeroed(alloc(m.bitmap))
                        ELSE [m EXCEPT !.panic = "oom"])

write_entry(m, table, index, pte) ==
  unless_panicked(m, [m EXCEPT !.mem = write_pte(@, table, index, pte)])

(* An entry of the table gets the page just allocated as its table. *)
linked(m, table, index) == write_entry(m, table, index, branch(m.page))

(* The table an entry of m.page points at, allocated when the entry is invalid. *)
walk_or_create(m, index) ==
  LET existing == read_pte(m.mem, m.page, index) IN
  unless_panicked(m,
    IF is_branch(existing) THEN [m EXCEPT !.page = phys_addr(existing)]
    ELSE IF is_valid(existing) THEN [m EXCEPT !.panic = "assert"]
    ELSE linked(alloc_zeroed_page(m), m.page, index))

(* Map one page; a valid leaf that is already there is overwritten. *)
map_page(m, va, pa, flags) ==
  LET p == va_parts(va)
      leaf(table) == write_entry(table, table.page, p.vpn0, Pte(pa, flags))
  IN unless_panicked(m,
       leaf(walk_or_create(walk_or_create([m EXCEPT !.page = m.root], p.vpn2), p.vpn1)))

(* Identity-map the pages of [start, end). *)
map_range(m, start, end, flags) ==
  LET first == page_floor(start)
      n == (page_floor(end + PAGE_SIZE - 1) - first) \div PAGE_SIZE
      mapped[k \in 0 .. n] ==
        IF k = 0 THEN m
        ELSE LET va == first + (k - 1) * PAGE_SIZE
             IN map_page(mapped[k - 1], va, va, flags)
  IN mapped[n]

map_kernel_regions(m) ==
  LET mapped[k \in 0 .. Len(KernelRegions)] ==
        IF k = 0 THEN m
        ELSE LET r == KernelRegions[k]
             IN map_range(mapped[k - 1], r.start, r.end, r.flags)
  IN mapped[Len(KernelRegions)]

(* init(), map_user_page()'s callers: a root page with the kernel in it. *)
new_root(m) ==
  LET rooted(new) == [new EXCEPT !.root = new.page]
  IN map_kernel_regions(rooted(alloc_zeroed_page(m)))

(* The memory after unmap_page(), which fails where walk() does. *)
unmap_page(mem, root, va) ==
  LET p == va_parts(va)
      level1 == phys_addr(read_pte(mem, root, p.vpn2))
      level0 == phys_addr(read_pte(mem, level1, p.vpn1))
  IN write_pte(mem, level0, p.vpn0, INVALID)

----------------------------------------------------------------------------
(* Access to user memory. *)

(* translate_user(): None, or where a user address is in the heap. *)
translate_user(mem, root, va) ==
  LET result == walk(mem, root, va) IN
  IF /\ va < USER_VA_END
     /\ "U" \in result.flags
     /\ is_user_heap_pa(page_floor(result.phys))
  THEN result ELSE None

(* Mutant of bytes_to_page_end: a whole page from any start. *)
bytes_to_page_end_page(start) == PAGE_SIZE

bytes_to_page_end(start) == PAGE_SIZE - (start % PAGE_SIZE)

(***************************************************************************)
(* walk_user_range(): the first pass of a user copy.  Turn by turn, the    *)
(* chunks found so far, `done` words in all; any failed check is an error. *)
(***************************************************************************)
walk_user_range(mem, root, user_va, total, need_write) ==
  LET turn(s) ==
        LET va == wrapping(user_va + s.done)
            len == IF bytes_to_page_end(va) <= total - s.done
                   THEN bytes_to_page_end(va) ELSE total - s.done
            result == walk(mem, root, va)
        IN IF /\ va < USER_VA_END
              /\ "U" \in result.flags
              /\ need_write => "W" \in result.flags
              /\ is_user_heap_pa(page_floor(result.phys))
           THEN [s EXCEPT !.done = @ + len,
                          !.chunks = Append(@, [pa |-> result.phys, len |-> len])]
           ELSE [s EXCEPT !.ok = FALSE]
      after[n \in 0 .. MAX_COPY_CHUNKS] ==
        IF n = 0 THEN [done |-> 0, chunks |-> <<>>, ok |-> TRUE]
        ELSE IF after[n - 1].ok /\ after[n - 1].done < total THEN turn(after[n - 1])
        ELSE after[n - 1]
      end == after[MAX_COPY_CHUNKS]
  IN [ok |-> end.ok /\ end.done >= total, chunks |-> end.chunks]

(* copy_to_user(): the second pass writes every chunk, here all words d. *)
copy_to_user(mem, chunks, d) ==
  LET Written(page) ==
        {i \in 0 .. PAGE_SIZE - 1 : \E k \in DOMAIN chunks :
           page + i \in chunks[k].pa .. chunks[k].pa + chunks[k].len - 1}
  IN [page \in DOMAIN mem |->
        [i \in DOMAIN mem[page] \cup Written(page) |->
           IF i \in Written(page) THEN data(d) ELSE mem[page][i]]]

============================================================================
