------------------------------- MODULE Memory ------------------------------
(***************************************************************************)
(* Address spaces of processes: the memory calls and the loader of         *)
(* kernel/src/syscall.rs over the page allocator, the page tables and the  *)
(* ELF parser.  Scheduling is reduced to a switch to any live process.     *)
(*                                                                         *)
(* SYS_MAP and SYS_FREE_PAGES accept every allocated page of the heap: the *)
(* page tables, the pages of other processes and pages that are still      *)
(* mapped.  A process passes the pages SYS_ALLOC_PAGES gave it, and unmaps *)
(* one before it frees it; ForeignMaps and ForeignFrees are the addresses  *)
(* it passes besides.  With none of them in the heap the handlers' checks  *)
(* keep the spaces apart; with all of the heap they do not, although the   *)
(* handlers' comments say so (FreesPageTable.cfg, MapsPageTable.cfg).      *)
(***************************************************************************)
EXTENDS Kvm

CONSTANTS
  MAX_PROCS,     \* slots of the process table; slot 0 is the kernel
  Images,        \* what SYS_SPAWN is given
  BootImage,     \* the program of PID 1
  Vas,           \* virtual addresses passed to SYS_MAP and SYS_UNMAP
  ForeignMaps,   \* physical addresses passed to SYS_MAP
  ForeignFrees,  \* and to SYS_FREE_PAGES, besides pages of the caller's
  CopyRanges,    \* [va, len] of user buffers
  TlbVas,        \* pages whose translations the hart caches
  MaxHeld        \* bound on the pages a process holds

(* Segments of programs that are linked to user addresses. *)
Segment ==
  {h \in [type : {"PT_LOAD"}, offset : Nat, vaddr : Nat, filesz : Nat, memsz : Nat,
          executable : BOOLEAN] :
     h.vaddr >= USER_VA_START /\ h.vaddr + h.memsz <= USER_VA_END}

(***************************************************************************)
(* The linker scripts of userspace put every section of a program between  *)
(* USER_VA_START and USER_VA_END; the loader does not check that.          *)
(***************************************************************************)
ASSUME MemoryAssumption ==
  /\ MAX_PROCS \in Nat /\ MAX_PROCS >= 2
  /\ \A image \in Images \cup {BootImage} : segments(image) \in Seq(Segment)
  /\ Vas \subseteq Nat /\ ForeignMaps \subseteq Nat /\ ForeignFrees \subseteq Nat
  /\ \A va \in TlbVas : va \in Nat /\ is_page_aligned(va) /\ va < VaLimit
  /\ \A range \in CopyRanges : range.va \in Nat /\ range.len \in Nat

VARIABLES
  bitmap,    \* ALLOC.bitmap
  mem,       \* the words of the heap's pages
  root,      \* satp_to_root(PROCS[p].satp); slot 0: KERNEL_SATP
  live,      \* PROCS[p].state # Free
  current,   \* whose page table satp names
  tlb,       \* translations cached since the last sfence.vma
  held,      \* what SYS_ALLOC_PAGES gave a process, not yet freed
  a0,        \* the result of the last call
  panic      \* "no", "oom" or "assert"

vars == <<bitmap, mem, root, live, current, tlb, held, a0, panic>>

PIDs == 1 .. MAX_PROCS - 1
ERR == USIZE - 1
memory == [bitmap |-> bitmap, mem |-> mem, panic |-> panic, root |-> root[current],
           page |-> root[current]]
commit(m) == bitmap' = m.bitmap /\ mem' = m.mem /\ panic' = m.panic

----------------------------------------------------------------------------
(* The loader. *)

(* A word of the image; past its end is whatever follows it in memory. *)
Garbage == 999
word_at(image, k) == data(IF k < image.len THEN k + 1 ELSE Garbage)

Max2(a, b) == IF a > b THEN a ELSE b
Min2(a, b) == IF a < b THEN a ELSE b

(* The page just allocated, mapped at va. *)
map_new(m, va, flags) == map_page(m, va, m.page, flags)

(* One page of a segment: the part the file covers, the rest left zero. *)
load_page(m, image, seg, va) ==
  LET copy_start == Max2(seg.vaddr, va)
      copy_end == Min2(seg.vaddr + seg.filesz, va + PAGE_SIZE)
      words == [i \in copy_start - va .. copy_end - va - 1 |->
                  word_at(image, seg.offset + (va + i - seg.vaddr))]
      filled(new) == unless_panicked(new, [new EXCEPT !.mem[new.page] = words])
  IN map_new(filled(alloc_zeroed_page(m)), va, IF seg.executable THEN USER_RX ELSE USER_RW)

load_segment(m, image, seg) ==
  LET n == pages_needed(seg.memsz, seg.vaddr)
      loaded[k \in 0 .. n] ==
        IF k = 0 THEN m
        ELSE load_page(loaded[k - 1], image, seg,
                       page_floor(seg.vaddr) + (k - 1) * PAGE_SIZE)
  IN loaded[n]

(* An address space: kernel regions, every segment, one page of stack. *)
load(m, image) ==
  LET segs == segments(image)
      loaded[k \in 0 .. Len(segs)] ==
        IF k = 0 THEN new_root(m) ELSE load_segment(loaded[k - 1], image, segs[k])
  IN map_new(alloc_zeroed_page(loaded[Len(segs)]), STACK_VA, USER_RW)

(* create_process(): code and stack are identity-mapped for user mode. *)
create_process(m) ==
  LET user(new, code, stack) ==
        map_range(map_range(new, code, code + PAGE_SIZE, USER_RX),
                  stack, stack + PAGE_SIZE, USER_RW)
      with_stack(new, code) == unless_panicked(new, user(new_root(new), code, new.page))
      with_code(new) == unless_panicked(new, with_stack(alloc_zeroed_page(new), new.page))
  IN with_code(alloc_zeroed_page(m))

(***************************************************************************)
(* kvm::init() and launch(), with PID 1 assembled in or from an ELF file.  *)
(* A kernel without the memory for that panics before it runs a process.   *)
(***************************************************************************)
Init ==
  \E kernel \in {new_root([bitmap |-> {}, mem |-> [page \in Heap |-> <<>>], panic |-> "no",
                           root |-> 0, page |-> 0])} :
  \E boot \in {create_process(kernel), load(kernel, BootImage)} :
     /\ boot.panic = "no"
     /\ bitmap = boot.bitmap /\ mem = boot.mem /\ panic = boot.panic
     /\ root = [p \in 0 .. MAX_PROCS - 1 |->
                  IF p = 0 THEN kernel.root ELSE IF p = 1 THEN boot.root ELSE 0]
     /\ live = {1}
     /\ current = 1
     /\ tlb = <<>>
     /\ held = [p \in PIDs |-> {}]
     /\ a0 = 0

----------------------------------------------------------------------------
(* The TLB caches any translation of the installed page table. *)

sfence_vma_all == tlb' = <<>>

(* Mutant of sfence_vma: the fence is forgotten. *)
sfence_vma_not(va) == UNCHANGED tlb

sfence_vma(va) == tlb' = [v \in DOMAIN tlb \ {page_floor(va)} |-> tlb[v]]

Fill ==
  \E va \in TlbVas \ DOMAIN tlb :
     LET result == walk(mem, root[current], va) IN
     /\ result # None
     /\ tlb' = [v \in DOMAIN tlb \cup {va} |-> IF v = va THEN result ELSE tlb[v]]
     /\ UNCHANGED <<bitmap, mem, root, live, current, held, a0, panic>>

----------------------------------------------------------------------------
Ecall == current \in PIDs /\ panic = "no"

(* A handler that only returns a value. *)
return(value) ==
  /\ a0' = value
  /\ UNCHANGED <<bitmap, mem, root, live, current, tlb, held, panic>>

(* The pages of the heap the caller has mapped, at any address below the kernel's. *)
UserPages(p) ==
  LET l1s == {phys_addr(mem[root[p]][i]) :
                i \in {i \in DOMAIN mem[root[p]] : is_branch(mem[root[p]][i])}}
      l0s == UNION {{phys_addr(mem[t][i]) : i \in {i \in DOMAIN mem[t] : is_branch(mem[t][i])}} :
                      t \in l1s}
  IN UNION {{phys_addr(mem[t][i]) : i \in {i \in DOMAIN mem[t] : "U" \in mem[t][i].flags}} :
              t \in l0s}

sys_alloc_pages(count) ==
  \/ count = 1 /\ CanAlloc(bitmap)
     /\ LET page == page_addr(alloc(bitmap)) IN
        /\ bitmap' = bitmap \cup {alloc(bitmap)}
        /\ mem' = [mem EXCEPT ![page] = <<>>]
        /\ a0' = page
        /\ held' = [held EXCEPT ![current] = @ \cup {page}]
        /\ UNCHANGED <<root, live, current, tlb, panic>>
  \/ (count # 1 \/ ~CanAlloc(bitmap)) /\ return(ERR)

(* The checks of SYS_MAP in their order; flags is the third argument. *)
MapAccepted(phys, virt, flags) ==
  /\ is_page_aligned(phys) /\ is_page_aligned(virt)
  /\ is_user_va(virt)
  /\ is_allocated(bitmap, phys)
  /\ is_user_heap_pa(phys)
  /\ flags <= 1

sys_map(phys, virt, flags) ==
  \/ /\ MapAccepted(phys, virt, flags)
     /\ \E m \in {map_page(memory, virt, phys, IF flags = 0 THEN USER_RW ELSE USER_RX)} :
          /\ commit(m)
          /\ IF m.panic = "no" THEN sfence_vma(virt) /\ a0' = 0 ELSE UNCHANGED <<tlb, a0>>
     /\ UNCHANGED <<root, live, current, held>>
  \/ ~MapAccepted(phys, virt, flags) /\ return(ERR)

(* Mutant of UnmapAccepted: the range of user addresses is not checked. *)
UnmapAccepted_any(virt) ==
  is_page_aligned(virt) /\ walk(mem, root[current], virt) # None

UnmapAccepted(virt) ==
  /\ is_page_aligned(virt) /\ is_user_va(virt)
  /\ walk(mem, root[current], virt) # None

sys_unmap(virt) ==
  \/ /\ UnmapAccepted(virt)
     /\ mem' = unmap_page(mem, root[current], virt)
     /\ sfence_vma(virt)
     /\ a0' = 0
     /\ UNCHANGED <<bitmap, root, live, current, held, panic>>
  \/ ~UnmapAccepted(virt) /\ return(ERR)

sys_free_pages(phys, count) ==
  \/ /\ count = 1 /\ is_page_aligned(phys) /\ is_allocated(bitmap, phys)
     /\ mem' = [mem EXCEPT ![phys] = <<>>]
     /\ bitmap' = freed(bitmap, phys)
     /\ a0' = IF free(bitmap, phys) = "Ok" THEN 0 ELSE ERR
     /\ held' = [held EXCEPT ![current] = @ \ {phys}]
     /\ UNCHANGED <<root, live, current, tlb, panic>>
  \/ /\ ~(count = 1 /\ is_page_aligned(phys) /\ is_allocated(bitmap, phys))
     /\ return(ERR)

(* SYS_SPAWN(image): the first free slot gets the address space. *)
sys_spawn(image) ==
  LET slots == PIDs \ live IN
  \/ /\ parse(image) = "Ok" /\ slots # {}
     /\ \E new \in {load(memory, image)}, new_pid \in {Least(slots)} :
          /\ commit(new)
          /\ IF new.panic = "no"
             THEN /\ root' = [root EXCEPT ![new_pid] = new.root]
                  /\ live' = live \cup {new_pid}
                  /\ a0' = new_pid
             ELSE UNCHANGED <<root, live, a0>>
     /\ UNCHANGED <<current, tlb, held>>
  \/ (parse(image) # "Ok" \/ slots = {}) /\ return(ERR)

(* A handler copies a result into the caller's buffer (NET_RECV). *)
copy_out(range) ==
  \E r \in {walk_user_range(mem, root[current], range.va, range.len, TRUE)} :
    \/ /\ r.ok
       /\ a0' = range.len
       /\ mem' = copy_to_user(mem, r.chunks, current)
       /\ UNCHANGED <<bitmap, root, live, current, tlb, held, panic>>
    \/ ~r.ok /\ return(ERR)

(* csrw satp and sfence.vma zero, zero: no translation survives a switch. *)
switch_to(next) == current' = next /\ sfence_vma_all

----------------------------------------------------------------------------
AllocPages == Ecall /\ \E count \in {1, 2} :
  /\ Cardinality(held[current]) < MaxHeld
  /\ sys_alloc_pages(count)

(* The page that SYS_ALLOC_PAGES would give next: not allocated now. *)
Unused == {page_addr(i) : i \in IF CanAlloc(bitmap) THEN {alloc(bitmap)} ELSE {}}

Map ==
  /\ Ecall
  /\ \E phys \in held[current] \cup Unused \cup ForeignMaps, virt \in Vas, flags \in 0 .. 2 :
       sys_map(phys, virt, flags)

Unmap == Ecall /\ \E virt \in Vas : sys_unmap(virt)

FreePages ==
  /\ Ecall
  /\ \E phys \in (held[current] \ UserPages(current)) \cup Unused \cup ForeignFrees,
        count \in {1, 2} :
       sys_free_pages(phys, count)

Spawn == Ecall /\ \E image \in Images : sys_spawn(image)

CopyOut == Ecall /\ \E range \in CopyRanges : copy_out(range)

(* No exit path returns pages to the allocator. *)
Exit ==
  /\ Ecall
  /\ live' = live \ {current}
  /\ held' = [held EXCEPT ![current] = {}]
  /\ \E next \in live' \cup {0} : (next = 0 => live' = {}) /\ switch_to(next)
  /\ UNCHANGED <<bitmap, mem, root, a0, panic>>

Switch ==
  /\ panic = "no"
  /\ \E next \in live \ {current} : switch_to(next)
  /\ UNCHANGED <<bitmap, mem, root, live, held, a0, panic>>

(* Every process has ended, or the kernel has panicked. *)
Stopped == (panic # "no" \/ live = {}) /\ UNCHANGED vars

Next ==
  \/ AllocPages \/ Map \/ Unmap \/ FreePages \/ Spawn \/ CopyOut
  \/ Exit \/ Switch \/ Fill \/ Stopped

Spec == Init /\ [][Next]_vars

----------------------------------------------------------------------------
Spaces == live \cup {0}

(* The pages that are tables of an address space, by level. *)
Children(t) == {phys_addr(mem[t][i]) : i \in {i \in DOMAIN mem[t] : is_branch(mem[t][i])}}
Tables(p) ==
  {root[p]} \cup Children(root[p]) \cup UNION {Children(t) : t \in Children(root[p])}

(***************************************************************************)
(* A page in use has one use: it is a table of one address space, or it    *)
(* belongs to one process that maps or holds it, and its bit in the bitmap *)
(* is set.  The allocator never hands out a page twice, a table is never   *)
(* shared or mapped for user mode, and no process reaches another's pages, *)
(* as long as processes pass no heap page but their own to SYS_MAP and     *)
(* SYS_FREE_PAGES; mapping a page table refutes it.                        *)
(***************************************************************************)
PagesExclusive ==
  LET tables == [p \in Spaces |-> Tables(p)]
      owned == [p \in Spaces |-> UserPages(p) \cup (IF p = 0 THEN {} ELSE held[p])]
  IN /\ \A p \in Spaces : \A page \in tables[p] \cup owned[p] : is_allocated(bitmap, page)
     /\ \A p, q \in Spaces :
          /\ owned[p] \cap tables[q] = {}
          /\ p # q => tables[p] \cap tables[q] = {} /\ owned[p] \cap owned[q] = {}

(***************************************************************************)
(* "The kernel trap handler CAN access them, even when satp points to this *)
(* table" (map_kernel_regions): whatever a process maps, unmaps or frees,  *)
(* every kernel page stays identity-mapped in every address space, out of  *)
(* the reach of user mode but for the two pages of an assembled-in PID 1.  *)
(* It holds as long as processes pass no heap page but their own; freeing  *)
(* a page table refutes it.                                                *)
(***************************************************************************)
KernelStaysMapped ==
  \A p \in Spaces : \A k \in DOMAIN KernelRegions :
    LET r == KernelRegions[k] IN
    \A i \in 0 .. (r.end - r.start) \div PAGE_SIZE - 1 :
       LET va == r.start + i * PAGE_SIZE
           result == walk(mem, root[p], va)
       IN /\ result.phys = va
          /\ result.flags = r.flags \/ va \in UserPages(p)

(***************************************************************************)
(* No stale translation: whatever the hart has cached is what a walk of    *)
(* the installed page table finds now.                                     *)
(***************************************************************************)
TlbCoherent == \A va \in DOMAIN tlb : tlb[va] = walk(mem, root[current], va)

(***************************************************************************)
(* "Returns Err(OutOfMemory) if all pages are allocated" (alloc): memory   *)
(* runs out, and a handler panics for it, only when no page is left.       *)
(***************************************************************************)
OutOfMemoryOnlyWhenFull == panic # "no" => panic = "oom" /\ free_count(bitmap) = 0

(* What a process reads at a user address; nothing where none is mapped. *)
user_word(p, va) ==
  LET t == translate_user(mem, root[p], va)
  IN IF t = None THEN None ELSE read_pte(mem, page_floor(t.phys), t.phys % PAGE_SIZE)

(***************************************************************************)
(* "On Err no bytes are written" (copy_to_user): a copy that crosses pages *)
(* writes every word of the buffer, wherever its page lies, and none else, *)
(* when each word on its own is one the process may write; otherwise it    *)
(* writes nothing and reports the error.                                   *)
(***************************************************************************)
CopyIsAllOrNothing ==
  [][\A range \in CopyRanges : a0' \in {range.len, ERR} /\ Ecall /\ copy_out(range) =>
       LET Target(i) == translate_user(mem, root[current], range.va + i)
           writable == \A i \in 0 .. range.len - 1 : "W" \in Target(i).flags
           targets == {Target(i).phys : i \in 0 .. range.len - 1}
       IN IF writable
          THEN \A page \in Heap : \A j \in 0 .. PAGE_SIZE - 1 :
                 read_pte(mem', page, j) =
                   IF page + j \in targets THEN data(current) ELSE read_pte(mem, page, j)
          ELSE a0' = ERR /\ mem' = mem]_vars

(***************************************************************************)
(* SYS_SPAWN "copies data" of "each LOAD segment": the new process sees    *)
(* every word of its segments where the headers put it, then zeros up to   *)
(* memsz, and nothing that is not part of the file.                        *)
(***************************************************************************)
SpawnLoadsImage ==
  [][\A image \in Images : ~(live' \subseteq live) /\ sys_spawn(image) =>
       \A seg \in {segments(image)[k] : k \in DOMAIN segments(image)} :
         \A i \in 0 .. seg.memsz - 1 :
           user_word(a0, seg.vaddr + i)' =
             IF i < seg.filesz THEN data(seg.offset + i + 1) ELSE INVALID]_vars

============================================================================
