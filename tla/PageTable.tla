----------------------------- MODULE PageTable -----------------------------
(***************************************************************************)
(* Sv39 page tables: kernel/src/page_table.rs.  A table is one page of     *)
(* PT_ENTRIES words.  A word is read as a page-table entry: a record of a  *)
(* page number and a set of flags; a word without flags is plain data, the *)
(* number 0 standing for zero.                                             *)
(***************************************************************************)
EXTENDS PageAlloc

(* 512 entries of eight bytes: exactly one page. *)
PT_ENTRIES == PAGE_SIZE

(* The flags, by their letters, and the permission sets built from them. *)
KERNEL_RX == {"V", "R", "X", "A", "G"}
KERNEL_RW == {"V", "R", "W", "A", "D", "G"}
KERNEL_MMIO == {"V", "R", "W", "A", "D", "G"}
USER_RX == {"V", "R", "X", "U", "A"}
USER_RW == {"V", "R", "W", "U", "A", "D"}

INVALID == [ppn |-> 0, flags |-> {}]
data(d) == [ppn |-> d, flags |-> {}]

(* Pte::new and Pte::branch, phys_addr: an entry holds a page number. *)
Pte(pa, flags) == [ppn |-> pa \div PAGE_SIZE, flags |-> flags]
branch(table) == Pte(table, {"V"})
phys_addr(pte) == pte.ppn * PAGE_SIZE

is_valid(pte) == "V" \in pte.flags
is_leaf(pte) == is_valid(pte) /\ pte.flags \cap {"R", "W", "X"} # {}
is_branch(pte) == is_valid(pte) /\ pte.flags \cap {"R", "W", "X"} = {}

(* The three table indices of a virtual address; the bits above are ignored. *)
va_parts(va) ==
  [vpn2 |-> (va \div (PAGE_SIZE * PT_ENTRIES * PT_ENTRIES)) % PT_ENTRIES,
   vpn1 |-> (va \div (PAGE_SIZE * PT_ENTRIES)) % PT_ENTRIES,
   vpn0 |-> (va \div PAGE_SIZE) % PT_ENTRIES,
   offset |-> va % PAGE_SIZE]

(* One word of physical memory; words that were never written are zero. *)
read_pte(mem, table, index) ==
  IF index \in DOMAIN mem[table] THEN mem[table][index] ELSE INVALID

write_pte(mem, table, index, pte) ==
  [mem EXCEPT ![table] = [i \in DOMAIN @ \cup {index} |-> IF i = index THEN pte ELSE @[i]]]

(***************************************************************************)
(* walk(): the leaf at level 0 for va, with the offset applied, or None, a *)
(* result without flags, when an entry on the way is invalid, is a leaf    *)
(* too early (a superpage), or is a branch at level 0.                     *)
(***************************************************************************)
None == [phys |-> 0, flags |-> {}]

walk(mem, root, va) ==
  LET p == va_parts(va)
      l2 == read_pte(mem, root, p.vpn2)
      l1 == read_pte(mem, phys_addr(l2), p.vpn1)
      l0 == read_pte(mem, phys_addr(l1), p.vpn0)
  IN IF is_branch(l2) /\ is_branch(l1) /\ is_leaf(l0)
     THEN [phys |-> phys_addr(l0) + p.offset, flags |-> l0.flags]
     ELSE None

============================================================================
