------------------------------ MODULE MCMemory -----------------------------
(***************************************************************************)
(* Memory for TLC: pages of eight words (and tables of eight entries), so  *)
(* three levels span 512 pages; MMIO under entry 0 of a root table, user   *)
(* addresses under entry 1, the kernel and its heap under entry 2, as on   *)
(* the machine.  The heap ends in the middle of a bitmap word.             *)
(***************************************************************************)
EXTENDS Memory

Page(n) == n * 8
TextPage == Page(128)
HeapBase == Page(129)
Regions ==
  <<[start |-> TextPage, end |-> HeapBase, flags |-> KERNEL_RX],
    [start |-> HeapBase, end |-> Page(129 + total_pages + 1), flags |-> KERNEL_RW],
    [start |-> Page(1), end |-> Page(3), flags |-> KERNEL_MMIO]>>

Load(offset, vaddr, filesz, memsz, x) ==
  [type |-> "PT_LOAD", offset |-> offset, vaddr |-> vaddr, filesz |-> filesz,
   memsz |-> memsz, executable |-> x]
Note == [type |-> "PT_NOTE", offset |-> 0, vaddr |-> 0, filesz |-> 0, memsz |-> 0,
         executable |-> FALSE]
Image(len, ident, phdrs) ==
  [len |-> len, ident |-> ident, phoff |-> 8, phentsize |-> 7, phdrs |-> phdrs]

(* Text that starts inside a page and crosses into the next, and a note. *)
Program == Image(40, "Ok", <<Note, Load(29, Page(80) + 3, 7, 7, TRUE)>>)
(* One page of code and data that is partly file, partly zero. *)
Small == Image(32, "Ok", <<Load(24, Page(80), 4, 6, FALSE)>>)
(* Malformed: too short, not an ELF file, a segment that ends past the     *)
(* file, a header past the file, five segments.                            *)
Malformed ==
  {Image(7, "Ok", <<>>), Image(32, "BadMagic", <<Load(24, Page(80), 4, 4, TRUE)>>),
   Image(32, "Ok", <<Load(30, Page(80), 4, 4, FALSE)>>),
   Image(14, "Ok", <<Load(8, Page(80), 4, 4, FALSE)>>),
   Image(45, "Ok", [i \in 1 .. 5 |-> Load(40, Page(80), 1, 1, TRUE)])}

MCImages == {Program} \cup Malformed
MCBoot == Small

(* An address of the program's data, one the linker left free, a kernel    *)
(* page, and one that is not aligned.                                      *)
MCVas == {Page(80), Page(81), Page(131), Page(81) + 1}
(* Not aligned, and the kernel's text: what the handlers refuse. *)
Refused == {HeapBase + 1, TextPage}
MCTlbVas == {Page(81)}
(* Within a page, across two, up to the end of user addresses and past it. *)
MCRanges == {[va |-> Page(80) + 6, len |-> 4], [va |-> Page(127) + 7, len |-> 2]}

============================================================================
