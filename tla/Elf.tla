-------------------------------- MODULE Elf --------------------------------
(***************************************************************************)
(* The ELF parser of kernel/src/elf.rs.  An image is the data a loader is  *)
(* given: how long it is, what its file header says, and the program       *)
(* headers found at its table.  usize arithmetic wraps, as it does in the  *)
(* release build (overflow checks are off).                                *)
(***************************************************************************)
EXTENDS PageAlloc, Sequences

CONSTANTS
  USIZE,        \* 2^64, in words
  EHDR_SIZE,    \* 64 bytes
  PHDR_SIZE,    \* 56 bytes
  MAX_SEGMENTS  \* 4, the length of ElfInfo::segments

ElfError ==
  {"TooSmall", "BadMagic", "NotElf64", "NotLittleEndian", "NotExecutable",
   "NotRiscV", "TooManySegments", "SegmentOutOfBounds"}

wrapping(n) == n % USIZE

(* The PT_LOAD headers among the first n. *)
Loads(image, n) == SelectSeq(SubSeq(image.phdrs, 1, n), LAMBDA h : h.type = "PT_LOAD")

(* "Validate segment data is within the file". *)
InFile(image, h) == wrapping(h.offset + h.filesz) <= image.len

(* What the i-th turn of the loop over the program headers finds wrong. *)
HeaderError(image, i) ==
  LET offset == wrapping(image.phoff + (i - 1) * image.phentsize)
      h == image.phdrs[i]
  IN CASE wrapping(offset + PHDR_SIZE) > image.len -> "SegmentOutOfBounds"
       [] h.type # "PT_LOAD" -> "Ok"
       [] Len(Loads(image, i - 1)) >= MAX_SEGMENTS -> "TooManySegments"
       [] ~InFile(image, h) -> "SegmentOutOfBounds"
       [] OTHER -> "Ok"

(* parse(): "Ok", or the error of the first check that fails. *)
parse(image) ==
  IF image.len < EHDR_SIZE THEN "TooSmall"
  ELSE IF image.ident # "Ok" THEN image.ident
  ELSE LET bad == {i \in 1 .. Len(image.phdrs) : HeaderError(image, i) # "Ok"}
       IN IF bad = {} THEN "Ok"
          ELSE HeaderError(image, CHOOSE i \in bad : \A j \in bad : i <= j)

(* ElfInfo::segments of an image that parses. *)
segments(image) == Loads(image, Len(image.phdrs))

page_floor(a) == (a \div PAGE_SIZE) * PAGE_SIZE

(* Mutant of pages_needed: the start's offset in its page is forgotten. *)
pages_needed_size_only(memsz, vaddr) == (memsz + PAGE_SIZE - 1) \div PAGE_SIZE

pages_needed(memsz, vaddr) ==
  (page_floor(wrapping(wrapping(vaddr + memsz) + PAGE_SIZE - 1)) - page_floor(vaddr))
    \div PAGE_SIZE

============================================================================
