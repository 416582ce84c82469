SPECIFICATION Spec
CONSTANTS
  PAGE_SIZE = 8
  WORD_BITS = 8
  base_addr <- HeapBase
  total_pages = 38
  USIZE = 8192
  EHDR_SIZE = 8
  PHDR_SIZE = 7
  MAX_SEGMENTS = 4
  KernelRegions <- Regions
  USER_VA_START = 640
  USER_VA_END = 1024
  STACK_VA = 1016
  MAX_COPY_CHUNKS = 2
  MAX_PROCS = 3
  Images <- MCImages
  BootImage <- MCBoot
  Vas <- MCVas
  ForeignMaps <- Heap
  ForeignFrees <- Refused
  CopyRanges <- MCRanges
  TlbVas <- MCTlbVas
  MaxHeld = 1
INVARIANTS PagesExclusive
