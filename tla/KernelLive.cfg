SPECIFICATION FairSpec
CONSTANTS
  MAX_PROCS = 4
  MAX_IRQS = 2
  USIZE_MAX <- MaxWord
  U32_MODULUS <- U32
  BootProcs = {1, 2}
  HeapImages = 1
  Sources = {1}
  Syscalls <- LiveCalls
  PidArgs = {0}
  Messages = {7}
  Extras = {0}
  ExitCodes = {5}
  FaultCodes = {}
  IrqArgs = {1}
  Images = {"ok"}
PROPERTIES
  ReadyRuns
  IrqReachesServer
