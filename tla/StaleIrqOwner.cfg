SPECIFICATION Spec
CONSTANTS
  MAX_PROCS = 3
  MAX_IRQS = 3
  USIZE_MAX <- MaxWord
  U32_MODULUS <- U32
  BootProcs = {1, 2}
  HeapImages = 0
  Sources = {}
  Syscalls <- ServerCalls
  PidArgs = {0}
  Messages = {7}
  Extras = {0}
  ExitCodes = {5}
  FaultCodes = {}
  IrqArgs = {1, 2}
  Images = {"ok"}
INVARIANTS
  OwnersAlive
