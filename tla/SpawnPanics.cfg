SPECIFICATION Spec
CONSTANTS
  MAX_PROCS = 3
  MAX_IRQS = 3
  USIZE_MAX <- MaxWord
  U32_MODULUS <- U32
  BootProcs = {1, 2}
  HeapImages = 1
  Sources = {}
  Syscalls <- LifecycleCalls
  PidArgs = {1, 2}
  Messages = {7}
  Extras = {0}
  ExitCodes = {5}
  FaultCodes = {}
  IrqArgs = {}
  Images = {"bad_size", "malformed", "ok"}
INVARIANTS
  SpawnReportsErrors
