SPECIFICATION IdentitySpec
CONSTANTS
  MAX_PROCS = 4
  MAX_IRQS = 3
  USIZE_MAX = 999
  U32_MODULUS = 100
  BootProcs = {1, 2}
  HeapImages = 2
  Sources = {}
  Syscalls = {"SYS_SPAWN", "SYS_EXIT", "SYS_WAIT"}
  PidArgs = {1, 2, 3}
  Messages = {7}
  Extras = {0}
  ExitCodes = {5}
  FaultCodes = {}
  IrqArgs = {}
  Images = {"ok"}
INVARIANTS
  WaitsForOwnChild
