SPECIFICATION IdentitySpec
CONSTANTS
  MAX_PROCS = 3
  MAX_IRQS = 3
  USIZE_MAX = 999
  U32_MODULUS = 100
  BootProcs = {1, 2}
  HeapImages = 0
  Sources = {}
  Syscalls = {"SYS_SPAWN", "SYS_CALL", "SYS_RECEIVE", "SYS_REPLY"}
  PidArgs = {0, 1, 2}
  Messages = {7}
  Extras = {0, 3}
  ExitCodes = {5}
  FaultCodes = {}
  IrqArgs = {}
  Images = {"ok"}
PROPERTIES
  ExtrasReachServer
