SPECIFICATION Spec
CONSTANTS
  MAX_PROCS = 4
  MAX_IRQS = 3
  USIZE_MAX <- MaxWord
  U32_MODULUS <- U32
  BootProcs = {1}
  HeapImages = 2
  Sources = {}
  Syscalls <- IpcCalls
  PidArgs = {0, 1, 2, 3}
  Messages = {0}
  Extras = {0}
  ExitCodes = {5}
  FaultCodes = {}
  IrqArgs = {}
  Images = {"ok"}
INVARIANTS
  WaitsForLiveChild
PROPERTIES
  SendReturnsOnDelivery
  ReceivesFromExpected
  CallEndsByReply
  WaitReturnsExitCode
  ReadyKeepsRegisters
