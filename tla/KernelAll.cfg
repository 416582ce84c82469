SPECIFICATION Spec
CONSTANTS
  MAX_PROCS = 3
  MAX_IRQS = 2
  USIZE_MAX <- MaxWord
  U32_MODULUS <- U32
  BootProcs = {1, 2}
  HeapImages = 1
  Sources = {1}
  Syscalls <- AllButYield
  PidArgs = {0, 1, 2}
  Messages = {0}
  Extras = {0}
  ExitCodes = {0}
  FaultCodes = {3}
  IrqArgs <- IrqNumbers
  Images = {"bad_size", "malformed", "unmapped", "ok"}
INVARIANTS
  TypeOK
  RunningIsCurrent
  IdleOnlyWhenBlocked
  NoSchedulerPanic
  NoMissedRendezvous
  AcksItsOwnIrq
  OwnersAlive
PROPERTIES
  ImplementsRendezvous
