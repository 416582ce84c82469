SPECIFICATION NetFairSpec
CONSTANTS
  MAX_PROCS = 3
  MAX_IRQS = 2
  USIZE_MAX = 999
  U32_MODULUS = 100
  BootProcs = {1, 2}
  HeapImages = 0
  Sources = {1}
  Syscalls = {"SYS_CALL", "SYS_EXIT"}
  PidArgs = {0}
  Messages = {7}
  Extras = {0}
  ExitCodes = {141}
  FaultCodes = {13}
  IrqArgs = {}
  Images = {}
  NET_SERVER_PID = 3
  MAX_TCP_SOCKETS = 1
  MAX_UDP_SOCKETS = 1
  STAGING_SIZE = 2
  POLL_TICKS = 2
  VIRTIO_IRQ = 1
  RX_CAPACITY = 1
  Opcodes <- OpcodeNames
  HandleArgs = {0, 1, 2}
  LengthArgs = {1, 3}
PROPERTY ClosedSocketEndsRecv
