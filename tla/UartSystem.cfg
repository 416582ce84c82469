SPECIFICATION SystemFairSpec
CONSTANTS
  MAX_PROCS = 3
  MAX_IRQS = 2
  USIZE_MAX = 999
  U32_MODULUS = 100
  BootProcs = {1, 2}
  HeapImages = 0
  Sources = {1}
  Syscalls = {"SYS_REBOOT"}
  PidArgs = {}
  Messages = {}
  Extras = {}
  ExitCodes = {}
  FaultCodes = {}
  IrqArgs = {}
  Images = {}
  UART_IRQ_NUM = 1
  HELLO_LEN = 2
  Keys = {13, 18, 20}
  MAX_KEYS = 3
  RX_FIFO = 2
  TX_FIFO = 2
INVARIANTS
  OutputInOrder
PROPERTIES
  InputIsEchoed
  GreetingCompletes
