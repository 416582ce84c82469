SPECIFICATION Spec
CONSTANTS
  RX_BUFFERS = 2
  TX_BUFFERS = 2
INVARIANT RxBuffersConserved
