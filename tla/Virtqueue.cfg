SPECIFICATION Spec
CONSTANTS
  QUEUE_SIZE = 4
  BUFFERS = 3
  U16 = 8
PROPERTY ImplementsExchange
