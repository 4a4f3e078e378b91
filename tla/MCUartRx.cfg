CONSTANTS
  Byte <- MCByte
  ESP_START_BYTE_0 = 1
  ESP_START_BYTE_1 = 2
  ESP_MAX_PAYLOAD = 2
  UART_RX_BUFFERS = 2
SPECIFICATION FairSpec
INVARIANTS
  TypeOK
  CopyIsFaithful
  BuffersDisjoint
PROPERTIES
  NoOverwrite
  ImplementsMailbox
  SomeMessageDelivered
  FirstBufferServed
