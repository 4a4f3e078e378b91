CONSTANTS
  Byte <- MCByte
  ESP_START_BYTE_0 = 1
  ESP_START_BYTE_1 = 2
  ESP_MAX_PAYLOAD = 3
  UART_RX_BUFFERS = 2
  Payloads <- PlainPayloads
  MaxFrames = 3
  MaxLost = 2
SPECIFICATION FairLinkSpec
INVARIANTS
  NothingInvented
  Resynchronises
PROPERTIES
  EveryFrameAccountedFor
CHECK_DEADLOCK FALSE
