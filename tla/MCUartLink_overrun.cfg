CONSTANTS
  Byte <- MCByte
  ESP_START_BYTE_0 = 1
  ESP_START_BYTE_1 = 2
  ESP_MAX_PAYLOAD = 4
  UART_RX_BUFFERS = 1
  Payloads <- NestedPayloads
  MaxFrames = 2
  MaxLost = 0
SPECIFICATION LinkSpec
INVARIANTS
  NothingInvented
CHECK_DEADLOCK FALSE
