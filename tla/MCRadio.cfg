CONSTANTS
  p1 = p1
  p2 = p2
  short = short
  damaged = damaged
  Nothing = Nothing
  Packet <- OneEach
  Short <- ShortPackets
  Damaged <- DamagedPackets
  BOOTLOADER = FALSE
  MAX_RX_TICKS = 2
  RF_PRECISE_TIMING_DELAY = 2
  PROMPT = TRUE
SPECIFICATION FairSpec
INVARIANTS
  TypeOK
  DeliveredOnce
  TransmitsPrepared
  NoLostWakeup
  PacketsAccountedFor
PROPERTIES
  SendEnds
  ListensAgain
