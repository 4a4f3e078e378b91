CONSTANTS
  FLASH_PAGE_SIZE = 2
  FLASH_WRITE_PAGE_SIZE = 1
  FLASH_APP_START = 2
  FLASH_APP_END = 5
  FLASH_STORAGE_START = 6
  FLASH_SIZE = 8
  LAST_PAGE = 7
  COMMAND_WATCHDOG_DELAY = 2
  SHORT_DELAY = 1
  Bit = {"b"}
  SignedImages <- MCSignedImages
  FactoryFlash <- MCFactoryFlash
  Image <- MCImage
  tool = tool
  node = node
  SEQNUM_MIN = 1
  SEQNUM_MAX = 3
  NoLimit = NoLimit
  NoClient = NoClient
  LineSize = 2
  InboxSize = 1
SPECIFICATION FairSpec
INVARIANTS
  TypeOK
  LoadedPagesStay
  CrashMeansInstalled
PROPERTIES
  UpdateGetsDone
CHECK_DEADLOCK FALSE
