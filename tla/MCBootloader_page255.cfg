CONSTANTS
  FLASH_PAGE_SIZE = 4
  FLASH_WRITE_PAGE_SIZE = 2
  FLASH_APP_START = 4
  FLASH_APP_END = 11
  FLASH_STORAGE_START = 12
  FLASH_SIZE = 20
  LAST_PAGE = 9
  COMMAND_WATCHDOG_DELAY = 3
  SHORT_DELAY = 1
  Bit <- MCBit
  Data <- MCData
  SignedImages <- MCSignedImages
  FactoryFlash <- MCFactoryFlash
SPECIFICATION FairSpec
PROPERTIES
  BootsImmediately
