CONSTANTS
  BASE = 3
  WIDTH = 3
  MS_PER_SECOND = 2
  AUTO_REBOOT_SECONDS = 5
  AUTO_REBOOT_MAX = 20
  Postpone <- LongPostpone
  SetMs <- MCSetMs
  INPUTS = 1
  MaxUptime = 11
  MaxSets = 1
SPECIFICATION FairSpec
INVARIANTS
  TypeOK
  TornReadBounds
  UptimeDrift
PROPERTIES
  RebootNotMissed
CHECK_DEADLOCK FALSE
