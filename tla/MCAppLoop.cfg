CONSTANTS
  ADC_NUM_CHANNELS = 3
  TIMER_COUNT_PERIOD = 2
  T1_PERIOD = 2
  MS_PER_SECOND = 3
  SECONDS = 2
  T1_TICK = 1
  NS_PER_MS = 3
SPECIFICATION FairSpec
INVARIANTS
  TypeOK
  WholeRounds
  TimesAddUp
PROPERTIES
  TimeReadIsClose
  TelemetryRenewed
