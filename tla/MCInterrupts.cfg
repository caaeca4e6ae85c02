CONSTANTS
  Devices = {0, 1, 12}
  Exceptions = {2, 14, 17}
  FirmwareMasks <- MCFirmwareMasks
  SleepArgs = {0, 2, 7}
  WORD = 8
  MaxTicks = 3
SPECIFICATION FairSpec
INVARIANT InterruptsAreWired
INVARIANT EveryInterruptIsEnded
PROPERTY SleepsLongEnough
PROPERTY SleepEnds
