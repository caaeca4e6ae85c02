CONSTANTS
  KBD_BUFFER_SIZE = 3
  MAX_LEN = 3
  Scancodes <- MCAllKeys
  scancode_map <- MCMap
  scancode_map_shift <- MCMapShift
  MaxKeys = 4
SPECIFICATION FairSpec
INVARIANT LineIsWhatWasTyped
PROPERTIES
  ImplementsKeyQueue
  EveryCharIsRead
