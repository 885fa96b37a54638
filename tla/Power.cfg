\* More modules than the table holds; tables of one, two and three pins.
CONSTANTS
  Module = {gpio, spif, timer, usr0}
  MOD_NONE = none
  Max = 3
  NoSleep = FALSE
  Pins = {0, 1, 2}
  P0 = 0
  MaxOn = 2
  Configs <- MCConfigs
SPECIFICATION PowerSpec
INVARIANT PowerTypeOK
INVARIANT GateRespectsLocks
INVARIANT HeldIsLocked
INVARIANT Compact
INVARIANT NoDuplicates
INVARIANT PinsReady
PROPERTY LastUnlockOpens
