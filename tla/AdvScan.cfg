\* Both timers started.
CONSTANTS
  TxIntv = 150
  RxIntv = 60
  Retry = 6
  TxFirst = 300
  RxFirst = 750
  RxOnlyTO = 3
  Started = {"PERIODIC_TX", "PERIODIC_RX"}
  CrcFmt = "BLE"
SPECIFICATION MCSpec
INVARIANT TypeOK
INVARIANT OneOwner
INVARIANT ReportMatchesStatus
INVARIANT StopFindsRadioIdle
INVARIANT WaitingIsTruthful
INVARIANT NoRxOverrun
INVARIANT PeriodicAlive
INVARIANT DeferralsBounded
PROPERTY AirSpec
PROPERTY NeitherStarves
