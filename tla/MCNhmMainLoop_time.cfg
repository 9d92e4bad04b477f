\* Deadlines with just the time that the handlers may take.
SPECIFICATION FairSpec
CONSTANTS
  NotANumber = NotANumber
  Environments <- SomeEnvironments
  Interval = 3
  LongestCheck = 2
  LongestCalls = 3
  LcTimeout = 10
  Hangs = TRUE
INVARIANTS
  TypeOK
  KilledOnlyIfHung
  NeverLate
  NeverRejected
PROPERTIES
  HangIsEnded
