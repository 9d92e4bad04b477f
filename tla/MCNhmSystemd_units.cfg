\* Two units that come and go, fail and restart.
SPECIFICATION FairSpec
CONSTANTS
  u1 = u1
  u2 = u2
  Units = {u1, u2}
  Moves <- SimpleMoves
  MaxSignals = 3
  BusFails = FALSE
INVARIANTS
  TypeOK
  KnownIsCurrent
  FailureReported
  ObservedOnce
  NoDanglingUnit
  EveryUnitObserved
PROPERTIES
  FailureNoticed
