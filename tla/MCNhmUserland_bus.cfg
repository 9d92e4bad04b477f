\* A bus that was restarted fails the check for good.
SPECIFICATION FairSpec
CONSTANTS
  Kinds <- OneBus
PROPERTIES
  BusRecovers
