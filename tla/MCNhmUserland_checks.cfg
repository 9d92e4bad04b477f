\* Files, programs, processes and buses that fail and recover during the checks.
SPECIFICATION FairSpec
CONSTANTS
  Kinds <- EachKind
INVARIANTS
  TypeOK
  VerdictFounded
PROPERTIES
  FailureFound
  RecoveryFound
