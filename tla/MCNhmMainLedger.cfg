\* Two applications, a restart limit, the ledger and the verdicts; the process crashes,
\* the file is written whole.
SPECIFICATION HSpec
CONSTANTS
  a1 = a1
  a2 = a2
  Absent = Absent
  Apps = {a1, a2}
  Limit = 1
  KeyFiles <- LedgerFiles
  MaxFailcount = 2
  Faults = {"crash"}
INVARIANTS
  FailedListUnique
  FailedIsCounted
  StatisticsAgree
  FileIsCurrent
  LimitNeverSilent
  NsmKnowsFailed
PROPERTIES
  LedgerKept
  VerdictIsTrue
