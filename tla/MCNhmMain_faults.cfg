\* One application, every fault, a configuration that changes between starts, and the
\* progress of a process that works.
SPECIFICATION FairSpec
CONSTANTS
  a1 = a1
  a2 = a2
  Absent = Absent
  Apps = {a1}
  KeyFiles <- VaryingFiles
  MaxFailcount = 2
  Faults = {"crash", "disk", "io", "pcl", "nsm", "config", "early"}
INVARIANTS
  TypeOK
  NodeinfoExists
  HistoryBounded
  StatisticsAgree
PROPERTIES
  HandlerReturns
  QuitEndsProcess
  StartsOrEnds
