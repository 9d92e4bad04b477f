\* The main process with one unit through every transition, and a client.
SPECIFICATION NodeSpec
CONSTANTS
  u1 = u1
  u2 = u2
  a1 = a1
  Absent = Absent
  Apps = {u1, a1}
  Units = {u1}
  ClientReports <- ClientIsOk
  KeyFiles <- OneFailure
  MaxFailcount = 2
  Faults = {"crash"}
  Moves <- ServiceMoves
  MaxSignals = 1
  BusFails = TRUE
INVARIANTS
  FailureKnownEverywhere
  CountsAreReal
PROPERTIES
  ImplementsMain
  ImplementsObservation
  RestartHasReasons
