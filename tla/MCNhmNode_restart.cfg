\* A unit that no longer is failed is counted for a restart.
SPECIFICATION NodeSpec
CONSTANTS
  u1 = u1
  u2 = u2
  a1 = a1
  Absent = Absent
  Apps = {u1, u2}
  Units = {u1, u2}
  ClientReports <- NoClients
  KeyFiles <- TwoFailures
  MaxFailcount = 1
  Faults = {}
  Moves <- SimpleMoves
  MaxSignals = 1
  BusFails = FALSE
PROPERTIES
  RestartIsJustified
