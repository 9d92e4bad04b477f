\* A crash before the name is acquired is not noticed.
SPECIFICATION HSpec
CONSTANTS
  a1 = a1
  a2 = a2
  Absent = Absent
  Apps = {a1}
  KeyFiles <- OneFile
  MaxFailcount = 1
  Faults = {"crash"}
PROPERTIES
  CrashIsCaught
