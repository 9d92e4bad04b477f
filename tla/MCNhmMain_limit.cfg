\* A restart is requested at the limit.
SPECIFICATION Spec
CONSTANTS
  a1 = a1
  a2 = a2
  Absent = Absent
  Apps = {a1, a2}
  KeyFiles <- OneAllowed
  MaxFailcount = 1
  Faults = {}
PROPERTIES
  RestartAboveLimit
