SPECIFICATION Spec
CONSTANTS
  Missions = {m1}
  Requests = {r1}
  MaxVersion = 2
  MaxFaults = 0
  Faults = {}
PROPERTY ReapprovalStarts
CHECK_DEADLOCK FALSE
