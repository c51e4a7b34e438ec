SPECIFICATION Spec
CONSTANTS
  Uploads = {u1, u2}
  Retries = {t1}
  Workers = {w1, w2}
  MaxAttempts = 2
  MaxCalls = 2
  MaxDeliveries = 3
  MaxLapses = 1
  MaxFaults = 1
  Faults = {"crash", "storeError", "lostAck", "dispatch"}
INVARIANTS AnalysisTypeOK ReadyHasDraft JobNotLost
PROPERTIES ReadyKept
SYMMETRY Symmetry
CHECK_DEADLOCK FALSE
