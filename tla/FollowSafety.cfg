SPECIFICATION Spec
CONSTANTS
  Workers = {w1}
  Reconcilers = {}
  Readers = {r1}
  Emails = {e1, s1}
  Strangers = {s1}
  Bounces = {}
  Versions = {1, 2, 3, 4}
  MaxDeliveries = 3
  MaxLogicalSends = 2
  MaxAttempts = 2
  MaxFaults = 1
  Faults = {"crash", "storeError", "lostAck", "dispatch", "interpreter"}
INVARIANTS TypeOK WakeOrAbandoned VerifyingAttended
CHECK_DEADLOCK FALSE
