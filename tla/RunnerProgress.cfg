SPECIFICATION FairSpec
CONSTANTS
  Workers = {w1}
  Reconcilers = {cron}
  Versions = {1, 2, 3, 4, 5}
  MaxDeliveries = 4
  MaxLogicalSends = 1
  MaxAttempts = 2
  MaxFaults = 1
  Faults = {"storeError", "lostAck", "crash", "skew", "sendBudget", "refused", "noAnswer", "malformed", "dispatch"}
PROPERTIES MissionSettles IntentsDispatched
CHECK_DEADLOCK FALSE
