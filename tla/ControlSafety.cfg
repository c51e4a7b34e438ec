SPECIFICATION ControlSpec
CONSTANTS
  Workers = {w1}
  Reconcilers = {}
  Pages = {p1}
  Tries = {i1, i2}
  Controls = {"EXPIRE", "RESUME", "REOPEN", "REVISE"}
  Versions = {1, 2, 3, 4, 5}
  MaxDeliveries = 1
  MaxLogicalSends = 1
  MaxAttempts = 1
  MaxFaults = 1
  Faults = {"refused", "noAnswer", "controlCrash", "resend", "dispatch"}
INVARIANTS ControlTypeOK WakeSurvivesControl
PROPERTIES RevocationFinal HaltOwned OneSendAfterStop
SYMMETRY Symmetry
CHECK_DEADLOCK FALSE
