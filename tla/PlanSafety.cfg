SPECIFICATION Spec
CONSTANTS
  Missions = {m1, m2}
  Requests = {r1, r2}
  MaxVersion = 2
  MaxFaults = 1
  Faults = {"crash", "storeError", "lostAck", "dispatch"}
INVARIANTS PlanTypeOK DeletionFinal DedupeBacked ApprovedWoken
PROPERTIES ApprovesCurrentPlan NeverRestarted
SYMMETRY Symmetry
CHECK_DEADLOCK FALSE
