SPECIFICATION Spec
CONSTANTS
  Callbacks = {c1}
  Requests = {r1,r2}
  Notifiers = {r1, r2, n1}
  Notices = {"MISSION_COMPLETED", "NEEDS_ATTENTION"}
  MaxNotices = 1
  MaxTries = 2
  MaxDeliveries = 1
  MaxAttempts = 2
  MaxVersion = 2
  MaxFaults = 1
  Faults = {"crash", "storeError", "lostAck", "refused", "resend", "dispatch"}
INVARIANTS CallbackTypeOK OneProviderSend EventKept CompletionNoticed AcknowledgedKept
SYMMETRY Symmetry
CHECK_DEADLOCK FALSE
