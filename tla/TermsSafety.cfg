SPECIFICATION Spec
CONSTANTS
  AvailableChannels = {"CONTROLLED_SANDBOX", "MANAGED_EMAIL"}
  DefaultRecipients = {"placeholder", "company"}
  MaxUnsure = 1
  MaxVersion = 4
INVARIANTS TermsTypeOK Correctable FailureExplained ApprovalChecked
CHECK_DEADLOCK FALSE
