SPECIFICATION MCSpec
CONSTANTS
  Shrinking = {1, 2}
  MatchDict <- MCMatchDict
  CommonDict = 9
  Registered = {1, 2}
  Setups <- MCSetups
  BatchCount = 2
  RecordCount = 3
  RollbackCount = 2
  u1 = u1
  u2 = u2
  Users = {u1, u2}
  Stepper = s
  NoThread = none
  TableSetups <- MCInfoSetups
INVARIANTS ReadsAsWritten FinishedIsTyped TypeColumnFound
PROPERTIES CompressionFinishes StatementsPrepared EverythingCompressed
CHECK_DEADLOCK FALSE
