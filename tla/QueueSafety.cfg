SPECIFICATION Spec
CONSTANTS
  Jobs = {j1}
  Workers = {w1, w2}
  NoWorker = none
  Slots = {s1, s2, s3}
  LlmConcurrency = 2
  LeaseTicks = 1
  MaxCitationAttempts = 2
  MaxTime = 1
  MaxFaults = 1
  Heartbeats = TRUE
  Prompt = FALSE
SYMMETRY MCSymmetry
INVARIANTS TypeOK RowsAgree OneTaskPerAttempt RetriesBounded AcceptedIsRecorded
PROPERTIES OnlyHolderOrExpiry ImplementsLedger
