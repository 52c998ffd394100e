SPECIFICATION FairSpec
CONSTANTS
  Jobs = {j1, j2}
  Workers = {w1}
  NoWorker = none
  Slots = {s1, s2}
  LlmConcurrency = 1
  LeaseTicks = 2
  MaxCitationAttempts = 2
  MaxTime = 1
  MaxFaults = 1
  Heartbeats = FALSE
  Prompt = TRUE
PROPERTIES EveryJobSettles
