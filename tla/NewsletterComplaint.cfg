SPECIFICATION Spec
CONSTANTS
  RunCount = 1
  Edition <- AllMorning
  Subscribers = {s1}
  Workers = {w1}
  BatchSize = 1
  Concurrency = 1
  MaximumAttempts = 2
  EventKinds = {"complained"}
  MaxSequence = 1
  Mishaps <- NothingGoesWrong
INVARIANTS ComplaintSuppresses
