SPECIFICATION FairSpec
CONSTANTS
  RunCount = 2
  Edition <- AllMorning
  Subscribers = {s1}
  Workers = {w1}
  BatchSize = 2
  Concurrency = 2
  MaximumAttempts = 2
  EventKinds = {"unsubscribed"}
  MaxSequence = 1
  Mishaps <- StatementsFail
PROPERTIES ForwardOnly DeliveriesEnd
