SPECIFICATION Spec
CONSTANTS
  RunCount = 1
  Edition <- AllMorning
  Subscribers = {s1}
  Workers = {w1, w2}
  BatchSize = 1
  Concurrency = 1
  MaximumAttempts = 2
  EventKinds = {"complained", "delivered"}
  MaxSequence = 2
  Mishaps <- WorkersLate
SYMMETRY MCSymmetry
INVARIANTS MailedOnce SentWasMailed ReissuesFollowMails AttemptsBounded
   ComplaintsOnRecordSuppress
PROPERTIES FinalOutcomesStand
