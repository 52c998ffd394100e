SPECIFICATION FairSpec
CONSTANTS
    A1 = A1
    A2 = A2
    B1 = B1
    Processes = {"A", "B"}
    Tasks = {A1, A2, B1}
    HomeOf <- MCHomeOf
    Jobs = {"j1", "j2"}
    GateLimit = 1
    Estimate = 1
    HardLimit = 2
    MaximumRetries = 1
    MaxAnswers = 2
    Mishaps = {"backdated", "late", "stop", "broken", "unbilled", "humanizer"}
    MaxMishaps = 1
INVARIANTS GateInv BudgetHolds
PROPERTIES WaitersEnter
CHECK_DEADLOCK FALSE
