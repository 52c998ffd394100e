SPECIFICATION FairSpec
CONSTANTS
  Stories = {s1, s2}
  Requested = 1
  Collectors = {c1, c2}
  Tasks = {t1}
  NoTask = none
  MaxCitationAttempts = 1
  Mishaps <- CollectorsFail
PROPERTIES CollectionEnds
CHECK_DEADLOCK FALSE
