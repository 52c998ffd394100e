SPECIFICATION Spec
CONSTANTS
  Stories = {s1, s2}
  Requested = 2
  Collectors = {c1}
  Tasks = {t1, t2}
  NoTask = none
  MaxCitationAttempts = 2
  Mishaps = {}
SYMMETRY MCSymmetry
PROPERTIES DeliverableIsTerminal
CHECK_DEADLOCK FALSE
