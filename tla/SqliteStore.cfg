SPECIFICATION Spec
CONSTANTS
  Callers = {c1, c2, c3}
  QuarantineTTL = 1
  MaxCopies = 2
  MaxTime = 3
  MaxDamages = 3
PROPERTIES
  SavesAreKept
