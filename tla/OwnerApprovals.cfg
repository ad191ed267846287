SPECIFICATION Spec
CONSTANTS
  Deeds = {d1, d2}
  MaxPending = 2
  MaxGrants = 4
INVARIANTS
  RestartChangesNothing
PROPERTIES
  Accounted
