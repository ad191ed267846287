SPECIFICATION Spec
INVARIANTS
  AUnitRemains
  AbortCostsNothing
PROPERTIES
  PassIsCareful
