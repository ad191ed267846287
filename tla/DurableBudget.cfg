SPECIFICATION Spec
CONSTANTS
  Purchases = {p1, p2, p3}
  Limit = 2
INVARIANTS
  ChargeStaysCounted
  LedgerIsSound
  WithinLimit
PROPERTIES
  KeepsPromise
