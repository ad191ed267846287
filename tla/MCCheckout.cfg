SPECIFICATION CheckoutSpec
CONSTANTS
  Calls = {c1, c2}
  Pages = {g1, g2}
  Deeds = {d1, d2}
  MaxPending = 2
  MaxGrants = 2
  None = None
SYMMETRY MCSymmetry
INVARIANTS
  EveryPurchaseWasApproved
  
  RegistryIsRight
  NeverSubmittedUnseen
