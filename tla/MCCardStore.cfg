SPECIFICATION Spec
CONSTANTS
  Cards = {c1, c2}
  Fields = {number, cvv}
  Cvv = cvv
  Removals = {r1, r2}
  None = None
SYMMETRY MCSymmetry
INVARIANTS
  LoneCallsStrandNothing
  CardsAreWhole
  LoneRemoveIsFinal
