SPECIFICATION Spec
CONSTANTS
  MaxOpened = 2
INVARIANT
  CloseHitsItsPosition
