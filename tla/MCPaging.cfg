SPECIFICATION Spec
CONSTANTS
  None = None
  Malformed = Malformed
  Refused = Refused
  N = 4
  Size <- Sizes
  Walkers = {c1}
  Requests <- Asked
  Environments <- MCEnvironments
  Overhead = 1
  SafeInteger = 10
  MaxTime = 2
  MaxLag = 1
INVARIANTS WalkShowsAll WalkMovesOn PagersAgree
PROPERTIES RefusedAtBoundsOnly
