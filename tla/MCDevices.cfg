SPECIFICATION Spec
CONSTANTS
  None = None
  Identities = {k1, k2}
  Tokens = {t1}
  Registrations = {g1, g2}
  Pushes = {p1}
  Boots = {b1, b2}
  MaxSeq = 2
  MaxOld = 2
SYMMETRY Symmetry
INVARIANTS TypeOK RegistrationKept StaysUnregistered ListedOnce DeactivatedOnRefusal
PROPERTY NumbersStable
