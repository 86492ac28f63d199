SPECIFICATION Spec
CONSTANTS
  h1 = h1
  h2 = h2
  sk1 = sk1
  sk2 = sk2
  sk3 = sk3
  None = None
  Requests = {r1, r2}
  Handles = {h1}
  Keys = {k1, k2}
  Skeletons = {sk1, sk2, sk3}
  Folds <- SingleHandle
  Serials = {s1, s2}
  Bodies = {b1}
  Cooldown = 1
  MaxClockSkew = 1
  MaxTime = 2
  MaxForeign = 2
SYMMETRY Symmetry
INVARIANTS TypeOK ClaimAnswersExplained ReleaseAnswersExplained RacedOnlyUnderContention
PROPERTIES CooldownHonoured ImplementsDirectory
