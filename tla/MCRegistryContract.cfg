SPECIFICATION Spec
CONSTANTS
  h1 = h1
  h2 = h2
  sk1 = sk1
  sk2 = sk2
  sk3 = sk3
  None = None
  Requests = {r1}
  Handles = {h1, h2}
  Keys = {k1, k2}
  Skeletons = {sk1, sk2, sk3}
  Folds <- TwoFolds
  Serials = {s1, s2}
  Bodies = {b1, b2}
  Cooldown = 1
  MaxClockSkew = 1
  MaxTime = 2
  MaxForeign = 2
SYMMETRY DataSymmetry
INVARIANTS CertificateMatchesRow AvailabilityAgrees AnswersExplained
