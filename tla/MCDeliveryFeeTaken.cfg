SPECIFICATION Spec
CONSTANTS
  a = a
  r1 = r1
  r2 = r2
  m1 = m1
  m2 = m2
  q1 = q1
  q2 = q2
  None = None
  BoxWide = BoxWide
  Sends = {q1, q2}
  Senders = {a}
  Recipients = {r1, r2}
  Ids = {m1, m2}
  Inputs <- Asked
  DeliveryFees = {TRUE, FALSE}
  DefaultFee = "pay"
  MaxSets = 1
PROPERTY FeeTakenMessageStored
