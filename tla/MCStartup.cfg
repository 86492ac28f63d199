SPECIFICATION Spec
CONSTANTS
  Malformed = Malformed
  Refused = Refused
  None = None
  k1 = k1
  k2 = k2
  t1 = t1
  c1 = c1
  c2 = c2
  x1 = x1
  x2 = x2
  Procs = {p1, p2}
  Keys = {k1, k2}
  Tokens = {t1}
  Writers = {w1, w2}
  Fees = {0, 10}
  DefaultFee = 5
  Deployments <- MCDeployments
  Clients = {c1, c2}
  Proxies <- MCProxies
  Forgeries <- MCForgeries
  MaxMinute = 2
  Searchers = {p1, p2}
  Handles = {1, 2, 3, 4}
  Queries <- MCQueries
  SearchLimit = 2
  NoHandle = NoHandle
INVARIANTS TypeOK RegistrationsSurvive RegistrationsGuarded BoxWideChoiceStands SchemaStands ServesAsConfigured ClientBounded SearchComplete
PROPERTIES LoneBootHealsIndex ReplicasServe
CHECK_DEADLOCK FALSE
