SPECIFICATION Spec
CONSTANTS
  c1 = c1
  c2 = c2
  c3 = c3
  k1 = k1
  k2 = k2
  k3 = k3
  u1 = u1
  g1 = g1
  NoOne = NoOne
  Call = {c1, c2, c3}
  Key = {k1, k2, k3}
  User = {u1}
  Chama = {g1}
  Request <- Requests
  Workload <- Loan
INVARIANT RepaymentClearsPrincipal
CHECK_DEADLOCK FALSE
