SPECIFICATION Spec
CONSTANTS
  p1 = p1
  p2 = p2
  o1 = o1
  o2 = o2
  r1 = r1
  r2 = r2
  r3 = r3
  x1 = x1
  x2 = x2
  v1 = v1
  v2 = v2
  h1 = h1
  h2 = h2
  Payout = {p1, p2}
  Officer = {o1, o2}
  Required <- TwoAndOne
  Request = {r1, r2}
  Run = {x1, x2}
  Conversation = {v1, v2}
  Handler = {h1, h2}
  MaxReruns = 1
SYMMETRY Interchangeable
INVARIANTS TypeOK PaidOnlyWhenSigned DisbursedWasSettled
PROPERTY ImplementsPayoutSpec
CHECK_DEADLOCK FALSE
