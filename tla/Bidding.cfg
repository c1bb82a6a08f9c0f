SPECIFICATION BidSpec
CONSTANTS
  Bidder = {m1, m2}
  Leaver = {m2}
  Senior = {m1}
  PotKes = 3
  Bid = {1, 2}
  BidCall = {c1, c2}
  MaxBids = 2
INVARIANT TieGoesToSenior
CHECK_DEADLOCK FALSE
