SPECIFICATION FreezeSpec
CONSTANTS
  Payout = {p1}
  Officer = {o1, o2}
  Required <- TwoSignatures
  Request = {r1}
  Run = {x1}
  Conversation = {v1}
  Handler = {h1}
  MaxReruns = 0
  Staying = {o1, o2}
PROPERTY FrozenGroupsPayNothing
CHECK_DEADLOCK FALSE
