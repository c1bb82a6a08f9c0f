SPECIFICATION PlatformSpec
CONSTANTS
  m1 = m1
  m2 = m2
  s1 = s1
  s2 = s2
  Vote = {"v1", "v2"}
  Option = {"o1", "o3"}
  OptionOf <- MCOptionOf
  Voter = {u1}
  VoteCall = {c1, c2}
  Plans = {"free", "starter", "pro"}
  PlanPrice <- MCPlanPrice
  Coupon = {"k1"}
  CouponPct <- MCCouponPct
  SaccoPct = 0
  Invoice = {i1}
  BillCall = {c1}
  MaxDunning = 2
  BillMaxBegun = 2
  PagePerson = {m1, m2}
  PageKind = "fundraiser"
  Gift <- MCGift
  Monthly = {1, 2}
  PageCall = {c1}
  Chatter = {m1, m2}
  Socket = {s1, s2}
  SocketUser <- MCSocketUser
  Device = {d1}
  MaxSaid = 2
  PrefField = {"sms", "push"}
  Provider = {"slack", "webhook"}
  Subscriber = {m1, m2}
  PhoneNo = {1, 2, 3}
  PrefCall = {c1, c2}
  PrefMaxBegun = 3
  Standing <- MCStanding
  HasKey = TRUE
  MaxHeld = 2
  ScoreCall = {c1, c2}
INVARIANTS
  PlatformTypeOK
  InvoicesAreAccounted
  VotesAreCounted
PROPERTIES
  LateVotesClose
  OverdueIsSettled
CHECK_DEADLOCK FALSE
