SPECIFICATION CommunitySpec
CONSTANTS
  t1 = t1
  t2 = t2
  u1 = u1
  u2 = u2
  u3 = u3
  u4 = u4
  d1 = d1
  d2 = d2
  Loan = {"l1"}
  LoanCall = {c1, c2}
  LoanAmount = {3}
  LoanTerm = {2}
  LoanPay = {1, 2}
  LoanMember = {u1}
  LoanOfficer = {u1}
  LoanGroup = "g1"
  LoanMaxPays = 3
  Legacy = {t1, t2}
  PaidOk = {t1}
  WalletAmount <- MCWalletAmount
  WalletCall = {c1, c2}
  WalletAsk = {1}
  Account = {a1, a2}
  WalletMaxOpen = 1
  WalletMaxBacks = 2
  User = {u1, u2, u3, u4}
  Founder = u1
  Token = {t1}
  GroupCall = {c1, c2}
  Privacies = {"public", "private"}
  MaxMembers = 2
  Appointable = {"owner", "admin"}
  GroupMaxBegun = 3
  Offering = {o1}
  TotalShares = 3
  Price = 2
  MinInvest = 2
  MaxInvest = 6
  Holding = {"h1", "h2"}
  InvestorOf <- MCInvestorOf
  Anonymous = {"i2"}
  Investment = {3, 5}
  Pot = {1}
  Signatures = {1, 2}
  ShareCall = {c1, c2}
  MaxSold = 2
  MaxPayouts = 1
  Bidder = {m1, m2}
  Leaver = {m2}
  Senior = {m1}
  PotKes = 3
  Bid = {1, 2, 9}
  BidCall = {c1, c2}
  MaxBids = 3
  RuleDoc <- MCRuleDoc
  Publisher = {p1, p2}
  Hook <- MCHook
  Enforcing = TRUE
  MaxVersions = 3
  KycUser = {u1}
  Document = {d1, d2}
  OwnerOf <- MCOwnerOf
  TypeOf <- MCTypeOf
  KycOfficer = {o1, o2}
  KycAmount = {1, 50}
  KycMonth = {0, 5}
  AuthCall = {c1, c2}
  MaxLoginAttempts = 2
  MaxAttempts = 1
  ResetToken = {t1}
  MaxRefresh = 1
  Configured = {"path", "flutterwave"}
  FeaturesOf <- MCFeaturesOf
  Volume = 3
  IdemKey = {k1}
  IdemBody = {b1, b2}
  IdemCall = {c1, c2}
  Gross = {29, 99, 101, 250000}
  Report = {r1}
  Guest = {m1}
  MeetCall = {c1, c2}
  File = {d1, d2}
  FileCall = {c1, c2}
  Saver = {u1}
  FileAmount = {1, 2}
  ImportUser = {"m1", "m2"}
  ImportFile <- MCImportFile
  ImportClock = {1, 2}
  Person = {"p1"}
  Source = {"ofac", "un"}
  ListedBy <- MCListedBy
  WatchCall = {c1, c2}
  History <- MCHistory
  MaxReports = 1
  BotAmount = {1, 2}
  BotGroup = {g1, g2}
  BotCall = {c1, c2}
  MaxPrompts = 1
  PayGroup = {"g1", "g2"}
  HashOf <- MCHashOf
  Salt = {1}
  Phone = {p1}
  PushCall = {c1, c2}
  StkLimit = 1
  MaxPushes = 2
  SweepMember = {u1}
  LastMonth = 1
  MaxTotal = 1
  MaxDefaulted = 1
  MaxNotices = 1
INVARIANTS
  CommunityTypeOK
  RepaidIsBacked
  DisbursementsAreBounded
  CreditsHaveCallbacks
  CapacityKept
  SoldToSomebody
  SettledByBestBid
  ChainUnbroken
  TierIsProven
  AttemptsAreBounded
  NoFeeCliff
  ImportsAddUp
  PromptsWereOffered
PROPERTIES
  OwnershipHandedOn
CHECK_DEADLOCK FALSE
