SPECIFICATION Spec
CONSTANTS
  t1 = t1
  t2 = t2
  w1 = w1
  w2 = w2
  Poller = Poller
  Tx = {t1, t2}
  Donation = {t2}
  Webhook = {w1, w2}
  Public = TRUE
  Copies = 2
  Batch = 1
  MaxFaults = 1
INVARIANT MoneyMovedNeverFailed
CHECK_DEADLOCK FALSE
