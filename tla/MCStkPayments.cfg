SPECIFICATION BacklogSpec
CONSTANTS
  t1 = t1
  t2 = t2
  w1 = w1
  w2 = w2
  Poller = Poller
  Tx = {t1, t2}
  Donation = {t2}
  Webhook = {w1, w2}
  Public = TRUE
  Copies = 2
  Batch = 1
  MaxFaults = 1
INVARIANTS TypeOK CompletedOnBooks OnBooksOnce FailedForAReason
PROPERTIES ImplementsPaymentSpec StoredSettles
CHECK_DEADLOCK FALSE
