SPECIFICATION C2BFairSpec
CONSTANTS
  p1 = p1
  b1 = b1
  b2 = b2
  d1 = d1
  d2 = d2
  w1 = w1
  w2 = w2
  Payment = {p1}
  Body = {b1, b2}
  Receipt <- OneReceipt
  Public = {p1}
  Delivery = {d1, d2}
  Worker = {w1, w2}
  Attempts = 2
  MaxStalls = 1
INVARIANTS C2BTypeOK ProcessedOnBooks OnBooksOnce
PROPERTIES ImplementsPaymentSpec QueuedSettles
CHECK_DEADLOCK FALSE
