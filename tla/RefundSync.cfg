CONSTANTS
  g1 = g1
  Refunds = {r1}
  Groups = {g1}
  NoGroup = NoGroup
  NoRefund = NoRefund
  Captured = 2
  Share <- MCShare
  Workers = {w1, w2}
  MaxTries = 2
  MaxCrashes = 1
  RejectionFinal = TRUE
SPECIFICATION FairSpec
PROPERTIES RefundSettles
CHECK_DEADLOCK FALSE
