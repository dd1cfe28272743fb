CONSTANTS
  g1 = g1
  Refunds = {r1, r2}
  Groups = {g1}
  NoGroup = NoGroup
  NoRefund = NoRefund
  Captured = 3
  Share <- MCShare
  Workers = {w1, w2}
  MaxTries = 2
  MaxCrashes = 1
  RejectionFinal = TRUE
SPECIFICATION Spec
SYMMETRY Identical
INVARIANTS StatusFollowsMoney GroupsWithinShare PaidWithinCapture
PROPERTIES SettledForGood MovesAsPromised
CHECK_DEADLOCK FALSE
