\* Two groups of one order, two overlapping calls.
SPECIFICATION FairSpec
CONSTANTS
  Groups = {g1, g2}
  Workers = {w1, w2}
  NoGroup = NoGroup
  Order = o
  Payment = p
  NoPayment = NoPayment
  OverrideUnpaid = FALSE
INVARIANTS UnpaidGroupsFollow
PROPERTIES SettledForGood LockedSettles ImplementsLifecycle
