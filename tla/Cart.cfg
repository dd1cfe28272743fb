CONSTANTS
  Listings = {l1, l2}
  Taps = {t1, t2}
  Checkouts = {c1, c2}
  NoListing = NoListing
  NoCheckout = NoCheckout
  Quantities = {1, 2}
  MaxAsked = 3
SPECIFICATION CartSpec
SYMMETRY Identical
INVARIANTS NothingTwice
