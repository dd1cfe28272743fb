\* An image that is uploaded beside one with an external URL.
SPECIFICATION FairSpec
CONSTANTS
  Media = {m1, e1}
  External = {e1}
  Workers = {w1, w2}
  Invocations = {i1}
  NoMedia = NoMedia
  MaxPerProduct = 2
  MaxDeletions = 2
  MaxTries = 2
  MaxFaults = 1
  Content <- AllGood
  LateConfirm = FALSE
INVARIANTS OnePrimary GalleryInOrder RowsHaveOriginals ReadyServed
PROPERTIES LeftoversSwept RetriedUntilReady
