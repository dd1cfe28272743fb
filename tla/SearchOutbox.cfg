CONSTANTS
  cement = cement
  pune = pune
  nashik = nashik
  v1 = v1
  v2 = v2
  Products = {cement}
  Cities = {pune, nashik}
  Vendors = {v1, v2}
  Listings <- MCListings
  Home <- MCHome
  Moves <- MCMoves
  Writers = {t1, t2}
  Workers = {w1, w2}
  Null = Null
  MaxChanges = 2
  LateCommits = FALSE
  MoveRaces = FALSE
  RebuildsAlone = TRUE
SPECIFICATION FairSpec
INVARIANTS StaleQueued
PROPERTIES IndexConverges
