CONSTANTS
  t1 = t1
  t2 = t2
  q1 = q1
  q2 = q2
  Tabs = {t1, t2}
  Requests = {q1, q2}
  TabOf <- MCTabOf
  Nobody = Nobody
  MaxPairs = 3
SPECIFICATION FairSpec
INVARIANTS NeverReused NoneLeftBehind
PROPERTIES StaysLoggedOut WaitsEnd
