CONSTANTS
  p1 = p1
  k1 = k1
  exact = exact
  text = text
  other = other
  Products = {p1}
  References = {exact, text, other}
  Skus = {k1}
  Code <- MCCode
  Lines <- MCLines
  Reviews = {r1}
  Workers = {w1, w2}
  Null = Null
  MaxRows = 1
SPECIFICATION Spec
SYMMETRY Identical
INVARIANTS TypeOK LinkedNotGuessedAgain StockedAsTold
