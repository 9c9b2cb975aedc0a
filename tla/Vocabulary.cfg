SPECIFICATION WordsSpec
CHECK_DEADLOCK FALSE
CONSTANTS
  polish = polish
  Polish = Polish
  item = item
  ItemIds = {item}
  Spellings = {polish, Polish}
  Item <- OneWord
  Folded = {polish}
  Writers = {q1, q2, q3}
  MaxArrivals = 5
  None = None
SYMMETRY OneLikeAnother
INVARIANTS
  WordsTypeOK
PROPERTIES
  KeptForLearner
