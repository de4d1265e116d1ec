SPECIFICATION Spec
CONSTANTS
  Callers = {c1, c2}
  Keys = {k1, k2}
  Txns = {t1, t2}
  Foreign = Foreign
  NoEntry = NoEntry
SYMMETRY Symmetry
INVARIANTS
  OneOwner
  AnswersTrue
PROPERTIES
  ImplementsContract
