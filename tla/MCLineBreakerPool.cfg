SPECIFICATION Spec
CONSTANTS
  WordBreaker = {w1, w2}
  LocaleId = {en, ja, th}
  Breaker = {b1, b2, b3, b4, b5, b6}
  Text = {x, y}
  NoLocale = NoLocale
  NoBreaker = NoBreaker
  NoText = NoText
  MAX_POOL_SIZE = 2
INVARIANTS OneHolder RightLocale NoBreakerLeaks ReadsOwnText
SYMMETRY Symmetry
