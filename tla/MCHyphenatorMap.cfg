SPECIFICATION MapAndToolSpec
CONSTANTS
  Locale <- Locales
  Registrable <- Keys
  LookedUp <- Wanted
  Hyphenator = {h1, h2}
  mSoftHyphenOnlyHyphenator = softHyphenOnly
  NoHyphenator = NoHyphenator
  ch_map <- Letters
  PatLines <- Pats
  HypLines <- Hyps
  MaxPatLines = 2
  MaxHypLines = 1
  MAX_HYPHENATED_SIZE = 8
  LONGEST_HYPHENATED_WORD = 6
  CHAR_SOFT_HYPHEN = 173
  CHAR_HYPHEN = 8208
  CHAR_MIDDLE_DOT = 183
  CHAR_NBSP = 160
  OtherHyphens <- MCHyphens
  ScriptOf <- MCScript
  JoiningType <- MCJoiningType
INVARIANTS RegistrationWins HyphenatesAsPatternsSay
PROPERTIES FollowsRules
CHECK_DEADLOCK FALSE
