SPECIFICATION FairWordsAndLinesSpec
CONSTANTS
  Families <- AllFamilies
  TabWidth = 3
  HyphenWidth = 1
  SCORE_INFTY = 1000000000
  SCORE_OVERFULL = 10000000
  SCORE_DESPERATE = 100000
  Texts <- MCTexts
  BoundariesOf <- MCBoundariesOf
  ParagraphsOf <- MCParagraphsOf
  LocaleOf <- MCLocaleOf
  Ascii <- MCAscii
  Hyphens = {"-"}
  SoftHyphen = "shy"
  Virama = "virama"
  Zwj = "zwj"
  EmojiStyle = "style"
  Emoji = {"emoji"}
  EmojiModifiers = {"modifier"}
  EmojiBases = {"emoji"}
  Opening = {"("}
  Stripped <- MCStripped
INVARIANTS WordsMakeAParagraph EveryLineHasACharacter WidthsAreDrawn OverfullIsOneCluster TakesAsManyWords HyphenatesLongestPiece OptimalIsBest HyphensAreOffered
PROPERTY Terminates
CHECK_DEADLOCK FALSE
