SPECIFICATION LigatureSpec
CONSTANTS
  LeadUnits = {"pic1", "flag1"}
  TrailUnits = {"pic2", "flag2"}
  Gcb <- MCGcb
  TailoredExtend = {"shy"}
  SaraAm = "am"
  Pictographic = {"pic1"}
  Virama = {"virama"}
  OtherLetter = {"ka"}
  FlagLookBack = 1000
  WordSpace = " "
  BreakAfter = {" "}
  BreakBefore = {"kan"}
  LineSpaceExclude = {"lf"}
  Marks = {"mark"}
  ScriptOf <- MCScriptOf
  NotSpaced = {"Arab"}
  FontOf <- MCFontOf
  GlyphAdvance <- MCGlyphAdvance
  Texts <- MCTexts
  Paint <- MCPaint
  NoPaint = NoPaint
  ReplacementWidth = 9
  LevelsOf <- MCLevelsOf
  Bidis <- MCBidis
  StartEdits <- MCStartEdits
  EndEdits <- MCEndEdits
  HyphensOf <- MCHyphensOf
  RunEnds <- MCRunEnds
INVARIANT NearestCaretInRun
CHECK_DEADLOCK FALSE
