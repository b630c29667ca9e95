SPECIFICATION FontsSpec
CONSTANTS
    ValuesPerPage = 4
    BitsPerEl = 2
    kMaximumCapacity = 100
    kMaxCodePoint = 15
    GlyphIds = 8
    FirstVs = 20
    NumVs = 2
    NoTable = NoTable
    Cut = Cut
    Cmaps <- MCCmaps
    LanguageTags <- MCLanguageTags
    RegionTags <- MCRegionTags
    CanVary <- MCCanVary
    FamilyDefs <- MCFamilyDefs
    CharsPerPage = 4
    FONT_LOCALE_LIMIT = 12
    EmojiStyleVs = 21
    TextStyleVs = 20
    Format <- MCFormat
    Sticky <- MCSticky
    Combining <- MCCombining
    EmojiModifier <- MCEmojiModifier
    EmojiBase <- MCEmojiBase
    Supplementary <- MCSupplementary
    Decomposition <- MCDecomposition
    Texts <- MCTexts
    WantedLocales <- MCWantedLocales
    WantedVariants <- MCWantedVariants
    WantedStyle <- Bold
    Variations <- MCVariations
    MaxFamilies = 3
CHECK_DEADLOCK FALSE
INVARIANTS
    CoverageIsTheMapping
    WalkMeetsAll
    SequencesAreMerged
    PagesListTheirFamilies
    BestFamilyWins
    RunsTileTheText
    DrawnIfCovered
