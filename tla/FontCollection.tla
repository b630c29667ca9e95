--------------------------- MODULE FontCollection ---------------------------
(***************************************************************************)
(* The fonts an application draws a text with, in order of preference      *)
(* (FontCollection.cpp): which families cover which page of code points,   *)
(* which of them draws a character, and the cutting of a text into runs of *)
(* one font.                                                               *)
(*                                                                         *)
(* The system: fonts are opened as families, a collection is made of the   *)
(* families opened so far, texts are itemized with it, and it is varied.   *)
(* Indices of families and of runs start at 1.                             *)
(***************************************************************************)
EXTENDS FontFamily

CONSTANTS
    FamilyDefs,         \* [locales, variant, fonts, custom] of the families
    CharsPerPage,       \* 1 << kLogCharsPerPage: 256 in the code
    FONT_LOCALE_LIMIT,  \* 12 in the code
    EmojiStyleVs, TextStyleVs,
    Format,             \* doesNotNeedFontSupport, the variation selectors aside
    Sticky,             \* stickyWhitelist
    Combining, EmojiModifier, EmojiBase,    \* properties of characters (ICU)
    Supplementary,      \* characters of two UTF-16 units
    Decomposition,      \* character -> first character of its raw decomposition
    Texts, WantedLocales, WantedVariants, WantedStyle, Variations,
    MaxFamilies         \* bound: families opened

\* A text is made of code points, and a locale list has at most the locales
\* that LocaleListCache keeps; 5 to the power of their number fits into 28 bits.
ASSUME FontsAssumption ==
    /\ CharsPerPage \in Nat \ {0}
    /\ kMaxCodePoint \in Nat /\ FirstVs \in Nat /\ NumVs \in Nat
    /\ FONT_LOCALE_LIMIT \in 0..12
    /\ \A text \in Texts :
          text \in Seq(Nat) /\ \A i \in DOMAIN text : text[i] <= kMaxCodePoint
                                                     \/ isVariationSelector(text[i])
    /\ \A locales \in WantedLocales :
          Len(locales) \in 0..FONT_LOCALE_LIMIT /\ DOMAIN locales = 1..Len(locales)
    /\ IsFiniteSet(DOMAIN Decomposition)
    /\ \A def \in FamilyDefs : IsFontList(def.fonts)

VARIABLES
    opened,         \* the families opened, in order
    collection,     \* {} or the collection made of them
    asked           \* the last text itemized, with its runs

vars == <<opened, collection, asked>>

MaxFamilyIndex == 254   \* MAX_FAMILY_COUNT

-----------------------------------------------------------------------------
(***************************************************************************)
(* The tables of a collection.                                             *)
(***************************************************************************)
PageEndShort(i) == i * CharsPerPage
PageEnd(i) == (i + 1) * CharsPerPage

\* The members of set among 1..n, in order.
Listed(set, n) ==
    LET list[j \in 0..n] ==
            IF j = 0 THEN <<>>
            ELSE IF j \in set THEN Append(list[j - 1], j) ELSE list[j - 1]
    IN list[n]

\* The families that have a character in page i (from 0): lastChar[j] is the
\* first character of family j that no earlier page has.
Here(families, t, i) ==
    {j \in DOMAIN families : t.lastChar[j] # kNotFound /\ t.lastChar[j] < PageEnd(i)}
AddPage(families, t, i) ==
    LET here == Here(families, t, i)
    IN [lastChar |-> [j \in DOMAIN families |->
                         IF j \in here THEN nextSetBit(families[j].mCoverage, PageEnd(i))
                         ELSE t.lastChar[j]],
        pages |-> Append(t.pages, Listed(here, Len(families)))]
NoPages(families) ==
    [lastChar |-> [j \in DOMAIN families |-> nextSetBit(families[j].mCoverage, 0)],
     pages |-> <<>>]
PageTable(families, nPages) ==
    LET t[i \in 0..nPages] ==
            IF i = 0 THEN NoPages(families) ELSE AddPage(families, t[i - 1], i - 1)
    IN t[nPages].pages

NewCollection(families) ==
    LET maxChar == Max({families[j].mCoverage.mMaxVal : j \in DOMAIN families})
    IN [mFamilies |-> families,
        mMaxChar |-> maxChar,
        mRanges |-> PageTable(families, (maxChar + CharsPerPage - 1) \div CharsPerPage),
        mVSFamilyVec |-> Listed({j \in DOMAIN families : hasVSTable(families[j])},
                                Len(families)),
        mSupportedAxes |-> UNION {families[j].mSupportedAxes : j \in DOMAIN families}]

-----------------------------------------------------------------------------
(***************************************************************************)
(* The score of a family for a character: its coverage, then its locales,  *)
(* then its variant.                                                       *)
(***************************************************************************)
kUnsupportedFontScore == 0
kFirstFontScore == -1       \* UINT32_MAX: ends the search, never compared by order

calcCoverageScore(c, ch, vs, locales, j) ==
    LET family == c.mFamilies[j]
        hasVSGlyph == vs # 0 /\ hasGlyph(family, ch, vs)
        style == getEmojiStyle(locales)
        colorEmojiRequest ==
            IF vs = EmojiStyleVs THEN {TRUE} ELSE IF vs = TextStyleVs THEN {FALSE}
            ELSE IF style = "emoji" THEN {TRUE} ELSE IF style = "text" THEN {FALSE} ELSE {}
    IN IF ~hasVSGlyph /\ ~covers(family, ch) THEN kUnsupportedFontScore
       ELSE IF (vs = 0 \/ hasVSGlyph) /\ (j = 1 \/ family.mIsCustomFallback) THEN kFirstFontScore
       ELSE IF hasVSGlyph THEN 3
       ELSE IF family.mIsColorEmoji \in colorEmojiRequest THEN 2 ELSE 1

calcLocaleMatchingScore(locales, family) ==
    LET compared == Min({Len(locales), FONT_LOCALE_LIMIT})
        score[i \in 0..compared] ==
            IF i = 0 THEN 0 ELSE score[i - 1] * 5 + calcScoreFor(locales[i], family.mLocales)
    IN score[compared]

calcVariantMatchingScore(variant, family) ==
    IF family.mVariant \in {"default", variant}
       \/ (variant = "default" /\ family.mVariant = "compact") THEN 1 ELSE 0

\* The three scores in one number: 2 bits, 28 bits (5 to the power of
\* FONT_LOCALE_LIMIT has to fit) and 1 bit.
TwentyEightBits == 16384 * 16384
PackScoreSwapped(coverage, locale, variant) ==
    (coverage * 2 + variant) * TwentyEightBits + locale
PackScore(coverage, locale, variant) == (coverage * TwentyEightBits + locale) * 2 + variant

calcFamilyScore(c, ch, vs, variant, locales, j) ==
    LET coverage == calcCoverageScore(c, ch, vs, locales, j)
    IN IF coverage \in {kUnsupportedFontScore, kFirstFontScore} THEN coverage
       ELSE PackScore(coverage, calcLocaleMatchingScore(locales, c.mFamilies[j]),
                      calcVariantMatchingScore(variant, c.mFamilies[j]))

\* The families whose scores are compared: those of the character's page, or
\* all of them for a variation sequence.
Candidates(c, ch, vs) ==
    IF vs = 0 THEN c.mRanges[ch \div CharsPerPage + 1] ELSE [j \in DOMAIN c.mFamilies |-> j]

\* The first of the best; a first font score ends the search.
Better(best, j, score) ==
    IF best.first THEN best
    ELSE IF score = kFirstFontScore THEN [family |-> j, score |-> score, first |-> TRUE]
    ELSE IF score > best.score THEN [family |-> j, score |-> score, first |-> FALSE]
    ELSE best
BestCandidate(c, ch, vs, locales, variant) ==
    LET js == Candidates(c, ch, vs)
        best[k \in 0..Len(js)] ==
            IF k = 0 THEN [family |-> 0, score |-> kUnsupportedFontScore, first |-> FALSE]
            ELSE Better(best[k - 1], js[k], calcFamilyScore(c, ch, vs, variant, locales, js[k]))
    IN best[Len(js)].family

\* A character no family is found for is searched as the first of its
\* decomposition, then as the first of that one's...
Decomposed(x) == IF x \in DOMAIN Decomposition THEN Decomposition[x] ELSE x
Search(c, x, vs, locales, variant) ==
    IF x < c.mMaxChar THEN BestCandidate(c, x, vs, locales, variant) ELSE 1
SearchAgain(c, s, vs, locales, variant) ==
    IF s.family # 0 THEN s
    ELSE [ch |-> Decomposed(s.ch), family |-> Search(c, Decomposed(s.ch), vs, locales, variant)]
SearchFamily(c, ch, vs, locales, variant) ==
    LET depth == Cardinality(DOMAIN Decomposition)
        s[k \in 0..depth] ==
            IF k = 0 THEN [ch |-> ch, family |-> Search(c, ch, vs, locales, variant)]
            ELSE SearchAgain(c, s[k - 1], vs, locales, variant)
    IN s[depth].family
OrFirst(family) == IF family = 0 THEN 1 ELSE family
getFamilyForChar(c, ch, vs, locales, variant) ==
    OrFirst(SearchFamily(c, ch, vs, locales, variant))

hasVariationSelector(c, base, vs) ==
    /\ isVariationSelector(vs)
    /\ base < c.mMaxChar
    /\ \/ \E k \in DOMAIN c.mVSFamilyVec : hasGlyph(c.mFamilies[c.mVSFamilyVec[k]], base, vs)
       \/ /\ vs = TextStyleVs
          /\ \E j \in DOMAIN c.mFamilies : ~c.mFamilies[j].mIsColorEmoji
                                           /\ covers(c.mFamilies[j], base)

-----------------------------------------------------------------------------
(***************************************************************************)
(* Cutting a text into runs [family, font, start, end) of UTF-16 offsets,  *)
(* at most runMax of them.                                                 *)
(***************************************************************************)
U16_LENGTH(ch) == IF ch \in Supplementary THEN 2 ELSE 1
doesNotNeedFontSupport(ch) == ch \in Format \/ isVariationSelector(ch)

\* Punctuation and marks stay in the run of a family that has them, and
\* formatting characters in any run.
ContinuesWhatever(c, last, ch) ==
    doesNotNeedFontSupport(ch) \/ (last # 0 /\ ch \in Sticky \cup Combining)
Continues(c, last, ch) ==
    \/ doesNotNeedFontSupport(ch)
    \/ last # 0 /\ ch \in Sticky \cup Combining /\ covers(c.mFamilies[last], ch)

\* The last run gives up its last character, and goes when that was all of it.
GiveUpKeeping(runs, ch) ==
    IF runs = <<>> THEN runs
    ELSE Append(Front(runs), [Last(runs) EXCEPT !.end = @ - U16_LENGTH(ch)])
GiveUp(runs, ch) ==
    IF runs = <<>> THEN runs
    ELSE IF Last(runs).start = Last(runs).end - U16_LENGTH(ch) THEN Front(runs)
    ELSE Append(Front(runs), [Last(runs) EXCEPT !.end = @ - U16_LENGTH(ch)])

\* A mark joins the character before it when its font has that character.
Attaches(c, s, ch, family) ==
    /\ s.pos # 0
    /\ ch \in Combining \/ (ch \in EmojiModifier /\ s.prevCh \in EmojiBase)
    /\ covers(c.mFamilies[family], s.prevCh)

NewRun(c, family, start, end) ==
    [family |-> family, start |-> start, end |-> end,
     font |-> getClosestMatch(c.mFamilies[family], WantedStyle)]
Begin(c, s, family, attach) ==
    IF s.lastFamily = 0 THEN <<NewRun(c, family, 0, 0)>>
    ELSE IF attach THEN Append(GiveUp(s.runs, s.prevCh),
                               NewRun(c, family, s.pos - U16_LENGTH(s.prevCh), 0))
    ELSE Append(s.runs, NewRun(c, family, s.pos, 0))

\* s is the walk so far: its runs, the position, the character before it and
\* the family of the last run.  ch belongs to family.
Grow(runs, next) == IF runs = <<>> THEN runs ELSE [runs EXCEPT ![Len(runs)].end = next]
Pass(s, ch, family, runs, runMax) ==
    [runs |-> Grow(runs, s.pos + U16_LENGTH(ch)), pos |-> s.pos + U16_LENGTH(ch),
     prevCh |-> ch, lastFamily |-> family, done |-> Len(runs) >= 2 /\ Len(runs) - 2 = runMax]
See(c, s, ch, family, runMax) ==
    IF Continues(c, s.lastFamily, ch) \/ (s.pos # 0 /\ family = s.lastFamily)
    THEN Pass(s, ch, s.lastFamily, s.runs, runMax)
    ELSE Pass(s, ch, family, Begin(c, s, family, Attaches(c, s, ch, family)), runMax)

\* A text of nothing but characters that need no font has one run.
Runs(c, text, seen) ==
    IF seen.lastFamily # 0 \/ text = <<>> THEN seen.runs ELSE <<NewRun(c, 1, 0, seen.pos)>>
FirstOf(runs, runMax) == SubSeq(runs, 1, Min({Len(runs), runMax}))

VsBehind(text, i) == IF i < Len(text) /\ isVariationSelector(text[i + 1]) THEN text[i + 1] ELSE 0

\* What has been seen of the text behind its first i characters.
NothingSeen == [runs |-> <<>>, pos |-> 0, prevCh |-> 0, lastFamily |-> 0, done |-> FALSE]
SeeNext(c, s, text, i, locales, variant, runMax) ==
    IF s.done THEN s
    ELSE See(c, s, text[i],
             getFamilyForChar(c, text[i], VsBehind(text, i), locales, variant), runMax)
Seen(c, text, locales, variant, runMax) ==
    LET seen[i \in 0..Len(text)] ==
            IF i = 0 THEN NothingSeen
            ELSE SeeNext(c, seen[i - 1], text, i, locales, variant, runMax)
    IN seen[Len(text)]
itemize(c, text, locales, variant, runMax) ==
    FirstOf(Runs(c, text, Seen(c, text, locales, variant, runMax)), runMax)

OrSame(new, family) == IF new = {} THEN family ELSE CHOOSE f \in new : TRUE
createCollectionWithVariation(c, variations) ==
    LET Varied(family) == OrSame(createFamilyWithVariation(family, variations), family)
    IN IF DOMAIN variations \cap c.mSupportedAxes = {} THEN {}
       ELSE {NewCollection([j \in DOMAIN c.mFamilies |-> Varied(c.mFamilies[j])])}

-----------------------------------------------------------------------------
NothingAsked == [text |-> <<>>, locales |-> <<>>, variant |-> "default", runMax |-> 0,
                 runs |-> <<>>]
Init == opened = <<>> /\ collection = {} /\ asked = NothingAsked

Open(def) ==
    /\ Len(opened) < MaxFamilies /\ collection = {}
    /\ opened' = Append(opened, NewFamily(def.locales, def.variant, def.fonts, def.custom))
    /\ UNCHANGED <<collection, asked>>

Create ==
    /\ collection = {} /\ opened # <<>> /\ Len(opened) <= MaxFamilyIndex
    /\ collection' = {NewCollection(opened)}
    /\ UNCHANGED <<opened, asked>>

Itemize(text, locales, variant, runMax) ==
    \E c \in collection :
        /\ asked = NothingAsked
        /\ asked' = [text |-> text, locales |-> locales, variant |-> variant, runMax |-> runMax,
                     runs |-> itemize(c, text, locales, variant, runMax)]
        /\ UNCHANGED <<opened, collection>>

Vary(variations) ==
    \E c \in collection : asked = NothingAsked /\ \E new \in createCollectionWithVariation(c, variations) :
        collection' = {new} /\ UNCHANGED <<opened, asked>>

Next ==
    \/ \E def \in FamilyDefs : Open(def)
    \/ Create
    \/ \E text \in Texts, locales \in WantedLocales, variant \in WantedVariants :
           \E runMax \in {1, Len(text)} : Itemize(text, locales, variant, runMax)
    \/ \E variations \in Variations : Vary(variations)

Spec == Init /\ [][Next]_vars

-----------------------------------------------------------------------------
\* The offset behind n characters of a text.
Offset(text, n) ==
    LET offset[k \in 0..Len(text)] == IF k = 0 THEN 0 ELSE offset[k - 1] + U16_LENGTH(text[k])
    IN offset[n]

TileAndBegin(all, runs, runMax, end) ==
    /\ runs = SubSeq(all, 1, Min({Len(all), runMax}))
    /\ \A k \in DOMAIN all :
          /\ all[k].start = (IF k = 1 THEN 0 ELSE all[k - 1].end)
          /\ all[k].start < all[k].end
    /\ end = IF all = <<>> THEN 0 ELSE all[Len(all)].end

(* The runs of a text are not empty and follow each other from its first to  *)
(* its last unit, and asking for fewer runs gives the first of them, already *)
(* final: a mark that moves its base to a new run leaves no hole             *)
(* (FontCollection::itemize).                                                *)
RunsTileTheText ==
    \A c \in collection : asked # NothingAsked =>
        TileAndBegin(itemize(c, asked.text, asked.locales, asked.variant, Len(asked.text)),
                     asked.runs, asked.runMax, Offset(asked.text, Len(asked.text)))


CodePoints == 0..kMaxCodePoint
CanDraw(c, j, ch, vs) ==
    covers(c.mFamilies[j], ch) \/ (vs # 0 /\ hasGlyph(c.mFamilies[j], ch, vs))

ListsItsFamilies(c) ==
    /\ \A j \in DOMAIN c.mFamilies, ch \in CodePoints :
          covers(c.mFamilies[j], ch) => /\ ch < c.mMaxChar
                                        /\ ch \div CharsPerPage + 1 \in DOMAIN c.mRanges
    /\ \A i \in DOMAIN c.mRanges :
          LET page == c.mRanges[i]
          IN /\ page \in Seq(DOMAIN c.mFamilies)
             /\ \A k, l \in DOMAIN page : k < l => page[k] < page[l]
             /\ \A j \in DOMAIN c.mFamilies :
                   (\E k \in DOMAIN page : page[k] = j)
                   <=> \E ch \in CodePoints : ch \div CharsPerPage + 1 = i
                                              /\ covers(c.mFamilies[j], ch)

(* The page of a character lists, in the order of the collection, exactly    *)
(* the families with a character in that page, and no character of a family  *)
(* is behind the last one searched: the search never misses a family and     *)
(* never opens one in vain (FontCollection::init).                           *)
PagesListTheirFamilies == \A c \in collection : asked = NothingAsked => ListsItsFamilies(c)

\* <<a1, a2, ...>> is less than <<b1, b2, ...>> where they first differ.
LessAt(a, b) == \E k \in DOMAIN a : a[k] < b[k] /\ \A i \in 1 .. k - 1 : a[i] = b[i]
Merits(c, ch, vs, variant, locales, j) ==
    <<calcCoverageScore(c, ch, vs, locales, j)>>
    \o [i \in DOMAIN locales |-> calcScoreFor(locales[i], c.mFamilies[j].mLocales)]
    \o <<calcVariantMatchingScore(variant, c.mFamilies[j])>>

ChosenWell(chosen, able, sure, merits) ==
    IF sure # {} THEN chosen = Min(sure)
    ELSE /\ chosen \in able
         /\ \A j \in able :
               /\ ~LessAt(merits[chosen], merits[j])
               /\ j < chosen => merits[j] # merits[chosen]

(* A character that some family covers is given to the first family of the   *)
(* collection or custom fallback that supports it, or else to the family     *)
(* that is best by coverage, then by the first wanted locale, then by the    *)
(* next, then by variant; the earlier of two equals (getFamilyForChar,       *)
(* calcFamilyScore).                                                         *)
BestFamilyWins ==
    \A c \in collection, ch \in CodePoints, vs \in {0} \cup FirstVs .. FirstVs + NumVs - 1,
       locales \in WantedLocales, variant \in WantedVariants :
        asked = NothingAsked =>
        LET able == {j \in DOMAIN c.mFamilies : CanDraw(c, j, ch, vs)}
        IN (\E j \in able : covers(c.mFamilies[j], ch)) =>
               ChosenWell(getFamilyForChar(c, ch, vs, locales, variant), able,
                          {j \in able : calcCoverageScore(c, ch, vs, locales, j)
                                        = kFirstFontScore},
                          [j \in able |-> Merits(c, ch, vs, variant, locales, j)])

(* A character that needs a font and that some family covers is in a run     *)
(* whose family supports it, also after marks, sticky punctuation and emoji  *)
(* modifiers have moved it (itemize, getFamilyForChar).                      *)
DrawnIfCovered ==
    \A c \in collection : asked # NothingAsked =>
        \A i \in DOMAIN asked.text, k \in DOMAIN asked.runs :
            LET ch == asked.text[i]
                pos == Offset(asked.text, i - 1)
                vs == VsBehind(asked.text, i)
            IN (/\ asked.runs[k].start <= pos /\ pos < asked.runs[k].end
                /\ ~doesNotNeedFontSupport(ch)
                /\ \E j \in DOMAIN c.mFamilies : covers(c.mFamilies[j], ch))
               => CanDraw(c, asked.runs[k].family, ch, vs)

=============================================================================
