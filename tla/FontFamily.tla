----------------------------- MODULE FontFamily -----------------------------
(***************************************************************************)
(* Fonts and families of fonts (FontFamily.cpp, FontUtils.cpp).            *)
(*                                                                         *)
(* A font file is [cmap, os2, fvar, axes]: os2 is NoTable or its [weight,  *)
(* italic] (NoTable also when it is too short), fvar the set of axes it    *)
(* declares ({} when the table is missing, of another version or too       *)
(* short), axes the values it was opened with.  A font is a file with the  *)
(* style it is registered under; a family is a list of fonts with a        *)
(* locale list, a variant and what one of its fonts covers.                *)
(***************************************************************************)
EXTENDS CmapCoverage, Locale

CONSTANT CanVary(_)     \* external: createFontWithVariation makes a font of the file

\* What can be opened as a family: fonts with tables that can be read.
IsFontList(fonts) ==
    /\ Len(fonts) \in Nat \ {0} /\ DOMAIN fonts = 1..Len(fonts)
    /\ \A i \in DOMAIN fonts : "cmap" \in DOMAIN fonts[i].file /\ IsCmap(fonts[i].file.cmap)

Abs(n) == IF n < 0 THEN -n ELSE n
DefaultStyle == [weight |-> 400, italic |-> FALSE]

\* Font::Builder::build: what the caller did not say comes from the file.
analyzeStyle(file) == IF file.os2 = NoTable THEN DefaultStyle ELSE file.os2
Build(file, set) ==
    [file |-> file,
     style |-> [weight |-> IF "weight" \in DOMAIN set THEN set.weight
                           ELSE analyzeStyle(file).weight,
                italic |-> IF "italic" \in DOMAIN set THEN set.italic
                           ELSE analyzeStyle(file).italic]]

\* 0 is an exact match; a hundred of weight counts 1, the slant counts 2.
computeMatch(s, t) ==
    IF s = t THEN 0
    ELSE Abs(s.weight \div 100 - t.weight \div 100) + (IF s.italic # t.italic THEN 2 ELSE 0)

computeFakery(wanted, actual) ==
    [fakeBold   |-> wanted.weight >= 600 /\ wanted.weight - actual.weight >= 200,
     fakeItalic |-> wanted.italic /\ ~actual.italic]

\* The first of the fonts that match best.
Closer(fonts, style, best, i) ==
    IF computeMatch(fonts[i].style, style) < computeMatch(fonts[best].style, style)
    THEN i ELSE best
closestFont(fonts, style) ==
    LET best[i \in 1..Len(fonts)] ==
            IF i = 1 THEN 1 ELSE Closer(fonts, style, best[i - 1], i)
    IN best[Len(fonts)]
getClosestMatch(family, style) ==
    LET i == closestFont(family.mFonts, style)
    IN [font |-> i, fakery |-> computeFakery(style, family.mFonts[i].style)]

-----------------------------------------------------------------------------
\* The family covers what the font closest to the default style covers.
Covering(locales, variant, fonts, custom, read) ==
    [mFonts |-> fonts, mLocales |-> locales, mVariant |-> variant,
     mIsColorEmoji |-> getEmojiStyle(locales) = "emoji",
     mIsCustomFallback |-> custom,
     mCoverage |-> read.coverage, mCmapFmt14Coverage |-> read.vs,
     mSupportedAxes |-> UNION {fonts[i].file.fvar : i \in DOMAIN fonts}]
NewFamily(locales, variant, fonts, custom) ==
    Covering(locales, variant, fonts, custom,
             getCoverage(fonts[closestFont(fonts, DefaultStyle)].file.cmap))

hasVSTable(family) == family.mCmapFmt14Coverage # <<>>
covers(family, ch) == get(family.mCoverage, ch)
hasGlyph(family, ch, vs) ==
    IF vs = 0 THEN covers(family, ch)
    ELSE LET sets == family.mCmapFmt14Coverage
         IN getVsIndex(vs) \in DOMAIN sets /\ get(sets[getVsIndex(vs)], ch)

\* The family with its axes at the values asked for, {} (nullptr) when none
\* of its fonts has one of the axes.  variations: axis -> value.
createFamilyWithVariation(family, variations) ==
    LET asked == DOMAIN variations
        Vary(font) ==
            IF font.file.fvar \cap asked # {} /\ CanVary(font.file)
            THEN Build([font.file EXCEPT !.axes = variations], font.style)
            ELSE Build(font.file, font.style)
    IN IF asked \cap family.mSupportedAxes = {} THEN {}
       ELSE {NewFamily(family.mLocales, family.mVariant,
                       [i \in DOMAIN family.mFonts |-> Vary(family.mFonts[i])],
                       family.mIsCustomFallback)}

=============================================================================
