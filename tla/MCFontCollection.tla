-------------------------- MODULE MCFontCollection --------------------------
(***************************************************************************)
(* Either the cmap table of one font is read: every pair of format 4       *)
(* segments and of format 12 groups of a few code points, mixes of         *)
(* subtables of every kind, variation sequences over one base table.       *)
(* Or up to three families over sixteen code points (four pages) are       *)
(* opened and texts are itemized with them:                                *)
(*   0 latin letter  1 punctuation (sticky)  2 mark (combining)  3 format  *)
(*   4 and 5 han     6 emoji base            7 emoji modifier              *)
(*   8 supplementary letter                  12 letter of one family       *)
(*   13 letter that decomposes into 0        20, 21 variation selectors    *)
(***************************************************************************)
EXTENDS FontCollection, CmapReader

Emoji == {6, 7}
MCFormat == {3}
MCSticky == {1}
MCCombining == {2}
MCEmojiModifier == {7}
MCEmojiBase == {6}
MCSupplementary == {6, 7, 8}
MCDecomposition == 13 :> 0
MCCanVary(file) == TRUE

MCLanguageTags == {"en", "ja", "zh", "und"}
MCRegionTags == {"US"}
En == Parse(<<"en", "Latn", "US">>)
Ja == Parse(<<"ja", "Jpan">>)
Zh == Parse(<<"zh", "Hans">>)
Color == Parse(<<"und", "Zsye">>)

Regular == [weight |-> 400, italic |-> FALSE]
Bold == [weight |-> 700, italic |-> FALSE]
File(groups, records, fvar) ==
    [cmap |-> <<[platformId |-> 3, encodingId |-> 10, format |-> 12, language |-> 0,
                 fits |-> "whole", segments |-> <<>>, groups |-> groups, records |-> <<>>],
                [platformId |-> 0, encodingId |-> 5, format |-> 14, language |-> 0,
                 fits |-> "whole", segments |-> <<>>, groups |-> <<>>, records |-> records]>>,
     os2 |-> [weight |-> 700, italic |-> TRUE], fvar |-> fvar, axes |-> <<>>]
Def(locales, variant, custom, file) ==
    [locales |-> locales, variant |-> variant, custom |-> custom,
     fonts |-> <<Build(File(<<<<9, 9>>>>, <<>>, {}), <<>>), Build(file, Regular), Build(file, Bold)>>]

Vs(vs, d, n) == [vs |-> vs, inFile |-> TRUE, default |-> d, nonDefault |-> n]
Latin == Def(<<En>>, "default", FALSE, File(<<<<0, 2>>>>, <<>>, {"wght"}))
HanJa == Def(<<Ja>>, "compact", FALSE,
             File(<<<<1, 2>>, <<4, 5>>>>, <<Vs(20, <<<<4, 0>>>>, <<5>>)>>, {}))
HanZh == Def(<<Zh>>, "elegant", FALSE, File(<<<<4, 5>>, <<8, 8>>>>, <<>>, {}))
ColorEmoji == Def(<<Color>>, "default", FALSE,
                  File(<<<<0, 0>>, <<6, 7>>>>, <<Vs(21, NoTable, <<6, 12>>)>>, {}))
Marks == Def(<<>>, "default", TRUE, File(<<<<2, 2>>, <<4, 4>>, <<12, 12>>>>, <<>>, {"wght"}))

MCFamilyDefs == {Latin, HanJa, HanZh, ColorEmoji, Marks}
Characters == {0, 1, 2, 3, 4, 6, 7, 13, 20, 21}
MCTexts == UNION {[1..n -> Characters] : n \in 1..2}
           \cup [1..3 -> {0, 2, 4, 6}] \cup [1..3 -> {1, 6, 21}]
           \cup {<<8, 12, 2>>, <<12, 21, 0>>, <<5, 20, 7>>, <<8, 2, 2>>, <<6, 7, 7>>, <<3, 3, 2>>, <<4, 3, 2>>}
MCWantedLocales == {<<Zh, Ja>>, <<En, Color>>}
MCWantedVariants == {"default", "elegant"}
MCVariations == {"wght" :> 1, "wdth" :> 1}

-----------------------------------------------------------------------------
NoCmap == <<>>     \* cmap, when families are opened

Table(p, e, format) ==
    [platformId |-> p, encodingId |-> e, format |-> format, language |-> 0,
     fits |-> "whole", segments |-> <<>>, groups |-> <<>>, records |-> <<>>]
Table4(p, e, segments) == [Table(p, e, 4) EXCEPT !.segments = segments]
Table12(p, e, groups) == [Table(p, e, 12) EXCEPT !.groups = groups]
Table14(records) == [Table(0, 5, 14) EXCEPT !.records = records]

UpTo(n, S) == UNION {[1..k -> S] : k \in 0..n}

Segments == [start : 0..4, end : 0..4, delta : {0, 6}, glyphs : {NoTable}]
    \cup [start : 0..4, end : 0..4, delta : {6}, glyphs : {<<1>>, <<0, 1>>, <<1, 0, 1>>}]
Groups(codes) == codes \X codes

Format4Cmaps  == {<<Table4(3, 1, b)>> : b \in UpTo(2, Segments)}
Format12Cmaps ==
    {<<Table12(3, 10, b)>> : b \in UpTo(2, Groups({0, 1, 2, 4, 15, 16}))
                                   \cup UpTo(3, Groups({1, 2, 3, 10}))}

VsTable == Table14(<<[vs |-> FirstVs, inFile |-> TRUE,
                      default |-> <<<<2, 1>>>>, nonDefault |-> NoTable]>>)
Kinds ==
    LET wide == Table12(3, 10, <<<<3, 15>>>>)
        bmp  == Table4(3, 1, <<[start |-> 1, end |-> 2, delta |-> 6, glyphs |-> NoTable]>>)
    IN {wide, bmp, VsTable, [wide EXCEPT !.language = 1], [wide EXCEPT !.fits = "head"],
        [wide EXCEPT !.fits = "no"], [bmp EXCEPT !.fits = "head"], [wide EXCEPT !.platformId = 1],
        [wide EXCEPT !.fits = "cut"], [bmp EXCEPT !.fits = "cut"], [VsTable EXCEPT !.fits = "head"], [VsTable EXCEPT !.fits = "cut"],
        [VsTable EXCEPT !.format = 12], [VsTable EXCEPT !.records[1].default = Cut],
        Table4(0, 4, <<[start |-> 0, end |-> 0, delta |-> 1, glyphs |-> NoTable]>>),
        Table(0, 3, 6)}
MixedCmaps == UpTo(3, Kinds) \ {NoCmap}

Base == Table12(3, 10, <<<<0, 1>>, <<3, 4>>>>)
Defaults == {NoTable, Cut} \cup UpTo(2, (0..4) \X (0..2))
NonDefaults == {NoTable, Cut} \cup UpTo(2, 0..5)
Record(vs, d, n) == [vs |-> vs, inFile |-> TRUE, default |-> d, nonDefault |-> n]
VsCmaps ==
    {<<Base, Table14(<<Record(FirstVs + 1, d, n)>>)>> :
         d \in Defaults, n \in NonDefaults}
    \cup {<<Table14(<<Record(v, <<<<0, 1>>>>, NoTable),
                    [Record(w, NoTable, <<3>>) EXCEPT !.inFile = f]>>), Base>> :
              v \in FirstVs - 1 .. FirstVs + 2, w \in FirstVs .. FirstVs + 2, f \in BOOLEAN}

MCCmaps == Format4Cmaps \cup Format12Cmaps \cup MixedCmaps \cup VsCmaps

FontsInit == Init /\ read = NotRead /\ (cmap = NoCmap \/ cmap \in Cmaps)
Fonts == UNCHANGED <<cmap, read>> /\ Next
FontsNext == (cmap = NoCmap /\ Fonts) \/ (cmap # NoCmap /\ Read /\ UNCHANGED vars)
FontsSpec == FontsInit /\ [][FontsNext]_<<vars, cmap, read>>

=============================================================================
