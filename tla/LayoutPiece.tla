---------------------------- MODULE LayoutPiece ----------------------------
(***************************************************************************)
(* Laying out a text of one paint: cutting it into words (LayoutUtils.cpp, *)
(* LayoutSplitter.h, BidiUtils.cpp), shaping a word (LayoutCore.cpp) and   *)
(* putting the words together (Layout.cpp).                                *)
(*                                                                         *)
(* A text is a sequence of units; offsets start at 0 and a range is        *)
(* <<start, end>>, end not included.  HarfBuzz is modelled by what a font  *)
(* without ligatures makes of the text: a glyph for every unit, marks in   *)
(* the cluster of their base, right to left in reverse order.              *)
(***************************************************************************)
EXTENDS Integers, SequencesExt, FiniteSetsExt

CONSTANTS
    WordSpace,              \* the unit ' '
    BreakAfter,             \* isWordBreakAfter: spaces and bidi controls
    BreakBefore,            \* ideographs, in isWordBreakBefore only
    LineSpaceExclude,       \* line feed and carriage return
    Marks,                  \* units that join the cluster before them
    ScriptOf(_),            \* hb_unicode_script
    NotSpaced,              \* scripts that are not letter spaced
    FontOf(_),              \* the font that itemize gives a unit
    GlyphAdvance(_)         \* what the font says of a unit or a hyphen

Hyphen == "hyphen"
NO_EDIT == "NO_EDIT"
NoExtent == {}

Unit(text, i) == text[i + 1]
Sub(text, range) == SubSeq(text, range[1] + 1, range[2])
Length(range) == range[2] - range[1]
SumSeq(s) == FoldLeft(+, 0, s)

-----------------------------------------------------------------------------
(***************************************************************************)
(* Words.                                                                  *)
(***************************************************************************)
isWordSpace(c) == c = WordSpace
isWordBreakAfter(c) == c \in BreakAfter
isWordBreakBefore(c) == c \in BreakAfter \cup BreakBefore

getPrevWordBreakForCacheBefore(text, at) ==
    LET offset == Min({at, Len(text)})
    IN IF at = 0 THEN 0
       ELSE Max({0} \cup {i \in 0 .. offset - 1 : isWordBreakBefore(Unit(text, i))})
getPrevWordBreakForCache(text, at) ==
    LET offset == Min({at, Len(text)})
        breaks == {i \in 1 .. offset - 1 : isWordBreakBefore(Unit(text, i))
                                           \/ isWordBreakAfter(Unit(text, i - 1))}
    IN IF at = 0 THEN 0
       ELSE IF isWordBreakBefore(Unit(text, offset - 1)) THEN offset - 1
       ELSE Max({0} \cup breaks)

getNextWordBreakForCache(text, offset) ==
    IF offset >= Len(text) THEN Len(text)
    ELSE IF isWordBreakAfter(Unit(text, offset)) THEN offset + 1
    ELSE Min({Len(text)} \cup {i \in offset + 1 .. Len(text) - 1 : isWordBreakBefore(Unit(text, i))})

\* The pieces of a range in visual order, <<context, piece>> each: the first
\* one may begin, and the last one end, inside its context.
RECURSIVE PiecesFrom(_, _, _, _)
PiecesFrom(text, range, isRtl, context) ==
    LET piece == <<Max({context[1], range[1]}), Min({context[2], range[2]})>>
        next == IF isRtl THEN <<getPrevWordBreakForCache(text, piece[1]), piece[1]>>
                ELSE <<piece[2], getNextWordBreakForCache(text, piece[2])>>
        atEnd == IF isRtl THEN piece[1] = range[1] ELSE piece[2] = range[2]
    IN <<<<context, piece>>>> \o IF atEnd THEN <<>> ELSE PiecesFrom(text, range, isRtl, next)

LayoutSplitter(text, range, isRtl) ==
    IF Length(range) = 0 THEN <<>>
    ELSE PiecesFrom(text, range, isRtl,
                    IF isRtl THEN <<getPrevWordBreakForCache(text, range[2]),
                                    getNextWordBreakForCache(text, range[2] - 1)>>
                    ELSE <<getPrevWordBreakForCache(text, range[1] + 1),
                           getNextWordBreakForCache(text, range[1])>>)

BidiTextUnclipped(range, bidi, levels) ==
    IF bidi \in {"FORCE_LTR", "FORCE_RTL"} THEN <<<<range, bidi = "FORCE_RTL">>>>
    ELSE IF Len(levels) = 1 THEN <<<<range, levels[1][2]>>>> ELSE levels

\* The visual runs <<range, isRtl>> of a range; levels gives the runs that
\* ICU finds in the whole text, and FORCE_LTR and FORCE_RTL ask for none.
BidiText(range, bidi, levels) ==
    LET Clip(run) == <<<<Max({run[1][1], range[1]}), Min({run[1][2], range[2]})>>, run[2]>>
    IN IF bidi \in {"FORCE_LTR", "FORCE_RTL"} THEN <<<<range, bidi = "FORCE_RTL">>>>
       ELSE IF Len(levels) = 1 THEN <<<<range, levels[1][2]>>>>
       ELSE SelectSeq([k \in DOMAIN levels |-> Clip(levels[k])], LAMBDA run : Length(run[1]) > 0)

-----------------------------------------------------------------------------
(***************************************************************************)
(* Shaping a word.                                                         *)
(***************************************************************************)
\* Maximal runs of one value of f over the units of a text, in order.
Between(starts, end) ==
    [k \in DOMAIN starts |-> <<starts[k], IF k = Len(starts) THEN end ELSE starts[k + 1]>>]
RunsOf(text, f(_)) ==
    Between(SelectSeq([k \in 1 .. Len(text) |-> k - 1],
                      LAMBDA i : i = 0 \/ f(Unit(text, i)) # f(Unit(text, i - 1))), Len(text))

\* The end of the script run that begins at i: the common and inherited units
\* take the script before them, the leading ones the script behind them.
RECURSIVE ScriptRunEnd(_, _, _, _)
ScriptRunEnd(text, i, end, script) ==
    LET s == ScriptOf(Unit(text, i))
    IN IF i = end THEN <<i, IF script = "Zinh" THEN "Zyyy" ELSE script>>
       ELSE IF s = script \/ s \in {"Zinh", "Zyyy"} THEN
            ScriptRunEnd(text, i + 1, end, IF script \in {"Zinh", "Zyyy"} THEN s ELSE script)
       ELSE IF script \in {"Zinh", "Zyyy"} THEN ScriptRunEnd(text, i + 1, end, s)
       ELSE <<i, script>>

RECURSIVE ScriptRuns(_, _, _)
ScriptRuns(text, start, end) ==
    IF start = end THEN <<>>
    ELSE LET to == ScriptRunEnd(text, start + 1, end, ScriptOf(Unit(text, start)))
         IN <<[start |-> start, end |-> to[1], script |-> to[2]]>> \o ScriptRuns(text, to[1], end)

IsInsertion(edit) == edit \notin {NO_EDIT, "REPLACE_WITH_HYPHEN"}
IsReplacement(edit) == edit = "REPLACE_WITH_HYPHEN"

\* The units given to HarfBuzz with their clusters.  A hyphen that begins the
\* line is in cluster 0, the cluster of the unit behind it, since the text is
\* given without what is before it; one that ends it is in the cluster of the
\* last unit, or of the unit that it replaces.
EndWithHyphen(buffer, endHyphen) ==
    LET atEnd == IF buffer = <<>> THEN 0
                 ELSE Last(buffer).cluster + (IF IsReplacement(endHyphen) THEN 1 ELSE 0)
    IN IF endHyphen = NO_EDIT THEN buffer ELSE Append(buffer, [unit |-> Hyphen, cluster |-> atEnd])

HbBuffer(text, range, script, startHyphen, endHyphen) ==
    LET itemOffset == IF startHyphen = NO_EDIT THEN range[1] + script.start ELSE 0
        itemLength == script.end - script.start - (IF IsReplacement(endHyphen) THEN 1 ELSE 0)
        item == [k \in 1 .. itemLength |->
                    [unit |-> Unit(text, range[1] + script.start + k - 1), cluster |-> itemOffset + k - 1]]
        hyphen == IF IsInsertion(startHyphen) THEN <<[unit |-> Hyphen, cluster |-> 0]>> ELSE <<>>
    IN EndWithHyphen(hyphen \o item, endHyphen)

addToHbBuffer(text, range, script, inStart, inEnd) ==
    HbBuffer(text, range, script, IF script.start = 0 THEN inStart ELSE NO_EDIT,
             IF script.end = Length(range) THEN inEnd ELSE NO_EDIT)

\* A mark is drawn in the cluster of the unit before it.
hb_shape(buffer, isRtl) ==
    LET Base(k) == Max({1} \cup {i \in 1 .. k : buffer[i].unit \notin Marks})
        glyphs == [k \in DOMAIN buffer |-> [glyph |-> buffer[k].unit,
                                            cluster |-> buffer[Base(k)].cluster]]
    IN IF isRtl THEN Reverse(glyphs) ELSE glyphs

\* Clusters as indices into the piece: the first unit's is that of the run.
Indexed(buffer, start) ==
    [k \in DOMAIN buffer |-> [buffer[k] EXCEPT !.cluster = @ - (buffer[1].cluster - start)]]

\* The glyphs of a script run added to the piece p, with half the spacing on
\* either side of each cluster.
With(p, index, width) == [p EXCEPT !.advances[index] = @ + width, !.advance = @ + width]
AddGlyphs(p, glyphs, font, half) ==
    LET Draw(q, g) ==
            With([q EXCEPT !.glyphs = Append(@, [glyph |-> g.glyph, font |-> font, cluster |-> g.cluster,
                                                 x |-> q.advance])],
                 g.cluster, GlyphAdvance(g.glyph))
        Apart(q, k) == IF k > 1 /\ glyphs[k - 1].cluster # glyphs[k].cluster
                       THEN With(With(q, glyphs[k - 1].cluster, half), glyphs[k].cluster, half) ELSE q
    IN With(FoldLeft(LAMBDA q, k : Draw(Apart(q, k), glyphs[k]), With(p, glyphs[1].cluster, half),
                     [k \in DOMAIN glyphs |-> k]),
            Last(glyphs).cluster, half)

AddScriptRun(p, text, range, isRtl, paint, font, script, startHyphen, endHyphen) ==
    LET buffer == addToHbBuffer(text, range, script, startHyphen, endHyphen)
    IN AddGlyphs(p, hb_shape(Indexed(buffer, script.start), isRtl), font,
                 IF script.script \notin NotSpaced THEN paint.letterSpacing ELSE 0)

\* The extent of a font counts unless all units of its run are line ends; they
\* are looked for from the beginning of the context, text, not of the piece.
AddFontRun(p, text, range, isRtl, paint, run, startHyphen, endHyphen) ==
    LET font == FontOf(Unit(text, range[1] + run[1]))
        needExtent == \E i \in run[1] .. run[2] - 1 : Unit(text, i) \notin LineSpaceExclude
        begun == [p EXCEPT !.extent = IF needExtent THEN @ \cup {font} ELSE @]
    IN FoldLeft(LAMBDA q, script : AddScriptRun(q, text, range, isRtl, paint, font, script,
                                                startHyphen, endHyphen),
                begun, ScriptRuns(Sub(text, range), run[1], run[2]))

\* The piece range of the context text.
Shape(text, range, isRtl, paint, startHyphen, endHyphen) ==
    LET items == RunsOf(Sub(text, range), FontOf)
    IN FoldLeft(LAMBDA p, run : AddFontRun(p, text, range, isRtl, paint, run, startHyphen, endHyphen),
                [advances |-> [i \in 0 .. Length(range) - 1 |-> 0], glyphs |-> <<>>,
                 advance |-> 0, extent |-> NoExtent],
                IF isRtl THEN Reverse(items) ELSE items)

\* A piece of a text from the layout cache, which holds what Shape makes.
getOrCreate(text, context, piece, isRtl, paint, startHyphen, endHyphen) ==
    Shape(Sub(text, context), <<piece[1] - context[1], piece[2] - context[1]>>, isRtl, paint,
          startHyphen, endHyphen)

-----------------------------------------------------------------------------
(***************************************************************************)
(* A layout put together from pieces.                                      *)
(***************************************************************************)
EmptyLayout(n) == [glyphs |-> <<>>, advances |-> [i \in 0 .. n - 1 |-> 0], advance |-> 0]

appendLayoutPiece(layout, piece, start, extraAdvance) ==
    LET n == Cardinality(DOMAIN piece.advances)
    IN [glyphs |-> layout.glyphs \o [k \in DOMAIN piece.glyphs |->
                      [piece.glyphs[k] EXCEPT !.x = @ + layout.advance, !.cluster = @ + start]],
        advances |-> [i \in DOMAIN layout.advances |->
                        IF i \notin start .. start + n - 1 THEN layout.advances[i]
                        ELSE piece.advances[i - start] + (IF i = start THEN extraAdvance ELSE 0)],
        advance |-> layout.advance + piece.advance + extraAdvance]

WordSpacing(text, range, paint) ==
    IF Length(range) = 1 /\ isWordSpace(Unit(text, range[1])) THEN paint.wordSpacing ELSE 0

StartEdit(range, piece, edit) == IF piece[1] = range[1] THEN edit ELSE NO_EDIT
EndEdit(range, piece, edit) == IF piece[2] = range[2] THEN edit ELSE NO_EDIT

doLayoutRunCached(layout, text, range, isRtl, paint, dstStart, startHyphen, endHyphen) ==
    FoldLeft(LAMBDA l, cp :
                 appendLayoutPiece(l, getOrCreate(text, cp[1], cp[2], isRtl, paint,
                                                  StartEdit(range, cp[2], startHyphen),
                                                  EndEdit(range, cp[2], endHyphen)),
                                   cp[2][1] - dstStart, WordSpacing(text, cp[2], paint)),
             layout, LayoutSplitter(text, range, isRtl))

doLayout(text, range, bidi, levels, paint, startHyphen, endHyphen) ==
    FoldLeft(LAMBDA l, run : doLayoutRunCached(l, text, run[1], run[2], paint, range[1],
                                               startHyphen, endHyphen),
             EmptyLayout(Length(range)), BidiText(range, bidi, levels))

\* The advances alone: those of a run are put where the run begins, those of
\* a piece where the piece begins.
measureText(text, range, bidi, levels, paint, startHyphen, endHyphen) ==
    LET Add(m, p, at, spacing) ==
            [advance |-> m.advance + p.advance + spacing,
             advances |-> [i \in DOMAIN m.advances |->
                             IF i - at \in DOMAIN p.advances
                             THEN p.advances[i - at] + (IF i = at THEN spacing ELSE 0)
                             ELSE m.advances[i]]]
        Piece(m, run, cp) ==
            Add(m, getOrCreate(text, cp[1], cp[2], run[2], paint, StartEdit(run[1], cp[2], startHyphen),
                               EndEdit(run[1], cp[2], endHyphen)),
                (run[1][1] - range[1]) + (cp[2][1] - run[1][1]), WordSpacing(text, cp[2], paint))
        Run(m, run) == FoldLeft(LAMBDA n, cp : Piece(n, run, cp), m, LayoutSplitter(text, run[1], run[2]))
    IN FoldLeft(Run, [advance |-> 0, advances |-> [i \in 0 .. Length(range) - 1 |-> 0]],
                BidiText(range, bidi, levels))

=============================================================================
