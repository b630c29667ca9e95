---------------------------- MODULE MeasuredText ----------------------------
(***************************************************************************)
(* A paragraph measured run by run, MeasuredText.cpp, and the pieces of    *)
(* layout it keeps for the lines that are drawn later, LayoutPieces.h.     *)
(*                                                                         *)
(* A builder is given the runs of a text in order and builds the measured  *)
(* text, with or without hyphenation, with or without keeping the pieces,  *)
(* and with an earlier measured text as a hint or with none.               *)
(***************************************************************************)
EXTENDS LayoutPiece

CONSTANTS
    Texts,
    Paint,                  \* records [id, letterSpacing, wordSpacing]
    NoPaint,
    ReplacementWidth,
    LevelsOf(_),            \* the bidi runs of a text, for BidiText
    Bidis, StartEdits, EndEdits,
    HyphensOf(_),           \* the hyphenation points of a text in order:
                            \* [context, offset, thisLine, nextLine]
    RunEnds(_)              \* bound: where the runs of a text may end

VARIABLES
    text,
    mRuns,                  \* the builder's
    measured                \* the MeasuredText built last, or Unmeasured

vars == <<text, mRuns, measured>>

NoPieces == <<>>
Unmeasured == [runs |-> <<>>, widths |-> <<>>, hyphenBreaks |-> <<>>, pieces |-> NoPieces]

Run(range, canBreak, paint, isRtl, width) ==
    [range |-> range, canBreak |-> canBreak, paint |-> paint, isRtl |-> isRtl, width |-> width]
StyleRun(range, paint, isRtl) == Run(range, TRUE, paint, isRtl, 0)
ReplacementRun(range, width) == Run(range, FALSE, NoPaint, FALSE, width)

RangeContains(outer, inner) == outer[1] <= inner[1] /\ inner[2] <= outer[2]
RangeIntersects(a, b) == a[1] < b[2] /\ b[1] < a[2]
RangeIntersection(a, b) == <<Max({a[1], b[1]}), Min({a[2], b[2]})>>

-----------------------------------------------------------------------------
(***************************************************************************)
(* LayoutPieces: what a piece looks like, by its place, direction, hyphens *)
(* and paint.                                                              *)
(***************************************************************************)
KeyWithoutEdits(piece, startEdit, endEdit, isRtl, paint) ==
    [range |-> piece, isRtl |-> isRtl, paint |-> paint]
Key(piece, startEdit, endEdit, isRtl, paint) ==
    [range |-> piece, startEdit |-> startEdit, endEdit |-> endEdit, isRtl |-> isRtl, paint |-> paint]

InsertOver(pieces, key, piece) == (key :> piece) @@ pieces
\* emplace: what is there already stays.
insert(pieces, key, piece) == pieces @@ (key :> piece)

Find(pieces, txt, cp, isRtl, paint, startEdit, endEdit) ==
    LET key == Key(cp[2], startEdit, endEdit, isRtl, paint)
    IN IF key \in DOMAIN pieces THEN pieces[key]
       ELSE getOrCreate(txt, cp[1], cp[2], isRtl, paint, startEdit, endEdit)

-----------------------------------------------------------------------------
(***************************************************************************)
(* Measuring.  m is the measured text so far.                              *)
(***************************************************************************)
getMetrics(m, txt, run, hint, computeLayout) ==
    LET Add(n, range, piece) ==
            [n EXCEPT !.widths = [i \in DOMAIN @ |-> IF i \in range[1] .. range[2] - 1
                                                     THEN piece.advances[i - range[1]] ELSE @[i]],
                      !.pieces = IF computeLayout
                                 THEN insert(@, Key(range, NO_EDIT, NO_EDIT, run.isRtl, run.paint), piece)
                                 ELSE @]
        Measure(n, cp) == Add(n, cp[2], Find(hint, txt, cp, run.isRtl, run.paint, NO_EDIT, NO_EDIT))
    IN IF ~run.canBreak THEN [m EXCEPT !.widths[run.range[1]] = run.width]
       ELSE FoldLeft(Measure, m, LayoutSplitter(txt, run.range, run.isRtl))

\* A part of a word with its hyphen, measured as a text of its own: the
\* pieces are kept under their offsets in that text.
measureHyphenPiece(pieces, part, run, startHyphen, endHyphen, computeLayout) ==
    LET range == <<0, Len(part)>>
        Add(a, key, piece) ==
            [advance |-> a.advance + piece.advance,
             pieces |-> IF computeLayout THEN insert(a.pieces, key, piece) ELSE a.pieces]
        Measure(a, cp) ==
            LET startEdit == StartEdit(range, cp[2], startHyphen)
                endEdit == EndEdit(range, cp[2], endHyphen)
            IN Add(a, Key(cp[2], startEdit, endEdit, run.isRtl, run.paint),
                   getOrCreate(part, cp[1], cp[2], run.isRtl, run.paint, startEdit, endEdit))
    IN FoldLeft(Measure, [advance |-> 0, pieces |-> pieces], LayoutSplitter(part, range, run.isRtl))

populateHyphenationPoints(m, txt, run, computeLayout) ==
    LET First(n, h) == measureHyphenPiece(n.pieces, Sub(txt, <<h.context[1], h.offset>>), run,
                                          NO_EDIT, h.thisLine, computeLayout)
        Second(pieces, h) == measureHyphenPiece(pieces, Sub(txt, <<h.offset, h.context[2]>>), run,
                                                h.nextLine, NO_EDIT, computeLayout)
        Add(n, h, first, second) ==
            [n EXCEPT !.hyphenBreaks = Append(@, [offset |-> h.offset, first |-> first.advance,
                                                  second |-> second.advance]),
                      !.pieces = second.pieces]
        Both(n, h, first) == Add(n, h, first, Second(first.pieces, h))
        Measure(n, h) == Both(n, h, First(n, h))
    IN FoldLeft(Measure, m, SelectSeq(HyphensOf(txt), LAMBDA h : RangeContains(run.range, h.context)))

measure(txt, runs, computeHyphenation, computeLayout, hint) ==
    LET Hyphenate(m, run) == IF computeHyphenation /\ run.canBreak
                             THEN populateHyphenationPoints(m, txt, run, computeLayout) ELSE m
        Measure(m, run) == Hyphenate(getMetrics(m, txt, run, hint, computeLayout), run)
        none == [Unmeasured EXCEPT !.runs = runs, !.widths = [i \in 0 .. Len(txt) - 1 |-> 0]]
    IN FoldLeft(Measure, none, IF txt = <<>> THEN <<>> ELSE runs)

-----------------------------------------------------------------------------
(***************************************************************************)
(* What is asked of a measured text.  The word spacing of a line is that   *)
(* of the measured paint, and only of a line of one space.                 *)
(***************************************************************************)
appendLayout(layout, txt, run, range, pieces, paint, outOrigin, startHyphen, endHyphen) ==
    LET Piece(cp) ==
            LET startEdit == StartEdit(range, cp[2], startHyphen)
                endEdit == EndEdit(range, cp[2], endHyphen)
            IN IF paint = run.paint THEN Find(pieces, txt, cp, run.isRtl, run.paint, startEdit, endEdit)
               ELSE getOrCreate(txt, cp[1], cp[2], run.isRtl, paint, startEdit, endEdit)
    IN IF ~run.canBreak THEN layout
       ELSE FoldLeft(LAMBDA l, cp : appendLayoutPiece(l, Piece(cp), cp[2][1] - outOrigin,
                                                      WordSpacing(txt, range, run.paint)),
                     layout, LayoutSplitter(txt, range, run.isRtl))

RunsIn(mt, range) == SelectSeq(mt.runs, LAMBDA run : RangeIntersects(range, run.range))

buildLayout(mt, txt, range, paint, startHyphen, endHyphen) ==
    LET Add(layout, run) ==
            LET target == RangeIntersection(run.range, range)
            IN appendLayout(layout, txt, run, target, mt.pieces, paint, range[1],
                            StartEdit(range, target, startHyphen), EndEdit(range, target, endHyphen))
    IN FoldLeft(Add, EmptyLayout(Length(range)), RunsIn(mt, range))

\* The pieces of a range of one run as they were measured.
PiecesAt(mt, txt, run, cps) ==
    [k \in DOMAIN cps |-> Find(mt.pieces, txt, cps[k], run.isRtl, run.paint, NO_EDIT, NO_EDIT)]
PiecesIn(mt, txt, run, range) ==
    PiecesAt(mt, txt, run, LayoutSplitter(txt, RangeIntersection(run.range, range), run.isRtl))

\* The advance of a range and its ink, the boxes of its glyphs.
getBounds(mt, txt, range) ==
    LET Shifted(glyphs, by) == {[glyph |-> glyphs[k].glyph, x |-> glyphs[k].x + by] : k \in DOMAIN glyphs}
        Join(b, piece) == [advance |-> b.advance + piece.advance,
                           ink |-> b.ink \cup Shifted(piece.glyphs, b.advance)]
        Add(b, run) == IF run.canBreak THEN FoldLeft(Join, b, PiecesIn(mt, txt, run, range))
                       ELSE [b EXCEPT !.advance = @ + run.width]
    IN FoldLeft(Add, [advance |-> 0, ink |-> {}], RunsIn(mt, range))

getExtent(mt, txt, range) ==
    LET Extend(e, run) == IF ~run.canBreak THEN e
                          ELSE FoldLeft(LAMBDA f, piece : f \cup piece.extent, e,
                                        PiecesIn(mt, txt, run, range))
    IN FoldLeft(Extend, NoExtent, RunsIn(mt, range))

-----------------------------------------------------------------------------
(***************************************************************************)
(* The builder.  The runs tile the text: their ranges are given in order.  *)
(***************************************************************************)
Built == IF mRuns = <<>> THEN 0 ELSE Last(mRuns).range[2]

Init ==
    /\ text \in Texts
    /\ mRuns = <<>>
    /\ measured = Unmeasured

AddRun(run) ==
    /\ mRuns' = Append(mRuns, run)
    /\ UNCHANGED <<text, measured>>

addStyleRun(end, paint, isRtl) == AddRun(StyleRun(<<Built, end>>, paint, isRtl))
addReplacementRun(end) == AddRun(ReplacementRun(<<Built, end>>, ReplacementWidth))

\* A hint is taken to be of the same runs, measured before in another way:
\* the code does not ask for it, see README.
build(computeHyphenation, computeLayout, hinted) ==
    /\ Built = Len(text)
    /\ hinted => measured.runs = mRuns
    /\ measured' = measure(text, mRuns, computeHyphenation, computeLayout,
                           IF hinted THEN measured.pieces ELSE NoPieces)
    /\ mRuns' = <<>>
    /\ UNCHANGED text

Next ==
    \/ \E end \in {i \in RunEnds(text) : i > Built} :
         \/ \E paint \in Paint, isRtl \in BOOLEAN : addStyleRun(end, paint, isRtl)
         \/ addReplacementRun(end)
    \/ \E computeHyphenation, computeLayout, hinted \in BOOLEAN :
         build(computeHyphenation, computeLayout, hinted)

Spec == Init /\ [][Next]_vars

-----------------------------------------------------------------------------
(***************************************************************************)
(* Properties.                                                             *)
(***************************************************************************)
\* The first two are about the text alone, and asked before it has runs; the
\* third when the runs given are all measured.
Unasked == mRuns = <<>> /\ measured = Unmeasured
RangesOf(n) == {r \in (0 .. n) \X (0 .. n) : r[1] <= r[2]}
Context(i) == <<getPrevWordBreakForCache(text, i + 1), getNextWordBreakForCache(text, i)>>

\* However a range is laid out, in either direction, its pieces tile it in
\* visual order, and each is given the whole word that its units are in: the
\* two searches for word breaks agree, so that a word has one cache entry
\* whichever line asks for it (LayoutSplitter, LayoutUtils).
Tile(range, cps) ==
    LET ends == <<range[1]>> \o [k \in DOMAIN cps |-> cps[k][2][2]]
    IN /\ Last(ends) = range[2]
       /\ \A k \in DOMAIN cps :
            /\ cps[k][2][1] = ends[k] /\ ends[k] < ends[k + 1]
            /\ \A i \in ends[k] .. ends[k + 1] - 1 : cps[k][1] = Context(i)
WordsTileTheRange ==
    Unasked => \A range \in RangesOf(Len(text)) :
        /\ Tile(range, LayoutSplitter(text, range, FALSE))
        /\ Tile(range, Reverse(LayoutSplitter(text, range, TRUE)))

\* Measuring a text and drawing it agree in every advance, for any range,
\* direction, hyphens and spacing; the advances add up to the whole, so no
\* glyph is in a cluster outside its piece (measureText, doLayout, LayoutCore).
\* A run of one unit that is replaced by one hyphen and preceded by another is
\* not asked for: the first hyphen moves the second one out of the piece.
MeasuresWhatItDraws ==
    Unasked => \A range \in RangesOf(Len(text)), bidi \in Bidis, paint \in Paint,
       startHyphen \in StartEdits, endHyphen \in EndEdits :
        LET Agree(m, drawn) ==
              /\ m.advance = drawn.advance /\ m.advances = drawn.advances
              /\ SumSeq([k \in 1 .. Length(range) |-> drawn.advances[k - 1]]) = drawn.advance
            OneUnitTwoHyphens ==
              /\ IsInsertion(startHyphen) /\ IsReplacement(endHyphen)
              /\ \E run \in ToSet(BidiText(range, bidi, LevelsOf(text))) : Length(run[1]) = 1
        IN Length(range) > 0 /\ ~OneUnitTwoHyphens =>
             Agree(measureText(text, range, bidi, LevelsOf(text), paint, startHyphen, endHyphen),
                   doLayout(text, range, bidi, LevelsOf(text), paint, startHyphen, endHyphen))

\* The lines of a paragraph that break at the ends of words, or at hyphens
\* with the edits measured, look as if laid out now: a piece kept is never
\* taken for another text, though the parts of hyphenated words are kept under
\* offsets that count from their word (LayoutPieces, appendLayout).
LayoutShowsItsText ==
    LET Anew == [measured EXCEPT !.pieces = NoPieces]
        Words == {0, Len(text)} \cup {Context(i)[1] : i \in 0 .. Len(text) - 1}
        Hyphens == {HyphensOf(text)[k] : k \in DOMAIN HyphensOf(text)}
        Starts == (Words \X {NO_EDIT}) \cup {<<h.offset, h.nextLine>> : h \in Hyphens}
        Ends == (Words \X {NO_EDIT}) \cup {<<h.offset, h.thisLine>> : h \in Hyphens}
    IN mRuns = <<>> => \A s \in Starts, e \in Ends : s[1] < e[1] =>
         LET range == <<s[1], e[1]>>
         IN /\ \A paint \in Paint : buildLayout(measured, text, range, paint, s[2], e[2])
                                    = buildLayout(Anew, text, range, paint, s[2], e[2])
            /\ {s[1], e[1]} \subseteq Words =>
                 /\ getBounds(measured, text, range) = getBounds(Anew, text, range)
                 /\ getExtent(measured, text, range) = getExtent(Anew, text, range)

\* Measuring the same runs again, with what was measured before as a hint or
\* without it, gives the same widths (getMetrics, LayoutPieces::getOrCreate).
HintsKeepWidths ==
    [][measured'.runs = measured.runs => measured'.widths = measured.widths]_vars

=============================================================================
