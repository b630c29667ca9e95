------------------------------- MODULE Carets -------------------------------
(***************************************************************************)
(* Where a caret may stand in a text and where it is drawn:                *)
(* GraphemeBreak.cpp and Measurement.cpp.                                  *)
(*                                                                         *)
(* A text is a sequence of UTF-16 units, CodeUnit(buf, i) for the code's   *)
(* buf[i]; advances is a function of the offsets of the run measured or    *)
(* NoAdvances, a null pointer.  A surrogate pair has the properties of its *)
(* lead unit.                                                              *)
(***************************************************************************)
EXTENDS Integers, SequencesExt, FiniteSetsExt

CONSTANTS
    LeadUnits, TrailUnits,
    Gcb(_),                 \* UCHAR_GRAPHEME_CLUSTER_BREAK
    TailoredExtend,         \* soft hyphen, zero width space, bidi controls, tags, ...
    SaraAm,
    Pictographic,           \* UCHAR_EXTENDED_PICTOGRAPHIC
    Virama,                 \* combining class 9 and not a pure killer
    OtherLetter,            \* general category Lo
    FlagLookBack            \* 1000 in the code

NoAdvances == <<>>
kNowhere == -1              \* (size_t)-1

CodeUnit(buf, i) == buf[i + 1]
IsPair(buf, i) == /\ i \in 0 .. Len(buf) - 2
                  /\ CodeUnit(buf, i) \in LeadUnits /\ CodeUnit(buf, i + 1) \in TrailUnits
U16_PREV(buf, start, i) == IF i - 2 >= start /\ IsPair(buf, i - 2) THEN i - 2 ELSE i - 1

\* The class of the code point at offset i; a lone surrogate is a Control.
tailoredGraphemeClusterBreak(buf, i) ==
    LET c == CodeUnit(buf, i)
    IN IF c \in TailoredExtend THEN "Extend"
       ELSE IF c = SaraAm THEN "Other"
       ELSE IF c \in LeadUnits \cup TrailUnits /\ ~IsPair(buf, i) THEN "Control"
       ELSE Gcb(c)

-----------------------------------------------------------------------------
\* The pictograph that the joiner at offset zwj follows, over its extenders.
RECURSIVE FollowsPictograph(_, _, _)
FollowsPictograph(buf, start, i) ==
    IF i <= start THEN FALSE
    ELSE LET prev == U16_PREV(buf, start, i)
         IN IF tailoredGraphemeClusterBreak(buf, prev) = "Extend" /\ prev > start
            THEN FollowsPictograph(buf, start, prev)
            ELSE CodeUnit(buf, prev) \in Pictographic

\* Where the regional indicators that end before offset i begin.
RECURSIVE FlagsBegin(_, _, _)
FlagsBegin(buf, barrier, i) ==
    IF i <= barrier THEN i
    ELSE LET prev == U16_PREV(buf, barrier, i)
         IN IF tailoredGraphemeClusterBreak(buf, prev) = "RI" THEN FlagsBegin(buf, barrier, prev) ELSE i

\* The rules of UAX 29 for the code points at back and at offset, of the
\* classes p1 and p2, from GB6 on depending on the font: a character with an
\* advance of its own begins a cluster.
IsBreakBetween(advances, buf, start, count, back, p1, offset, p2) ==
    LET Breaking == {"Control", "CR", "LF"}
        Hangul == \/ p1 = "L" /\ p2 \in {"L", "V", "LV", "LVT"}
                  \/ p1 \in {"LV", "V"} /\ p2 \in {"V", "T"}
                  \/ p1 \in {"LVT", "T"} /\ p2 = "T"
        Extended == p2 \in {"Extend", "ZWJ", "SpacingMark"} \/ p1 = "Prepend"
        EmojiSequence == /\ back > start /\ p1 = "ZWJ" /\ CodeUnit(buf, offset) \in Pictographic
                         /\ FollowsPictograph(buf, start, back)
        Flag == p1 = "RI" /\ p2 = "RI"
        WholeFlags == (offset - FlagsBegin(buf, Max({start, back - FlagLookBack}), back)) % 4 = 0
        Syllable == CodeUnit(buf, back) \in Virama /\ CodeUnit(buf, offset) \in OtherLetter
    IN CASE offset <= start \/ offset >= start + count -> TRUE
         [] CodeUnit(buf, offset) \in TrailUnits -> CodeUnit(buf, offset - 1) \notin LeadUnits
         [] p1 = "CR" /\ p2 = "LF" -> FALSE
         [] p1 \in Breaking \/ p2 \in Breaking -> TRUE
         [] Hangul -> FALSE
         [] advances # NoAdvances /\ advances[offset] # 0 -> TRUE
         [] Extended \/ EmojiSequence -> FALSE
         [] Flag -> advances = NoAdvances /\ WholeFlags
         [] OTHER -> ~Syllable

isGraphemeBreak(advances, buf, start, count, offset) ==
    LET back == U16_PREV(buf, start, offset)
    IN IsBreakBetween(advances, buf, start, count, back, tailoredGraphemeClusterBreak(buf, back),
                      offset, tailoredGraphemeClusterBreak(buf, offset))

RECURSIVE Seek(_, _, _, _, _, _)
Seek(advances, buf, start, count, offset, step) ==
    IF isGraphemeBreak(advances, buf, start, count, offset) THEN offset
    ELSE Seek(advances, buf, start, count, offset + step, step)

getTextRunCursor(advances, buf, start, count, offset, opt) ==
    LET from == CASE opt = "AFTER" /\ offset < start + count -> offset + 1
                  [] opt = "BEFORE" /\ offset > start -> offset - 1
                  [] OTHER -> offset
    IN IF opt = "AT"
       THEN IF isGraphemeBreak(advances, buf, start, count, offset) THEN offset ELSE kNowhere
       ELSE Seek(advances, buf, start, count, from, IF opt \in {"AFTER", "AT_OR_AFTER"} THEN 1 ELSE -1)

-----------------------------------------------------------------------------
SumOver(S, f(_)) == FoldSet(LAMBDA i, sum : sum + f(i), 0, S)

\* The part of a width of the font's cluster that is behind offset, when its
\* grapheme clusters share it; the bounds make every division exact.
ShareBehind(width, clusters, offset) ==
    IF clusters = {} THEN 0
    ELSE (width * Cardinality({i \in clusters : i >= offset})) \div Cardinality(clusters)

getRunAdvance(advances, buf, start, count, offset) ==
    LET wide == {i \in start .. offset - 1 : advances[i] # 0}
        lastCluster == IF wide = {} THEN start ELSE Max(wide)
        clusterWidth == IF wide = {} THEN 0 ELSE advances[lastCluster]
        nextCluster == Min({start + count} \cup {i \in offset + 1 .. start + count - 1 : advances[i] # 0})
        inLigature == offset < start + count /\ advances[offset] = 0
        clusters == {i \in lastCluster .. nextCluster - 1 : isGraphemeBreak(advances, buf, start, count, i)}
    IN SumOver(wide, LAMBDA i : advances[i])
       - (IF inLigature THEN ShareBehind(clusterWidth, clusters, offset) ELSE 0)

\* How far the search for an advance may be put off: to the last cluster of
\* the font that begins before the last grapheme cluster seen.
\* (A variant with a mistake first: to that grapheme cluster itself.)
FastForwardIntoLigature(advances, buf, start, count, advance) ==
    LET Begin(s, i) == IF isGraphemeBreak(advances, buf, start, count, i)
                       THEN [s EXCEPT !.searchStart = i, !.xSearchStart = s.x] ELSE s
        Pass(s, i) == IF advances[i] = 0 THEN s
                      ELSE [s EXCEPT !.x = @ + advances[i], !.done = s.x + advances[i] > advance]
        See(s, i) == IF s.done THEN s ELSE Pass(Begin(s, i), i)
    IN FoldLeft(See, [x |-> 0, searchStart |-> start, xSearchStart |-> 0, done |-> FALSE],
                [k \in 1 .. count |-> start + k - 1])
FastForward(advances, buf, start, count, advance) ==
    LET Begin(s, i) == IF isGraphemeBreak(advances, buf, start, count, i)
                       THEN [s EXCEPT !.searchStart = s.last, !.xSearchStart = s.xLast] ELSE s
        Pass(s, i) == IF advances[i] = 0 THEN s
                      ELSE [s EXCEPT !.last = i, !.xLast = s.x, !.x = @ + advances[i],
                                     !.done = s.x + advances[i] > advance]
        See(s, i) == IF s.done THEN s ELSE Pass(Begin(s, i), i)
    IN FoldLeft(See, [x |-> 0, last |-> start, xLast |-> 0, searchStart |-> start,
                      xSearchStart |-> 0, done |-> FALSE],
                [k \in 1 .. count |-> start + k - 1])

Abs(n) == IF n < 0 THEN -n ELSE n

\* The nearest caret behind searchStart, which is drawn at xSearchStart.  The
\* count that is passed on is count - searchStart, also where start is not 0.
SearchNearest(advances, buf, start, count, advance, searchStart, xSearchStart) ==
    LET Weigh(s, i, delta) ==
            IF s.dist = kNowhere \/ Abs(delta) < s.dist
            THEN [best |-> i, dist |-> Abs(delta), done |-> delta >= 0]
            ELSE [s EXCEPT !.done = delta >= 0]
        See(s, i) ==
            IF s.done \/ ~isGraphemeBreak(advances, buf, start, count, i) THEN s
            ELSE Weigh(s, i, getRunAdvance(advances, buf, searchStart, count - searchStart, i)
                             + xSearchStart - advance)
    IN FoldLeft(See, [best |-> searchStart, dist |-> kNowhere, done |-> FALSE],
                [k \in 1 .. start + count - searchStart + 1 |-> searchStart + k - 1]).best

getOffsetForAdvance(advances, buf, start, count, advance) ==
    LET from == FastForward(advances, buf, start, count, advance)
    IN SearchNearest(advances, buf, start, count, advance, from.searchStart, from.xSearchStart)

=============================================================================
