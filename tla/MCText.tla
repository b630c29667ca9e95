------------------------------- MODULE MCText -------------------------------
(* Small texts, measured in every way, and the carets of small runs.       *)
EXTENDS Carets, MeasuredText

-----------------------------------------------------------------------------
\* The measured texts: a word before a hyphenated one that has parts as long
\* as it is, a word that is replaced as it is hyphenated, a line end, a mark,
\* and right-to-left letters before an ideograph.
Short == <<"a", "b", " ", "c", "d", "e">>
Changed == <<"a", "b", "h", "c", " ">>
Marked == <<"lf", "a", "mark", "kan", "b">>
Mixed == <<"alef", "bet", " ", "a", "kan">>
MCTexts == {<<>>, Short, Changed, Marked, Mixed}

MCHyphensOf(t) ==
    CASE t = Short   -> <<[context |-> <<3, 6>>, offset |-> 4, thisLine |-> "INSERT_HYPHEN", nextLine |-> NO_EDIT]>>
      [] t = Changed -> <<[context |-> <<0, 5>>, offset |-> 3, thisLine |-> "REPLACE_WITH_HYPHEN",
                           nextLine |-> "INSERT_HYPHEN"]>>
      [] t = Mixed   -> <<[context |-> <<0, 3>>, offset |-> 1, thisLine |-> "INSERT_HYPHEN", nextLine |-> "INSERT_ZWJ"]>>
      [] OTHER -> <<>>
MCRunEnds(t) == {Len(t), 3} \ {0}
MCLevelsOf(t) ==
    IF t = Mixed THEN <<<<<<3, 5>>, FALSE>>, <<<<0, 3>>, TRUE>>>> ELSE <<<<<<0, Len(t)>>, FALSE>>>>

MCScriptOf(c) == CASE c \in {" ", "lf"} -> "Zyyy" [] c = "mark" -> "Zinh" [] c \in {"alef", "bet"} -> "Arab"
                   [] c = "kan" -> "Hani" [] OTHER -> "Latn"
MCFontOf(c) == IF c \in {"alef", "bet"} THEN "naskh" ELSE IF c = "kan" THEN "han" ELSE "sans"
MCGlyphAdvance(c) == CASE c = "mark" -> 0 [] c \in {"a", "c"} -> 4 [] c = "lf" -> 1 [] OTHER -> 6

Plain == [id |-> "plain", letterSpacing |-> 0, wordSpacing |-> 0]
Spaced == [id |-> "spaced", letterSpacing |-> 2, wordSpacing |-> 3]
MCPaint == {Plain, Spaced}
MCBidis == {"LTR", "FORCE_LTR", "FORCE_RTL"}
MCStartEdits == {NO_EDIT, "INSERT_HYPHEN"}
MCEndEdits == {NO_EDIT, "INSERT_HYPHEN", "REPLACE_WITH_HYPHEN"}

-----------------------------------------------------------------------------
MCGcb(c) == CASE c \in {"mark", "virama"} -> "Extend" [] c = "zwj" -> "ZWJ" [] c \in {"flag1", "flag2"} -> "RI"
              [] c = "cr" -> "CR" [] c = "lf" -> "LF" [] c = "L" -> "L" [] c = "V" -> "V" [] OTHER -> "Other"

CodePoints == {<<"a">>, <<"mark">>, <<"virama">>, <<"ka">>, <<"zwj">>, <<"pic1", "pic2">>,
               <<"L">>, <<"V">>, <<"cr">>, <<"lf">>}
Bases == {<<"a">>, <<"mark">>, <<"ka">>}
Flags == <<"flag1", "flag2", "flag1", "flag2", "flag1", "flag2">>
Positions == {5 * k - 2 : k \in 0 .. 10}

VARIABLES buf, advances     \* a run and the advances measured for it

\* A unit that cannot begin a cluster, whatever the font, has no advance.
WithAdvances(b) ==
    /\ buf = b
    /\ \E f \in [0 .. Len(b) - 1 -> {0, 12}] :
         /\ \A i \in 1 .. Len(b) - 1 :
              ~isGraphemeBreak([j \in 0 .. Len(b) - 1 |-> 1], b, 0, Len(b), i) => f[i] = 0
         /\ advances = f

CaretInit ==
    \/ \E x, y, z \in CodePoints \cup {<<>>} : WithAdvances(x \o y \o z)
    \/ \E w, x, y, z \in Bases : WithAdvances(w \o x \o y \o z)
    \/ WithAdvances(Flags)

\* Touching the run of count units that begins at start.
Nearest(start, count) ==
    LET Caret(i) == getRunAdvance(advances, buf, start, count, i)
        breaks == {i \in start .. start + count : isGraphemeBreak(advances, buf, start, count, i)}
        carets == {Caret(i) : i \in breaks}
    IN \A x \in Positions :
         LET touched == getOffsetForAdvance(advances, buf, start, count, x)
         IN /\ touched \in breaks
            /\ Abs(Caret(touched) - x) = Min({Abs(c - x) : c \in carets})

\* From any offset the cursor moves to the next caret on either side.
MovesByOne ==
    LET Cursor(i, opt) == getTextRunCursor(advances, buf, 0, Len(buf), i, opt)
        breaks == {i \in 0 .. Len(buf) : Cursor(i, "AT") = i}
    IN \A i \in 0 .. Len(buf) :
         /\ Cursor(i, "AFTER") = Min({Len(buf)} \cup {j \in breaks : j > i})
         /\ Cursor(i, "BEFORE") = Max({0} \cup {j \in breaks : j < i})
         /\ Cursor(i, "AT_OR_AFTER") = Min({j \in breaks : j >= i})
         /\ Cursor(i, "AT_OR_BEFORE") = Max({j \in breaks : j <= i})

\* A touch on a run that is a text of its own puts the caret where a caret may
\* stand, at the place that is drawn nearest to the touch, also between the
\* grapheme clusters of one ligature, and moves from there never skip a place
\* (getOffsetForAdvance, getRunAdvance, getTextRunCursor).
NearestCaret == Nearest(0, Len(buf)) /\ MovesByOne

\* The same of a run that begins later in the text, with a character that has
\* an advance, as Measurement.cpp says: "the value of offset for which the
\* measured caret comes closest to the provided advance".
NearestCaretInRun ==
    \A start \in 0 .. Len(buf) - 1 : advances[start] # 0 => Nearest(start, Len(buf) - start)

-----------------------------------------------------------------------------
TextInit == Init /\ buf = <<>> /\ advances = NoAdvances
TextAndCaretInit == \/ TextInit
                    \/ CaretInit /\ text = <<>> /\ mRuns = <<>> /\ measured = Unmeasured
TextNext == Next /\ UNCHANGED <<buf, advances>>
TextSpec == TextAndCaretInit /\ [][TextNext]_<<vars, buf, advances>>

\* Ligatures of two and three letters: "a" with advances 12, 0 or 12, 0, 0.
LigatureInit == /\ \E n \in 1 .. 3 : WithAdvances([k \in 1 .. n |-> "a"])
                /\ text = <<>> /\ mRuns = <<>> /\ measured = Unmeasured
LigatureSpec == LigatureInit /\ [][FALSE]_<<vars, buf, advances>>

=============================================================================
