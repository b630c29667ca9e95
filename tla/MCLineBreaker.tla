---------------------------- MODULE MCLineBreaker ----------------------------
(* Families of small paragraphs, each of them every paragraph of a few      *)
(* characters of some kinds, with some boundaries, runs, hyphenation points, *)
(* line widths and styles of breaking.                                       *)
EXTENDS WordsAndLines

OneRun(n, canBreak) == {<<[end |-> n, canBreak |-> c, localeListId |-> 1, size |-> 1]>> : c \in canBreak}
TwoRuns(n, canBreak, locales) ==
  {<<[end |-> m, canBreak |-> c, localeListId |-> 1, size |-> 1],
     [end |-> n, canBreak |-> d, localeListId |-> l, size |-> 2]>> :
     m \in 1..n - 1, c \in canBreak, d \in canBreak, l \in locales}

Widths(first, rest) ==
  [firstWidth |-> first, firstLineCount |-> 1, restWidth |-> rest, indents |-> << >>, offset |-> 0]
Indented(width, offset) ==
  [firstWidth |-> width, firstLineCount |-> 1, restWidth |-> width, indents |-> <<0, 2>>, offset |-> offset]

(* Hyphenation points lie between the letters of a word; with no types of   *)
(* them there is no hyphenation.                                            *)
InWord(n, k) == {o \in 1..n - 1 : k[o][1] = "letter" /\ k[o + 1][1] = "letter"}
ParagraphsWith(n, k, wordKinds, hyphenTypes, runs, lineWidths, styles) ==
  {p \in [char : {[i \in 1..n |-> k[i][1]]}, width : {[i \in 1..n |-> k[i][2]]},
          words : UNION {[b \cup {n} -> wordKinds] : b \in SUBSET (1..n - 1)},
          foundAt : {{}}, hyphen : UNION {[b -> hyphenTypes] : b \in SUBSET InWord(n, k)},
          runs : runs, lineWidth : lineWidths, strategy : {s[1] : s \in styles},
          frequency : {s[2] : s \in styles}, isJustified : {s[3] : s \in styles}] :
     /\ <<p.strategy, p.frequency, p.isJustified>> \in styles
     /\ DOMAIN p.hyphen \cap DOMAIN p.words = {}
     /\ IsParagraph(p)}
Paragraphs(n, kinds, wordKinds, hyphenTypes, runs, lineWidths, styles) ==
  UNION {ParagraphsWith(n, k, wordKinds, hyphenTypes, runs, lineWidths, styles) : k \in [1..n -> kinds]}

Letter == <<"letter", 1>>
Space == <<"space", 1>>
Clusters == {Letter, <<"letter", 2>>, <<"letter", 0>>, Space}
Url == {"word", "url", "urlEnd"}
Greedy(frequency) == {<<"greedy", frequency, FALSE>>}

(* Clusters of several characters, wide ones and tabs, runs that cannot be  *)
(* broken and lines narrower than a cluster.                                *)
MixedParagraphs(n) ==
  Paragraphs(n, Clusters \cup {<<"tab", 1>>}, {"word"}, {}, OneRun(n, BOOLEAN) \cup TwoRuns(n, BOOLEAN, {2}),
             {Widths(1, 2), Widths(2, 2)}, Greedy("none"))

(* Addresses, URLs and hyphenation, on lines that hold every cluster.       *)
HyphenatedParagraphs(n) ==
  Paragraphs(n, {Letter, Space}, Url, {"here", "bare"}, OneRun(n, {TRUE}) \cup TwoRuns(n, {TRUE}, {2}),
             {Widths(f, r) : f \in 2..3, r \in 2..3}, Greedy("normal"))

(* Opening punctuation before the word that is hyphenated.                  *)
QuotedParagraphs(n) ==
  Paragraphs(n, {Letter, <<"open", 1>>}, {"word"}, {"here", "bare"}, OneRun(n, {TRUE}),
             {Widths(1, 3), Widths(2, 3)}, Greedy("full"))

(* For the optimal breaker: words, hyphenation and spaces that shrink;      *)
(* clusters on narrow lines; several runs; lines of different widths.       *)
JustifiedParagraphs(n) ==
  Paragraphs(n, {Letter, Space}, {"word"}, {"here", "next"}, OneRun(n, {TRUE}), {Widths(3, 3)},
             {"high", "balanced"} \X {"normal", "none"} \X BOOLEAN)
NarrowParagraphs(n) ==
  Paragraphs(n, Clusters, {"word"}, {}, OneRun(n, {TRUE}), {Widths(w, w) : w \in 1..3},
             {<<"high", "none", FALSE>>, <<"balanced", "none", TRUE>>})
AddressParagraphs(n) ==
  Paragraphs(n, {Letter, Space}, Url, {"here"}, TwoRuns(n, {TRUE}, 1..2), {Widths(2, 2)},
             {<<"high", "normal", FALSE>>})
ReplacedParagraphs(n) ==
  Paragraphs(n, {Letter, <<"letter", 0>>, Space}, {"word"}, {"here"}, TwoRuns(n, BOOLEAN, 1..2),
             {Widths(2, 2)}, {<<"high", "full", FALSE>>})
(* A run that is skipped, of the locale before it, of the one behind it, of *)
(* both or of none of them, within an address or URL, behind one or not.    *)
SkippedParagraphs(n) ==
  Paragraphs(n, {Letter}, Url, {"here"},
             {<<[end |-> 1, canBreak |-> TRUE, localeListId |-> 1, size |-> 1],
                [end |-> 2, canBreak |-> FALSE, localeListId |-> l, size |-> 1],
                [end |-> n, canBreak |-> TRUE, localeListId |-> k, size |-> 1]>> : l \in 1..3, k \in 1..2},
             {Widths(2, 2)}, {<<"high", "normal", FALSE>>})
(* Many words whose spaces make most of the width: longer lines from one    *)
(* start may shrink as well.                                                *)
SpacedParagraphs(n) ==
  {[char |-> [i \in 1..2 * n - 1 |-> IF i % 2 = 1 THEN "letter" ELSE "space"],
    width |-> [i \in 1..2 * n - 1 |-> IF i % 2 = 1 THEN 1 ELSE 4],
    words |-> [o \in {2 * i : i \in 1..n - 1} \cup {2 * n - 1} |-> "word"],
    foundAt |-> {}, hyphen |-> << >>, runs |-> r, lineWidth |-> Widths(20, 20),
    strategy |-> s, frequency |-> "none", isJustified |-> TRUE] :
     r \in OneRun(2 * n - 1, {TRUE}), s \in {"high", "balanced"}}
UnevenParagraphs(n) ==
  Paragraphs(n, {Letter, Space}, {"word"}, {"here"}, OneRun(n, {TRUE}),
             {Widths(1, 2), Widths(3, 1), Indented(3, 0), Indented(3, 5)},
             {<<"high", "normal", FALSE>>, <<"balanced", "normal", FALSE>>})

-----------------------------------------------------------------------------
(* Texts of a few units or pieces, with every choice of boundaries ICU      *)
(* could make that keeps spaces, marks and joiners with what is before      *)
(* them and, but for closing marks, breaks behind spaces; one locale, or    *)
(* the other, breaks wherever it may.                                       *)
MCAscii == {"a", "@", ":", "/", "-", "=", "("}
MCStripped == {" ", "@", ":", "/", "-", "("}
Attached == {"mark", "shy", "zwj", "style"}
KindOf(c) == CASE c = " " -> "space" [] c = "(" -> "open"
               [] c \in MCStripped \ {" ", "("} -> "close" [] OTHER -> "letter"

Breaks(u) ==
  LET May(i) == /\ u[i + 1] \notin Attached \cup {" "} /\ u[i] # "("
                /\ u[i] # " " \/ u[i + 1] \in {":", "/"}
      Must(i) == i = Len(u) \/ (u[i] = " " /\ u[i + 1] # " " /\ ~May(i))
      free == {i \in 1..Len(u) - 1 : May(i)}
      fixed == {i \in 1..Len(u) : Must(i)}
  IN {b \cup fixed : b \in SUBSET free}
Triples(pieces) == {x \o y \o z : x \in pieces, y \in pieces, z \in pieces}
Addresses == Triples({<<"a">>, <<"@">>, <<":", "/", "/">>, <<":">>, <<" ">>, <<"mark">>})
Urls == {<<"@">> \o x : x \in Triples({<<"/">>, <<"a">>, <<"-">>, <<"=">>, <<"mark">>})}
Words == Triples({<<"-">>, <<"(">>, <<"shy">>, <<"zwj">>, <<"emoji">>, <<"style">>, <<"modifier">>, <<" ">>})
MCBoundariesOf(u) ==
  LET all == UNION Breaks(u)
  IN {[en |-> b, fr |-> all] : b \in Breaks(u)}
     \cup {[en |-> all, fr |-> b] : b \in IF u \in Words THEN {} ELSE Breaks(u)}

(* Runs begin with clusters; the second one has another locale.             *)
MCParagraphsOf(u) ==
  LET n == Len(u)
      runs == OneRun(n, {TRUE}) \cup {r \in TwoRuns(n, {TRUE}, {2}) : u[r[1].end + 1] \notin Attached}
      strategies == {"greedy"} \cup (IF u \in Urls THEN {"high"} ELSE {})
  IN [char : {[i \in 1..n |-> KindOf(u[i])]}, width : {[i \in 1..n |-> IF u[i] \in Attached THEN 0 ELSE 1]},
      words : {<< >>}, foundAt : {{}}, hyphen : {<< >>}, runs : runs, lineWidth : {Widths(2, 2)},
      strategy : strategies, frequency : {"none"}, isJustified : {FALSE}]
MCLocaleOf(r) == IF r = 1 THEN "en" ELSE "fr"

MCTexts ==
  {u \in Addresses \cup Urls \cup Words :
     /\ u[1] \notin Attached
     /\ \A i \in 2..Len(u) : u[i] \in Attached \cup {" "} => u[i - 1] # "(" /\ (u[i] # " " => u[i - 1] # " ")}

AllFamilies ==
  {MixedParagraphs(n) : n \in 3..4} \cup {HyphenatedParagraphs(n) : n \in 3..4}
  \cup {AddressParagraphs(n) : n \in 3..4} \cup {ReplacedParagraphs(n) : n \in 3..4}
  \cup {QuotedParagraphs(5), JustifiedParagraphs(5), NarrowParagraphs(4), UnevenParagraphs(4),
        SkippedParagraphs(5), SpacedParagraphs(10)}

(* A second line narrower than the first.                                   *)
UnevenFamily ==
  {Paragraphs(3, {Letter, Space}, {"word"}, {}, OneRun(3, {TRUE}), {Widths(2, 1)}, {<<"high", "none", FALSE>>})}
=============================================================================
