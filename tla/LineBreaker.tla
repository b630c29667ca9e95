----------------------------- MODULE LineBreaker -----------------------------
(***************************************************************************)
(* breakIntoLines (LineBreaker.cpp): a paragraph is broken by the greedy   *)
(* breaker, step by step, or by the optimal one, whose steps no one sees.  *)
(***************************************************************************)
EXTENDS OptimalLineBreaker

HasTabs == \E o \in 0..Size - 1 : Char(o) = "tab"
IsGreedy == par.strategy = "greedy" \/ HasTabs

BreakGreedily == IsGreedy /\ Next
BreakOptimally ==
  /\ ~IsGreedy /\ pc = "scan"
  /\ mBreakPoints' = BreakLineOptimal
  /\ pc' = "done"
  /\ UNCHANGED <<par, mLineWidth, mSumOfCharWidths, mStartHyphenEdit, prevWord, scanned, hyph>>

BreakIntoLines == BreakGreedily \/ BreakOptimally

LinesSpec == Init /\ [][BreakIntoLines]_vars

-----------------------------------------------------------------------------
LineStart(k) == IF k = 1 THEN 0 ELSE mBreakPoints[k - 1].offset
LimitOf(k) == GetAt(k - 1)
MayEndLine(b) == LET r == par.runs[RunAt(b - 1)] IN r.canBreak \/ b = r.end
OptimallyBroken == ~IsGreedy /\ pc = "done"

(* The width of a line as it is drawn: without the spaces it ends with.    *)
Visible(from, to) == {o \in from..to - 1 : ~IsLineEndSpace(Char(o))}
DrawnWidth(from, to) ==
  IF Visible(from, to) = {} THEN 0 ELSE SumOfWidths(from, Largest(Visible(from, to)) + 1)
HyphenWidths(k) == (IF mBreakPoints[k].startHyphen THEN HyphenWidth ELSE 0)
                   + (IF mBreakPoints[k].endHyphen THEN HyphenWidth ELSE 0)

(* What computeBreaks assumes: a line that ends, or begins, at a later     *)
(* candidate is wider, or narrower.                                        *)
Growing(candidates) ==
  \A i \in 2..Len(candidates) :
    /\ candidates[i - 1].preBreak <= candidates[i].preBreak
    /\ candidates[i - 1].postBreak <= candidates[i].postBreak
EqualWidths(context) == \A l \in 0..Len(context.candidates) : GetAt(l) = GetAt(0)

(* The lines cover the text in order and each holds at least one           *)
(* character, however it was broken.  Only the optimal breaker may put a   *)
(* hyphen on a line of its own, where it may break without a hyphen too.   *)
EveryLineHasACharacter ==
  /\ \A k \in DOMAIN mBreakPoints :
       LET offset == mBreakPoints[k].offset
       IN \/ LineStart(k) < offset
          \/ ~IsGreedy /\ LineStart(k) = offset /\ offset \in DOMAIN par.hyphen
  /\ pc = "done" => mBreakPoints # << >> /\ GetPrevLineBreakOffset = Size

(* The width reported for a line is the one its characters and hyphens are *)
(* drawn with, though both breakers find it as a difference of sums begun  *)
(* lines before.  (Not with tabs, which process places once and not again  *)
(* when their line moves, and only where no break parts the spaces after a *)
(* word, as in the text of a replacement, between desperate breaks, before *)
(* punctuation that ICU keeps with the word, or within an address.)        *)
PartsSpaces ==
  \/ \E o \in 0..Size - 1 : Char(o) = "space" /\ ~par.runs[RunAt(o)].canBreak
  \/ \E o \in 0..Size - 2 : /\ Char(o) = "space" /\ Char(o + 1) # "space"
                            /\ o + 1 \in DOMAIN par.words => IsInEmailOrUrl(o + 1)
  \/ ~IsGreedy /\ ~Growing(PopulateCandidates.candidates)
WidthsAreDrawn ==
  mBreakPoints # << >> /\ ~HasTabs /\ ~PartsSpaces =>
    \A k \in DOMAIN mBreakPoints :
      mBreakPoints[k].lineWidth = DrawnWidth(LineStart(k), mBreakPoints[k].offset) + HyphenWidths(k)

(* Greedy: a line that is too wide is one cluster, which no line could     *)
(* hold: the comment in doLineBreakWithGraphemeBounds where it gives up.   *)
OverfullIsOneCluster ==
  par.strategy = "greedy" /\ ~HasTabs =>
    \A k \in DOMAIN mBreakPoints :
      mBreakPoints[k].lineWidth > LimitOf(k) =>
        \A o \in LineStart(k) + 1..mBreakPoints[k].offset - 1 : Width(o) = 0

(* Greedy: when words fit on a line, it ends after the last one that does, *)
(* counting an email address or URL as one word.                           *)
TakesAsManyWords ==
  pc = "done" /\ par.strategy = "greedy" /\ ~HasTabs =>
    \A k \in DOMAIN mBreakPoints :
      LET fits == {b \in DOMAIN par.words : /\ MayEndLine(b) /\ b > LineStart(k) /\ ~IsInEmailOrUrl(b)
                                            /\ DrawnWidth(LineStart(k), b) <= LimitOf(k)}
      IN fits # {} => mBreakPoints[k].offset = Largest(fits)

(* A line ends with a hyphen only where the hyphenator put one that is     *)
(* seen, and the greedy breaker ends it within the limit and only when no  *)
(* longer piece of the word would fit.                                     *)
HyphenatesLongestPiece ==
  \A k \in DOMAIN mBreakPoints :
    LET offset == mBreakPoints[k].offset
        wordEnd == Smallest({b \in DOMAIN par.words : b >= offset})
        longer == {o \in DOMAIN par.hyphen : offset < o /\ o < WordRange(wordEnd).end /\ par.hyphen[o] = "here"}
    IN mBreakPoints[k].endHyphen =>
         /\ offset \in DOMAIN par.hyphen /\ par.hyphen[offset] = "here"
         /\ IsGreedy =>
              /\ mBreakPoints[k].lineWidth <= LimitOf(k)
              /\ \A o \in longer :
                   DrawnWidth(LineStart(k), o) + HyphenWidth
                     + (IF mBreakPoints[k].startHyphen THEN HyphenWidth ELSE 0) > LimitOf(k)

(* The score of a way to break, each line from a candidate to one behind   *)
(* it judged by its own width.                                             *)
DeltaOf(context, line, from, to) ==
  GetAt(line) - (context.candidates[to].postBreak - context.candidates[from].preBreak)
IsLast(context, to) == to = Len(context.candidates)
WidthScoreOf(context, line, from, to) ==
  WidthScore(context, context.candidates[from], context.candidates[to], IsLast(context, to),
             DeltaOf(context, line, from, to))
LineScore(context, line, from, to) ==
  WidthScoreOf(context, line, from, to) + context.candidates[to].penalty + LinePenalty
  + AdditionalPenalty(context.candidates[from], IsLast(context, to), DeltaOf(context, line, from, to))

(* A way to break is the sequence of the candidates its lines end at.      *)
From(path, k) == IF k = 1 THEN 1 ELSE path[k - 1]
Score(context, path) ==
  LET upTo[k \in 0..Len(path)] ==
        IF k = 0 THEN 0 ELSE upTo[k - 1] + LineScore(context, k - 1, From(path, k), path[k])
  IN upTo[Len(path)]
Paths(context) ==
  LET n == Len(context.candidates)
  IN {Ascending(set \cup {n}, 2, n) : set \in SUBSET (2..n - 1)}
Fits(context, path) ==
  \A k \in DOMAIN path : WidthScoreOf(context, k - 1, From(path, k), path[k]) # SCORE_OVERFULL

(* No line has to shrink, or is overfull, but for its last candidate.      *)
FitsButForTheLast(context, path) ==
  \A k \in DOMAIN path : \A i \in From(path, k) + 1..path[k] - 1 :
    DeltaOf(context, k - 1, From(path, k), i) >= 0

NoBetter(context, best) ==
  \A path \in Paths(context) :
    FitsButForTheLast(context, path) /\ Score(context, path) < SCORE_INFTY =>
      best <= Score(context, path)
ChosenIsBest(context) ==
  Growing(context.candidates) /\ EqualWidths(context) =>
    NoBetter(context, Score(context, Chosen(ComputeBreaks(context))))

(* The breaks the optimal breaker chooses are the best of all: no way to   *)
(* break has a smaller score, in spite of the candidates computeBreaks     *)
(* does not look at.  (For lines of one width and candidates as it assumes *)
(* them.  A line that is too long, or has to shrink, ends the search for   *)
(* longer ones from its start, though in justified text more spaces may    *)
(* shrink more: ways with such lines are not compared.)                    *)
OptimalIsBest == OptimallyBroken => ChosenIsBest(PopulateCandidates)

WordBefore(b) == Largest({0} \cup {a \in DOMAIN par.words : a < b})

(* Where the measuring pass takes a new locale: at a run it is given, of   *)
(* another locale than the last run before it that it was given.           *)
MeasuredLocale(q) ==
  LET given == {p \in 1..q - 1 : par.runs[p].canBreak}
  IN IF given = {} THEN kInvalidListId ELSE par.runs[Largest(given)].localeListId
MeasuredAnew(q) == par.runs[q].canBreak /\ MeasuredLocale(q) # par.runs[q].localeListId

RestartsBehind(q, r) ==
  /\ q # 1 => par.words[NextBoundary(RunStart(q) - 1)] = "word"
  /\ \E n \in q + 1..r : MeasuredAnew(n)
IsFollowed(r, from) ==
  /\ \A q \in 2..r : MeasuredAnew(q) => RunStart(q) < from
  /\ \A q \in 1..r : par.runs[q].canBreak \/ RestartsBehind(q, r)

OfferedIn(cands, o, end, from) ==
  LET At(p) == {i \in DOMAIN cands : cands[i].offset = p}
  IN \E i \in At(o) : /\ cands[i].hyphenType = par.hyphen[o]
                      /\ \E j \in At(from) : j < i
                      /\ \E j \in At(end) : i < j
AllOfferedIn(cands) ==
  \A o \in DOMAIN par.hyphen :
    LET r == RunAt(o)
        end == Smallest({b \in DOMAIN par.words : b > o})
        from == WordBefore(end)
    IN /\ RunStart(r) <= from /\ end <= par.runs[r].end /\ IsFollowed(r, from)
       /\ WordRange(end).start < o /\ o < WordRange(end).end
       => OfferedIn(cands, o, end, from)

(* Hyphenation is found by one pass over the text and used by another:     *)
(* every point within a word of a run that can be broken is a candidate,   *)
(* between those of the word boundaries around it.  (The measuring pass    *)
(* loses the start of the first word behind a change of locale, which is   *)
(* not hyphenated.  It is not given the runs that cannot be broken, and    *)
(* then waits for a boundary it has passed until it is given a run of      *)
(* another locale than the last one it was given: behind a replaced run,   *)
(* text of the locale before that run has no points, whatever the locale   *)
(* of the replaced run.  Where the replaced run was met within an address  *)
(* or URL or behind one, no text behind it has points: a word breaker in   *)
(* one does not begin again.)                                              *)
HyphensAreOffered ==
  OptimallyBroken /\ MEnableHyphenation => AllOfferedIn(PopulateCandidates.candidates)

PrefersFitting(context) ==
  Growing(context.candidates) /\ (\E path \in Paths(context) : Fits(context, path)) =>
    Fits(context, Chosen(ComputeBreaks(context)))

(* No line is wider than its limit where desperate breaks would avoid it:  *)
(* the comment on the scores says that they are preferred.                 *)
DesperateIsPreferred == OptimallyBroken => PrefersFitting(PopulateCandidates)

(* process ends: each of its nested loops moves on, whatever the widths,   *)
(* limits and hyphenation points are, and reads the hyphenation of the     *)
(* word it is at; with opening punctuation before the word it may not.     *)
Terminates ==
  IsGreedy /\ pc = "scan" ~> (pc = "done" \/ (pc = "undefined" /\ \E o \in 0..Size - 1 : Char(o) = "open"))
=============================================================================
