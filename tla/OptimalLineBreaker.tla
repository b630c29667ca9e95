-------------------------- MODULE OptimalLineBreaker --------------------------
(***************************************************************************)
(* breakLineOptimal (OptimalLineBreaker.cpp) and the measuring of the      *)
(* hyphenation points it uses (MeasuredText.cpp, LineBreakerUtil.h): of    *)
(* all ways to break the paragraph at its candidates the one of the        *)
(* smallest score.  A paragraph also has                                   *)
(*   strategy, isJustified   "high" (quality) or "balanced"                *)
(*   runs[r].size            the paint's size times its scaleX             *)
(*                                                                         *)
(* Scores are counted in quarters, to be whole numbers; SCORE_OVERFULL and *)
(* the other large scores are parameters that have to be larger than all   *)
(* scores of lines, as the code says of its own.                           *)
(***************************************************************************)
EXTENDS GreedyLineBreaker

CONSTANTS SCORE_INFTY, SCORE_OVERFULL, SCORE_DESPERATE
ASSUME ScoresAssumption == {SCORE_INFTY, SCORE_OVERFULL, SCORE_DESPERATE} \subseteq Nat

LAST_LINE_PENALTY_MULTIPLIER == 4
LINE_PENALTY_MULTIPLIER == 2
SHRINK_PENALTY_MULTIPLIER == 4

-----------------------------------------------------------------------------
(* CharProcessor: sums over the characters so far.  A word break the       *)
(* caller may not use is not taken as the start of the next word.          *)
IsWordSpace(c) == c = "space"
Proc == [rawSpaceCount |-> 0, effectiveSpaceCount |-> 0, sumOfCharWidths |-> 0,
         effectiveWidth |-> 0, sumOfCharWidthsAtPrevWordBreak |-> 0,
         nextWordBreak |-> 0, prevWordBreak |-> 0, spaceWidth |-> 0, localeListId |-> kInvalidListId]

NextBoundary(o) == Smallest({b \in DOMAIN par.words : b > o} \cup {Size})

(* The locale is that of the last run this processor was given, and not    *)
(* always that of the run before.                                          *)
UpdateLocaleIfNecessary(proc, run) ==
  LET b == proc.nextWordBreak
      inEmailOrUrl == b \in DOMAIN par.words /\ par.words[b] # "word"
  IN IF proc.localeListId # par.runs[run].localeListId
     THEN [proc EXCEPT !.nextWordBreak = IF inEmailOrUrl THEN @ ELSE NextBoundary(RunStart(run)),
                       !.localeListId = par.runs[run].localeListId]
     ELSE proc

FeedChar(proc, o, canBreakHere) ==
  LET at == o = proc.nextWordBreak
      sum == proc.sumOfCharWidths + Width(o)
      spaces == proc.rawSpaceCount + (IF IsWordSpace(Char(o)) THEN 1 ELSE 0)
      drawn == ~IsLineEndSpace(Char(o))
  IN [rawSpaceCount |-> spaces,
      effectiveSpaceCount |-> IF drawn THEN spaces ELSE proc.effectiveSpaceCount,
      sumOfCharWidths |-> sum,
      effectiveWidth |-> IF drawn THEN sum ELSE proc.effectiveWidth,
      sumOfCharWidthsAtPrevWordBreak |->
        IF at /\ canBreakHere THEN proc.sumOfCharWidths ELSE proc.sumOfCharWidthsAtPrevWordBreak,
      prevWordBreak |-> IF at /\ canBreakHere THEN o ELSE proc.prevWordBreak,
      nextWordBreak |-> IF at THEN NextBoundary(o) ELSE proc.nextWordBreak,
      spaceWidth |-> IF IsWordSpace(Char(o)) THEN Width(o) ELSE proc.spaceWidth,
      localeListId |-> proc.localeListId]

Feed(proc, o) ==
  LET run == RunAt(o)
  IN FeedChar(IF o = RunStart(run) THEN UpdateLocaleIfNecessary(proc, run) ELSE proc,
              o, par.runs[run].canBreak \/ o + 1 = par.runs[run].end)

-----------------------------------------------------------------------------
(* The members of a set in a range, in order.                              *)
Ascending(set, first, last) ==
  LET upTo[k \in first - 1..last] ==
        IF k = first - 1 THEN << >> ELSE IF k \in set THEN Append(upTo[k - 1], k) ELSE upTo[k - 1]
  IN upTo[last]

(* The hyphenation points of the word the processor has just completed,    *)
(* with the widths of the pieces before and behind each.                   *)
PopulateHyphenationPoints(run, proc) ==
  LET context == [start |-> proc.prevWordBreak, end |-> proc.nextWordBreak]
      word == WordRange(proc.nextWordBreak)
      inside == /\ word.start < word.end
                /\ RunStart(run) <= context.start /\ context.end <= par.runs[run].end
                /\ context.start <= word.start /\ word.end <= context.end
      points == Ascending(DOMAIN par.hyphen, word.start + 1, word.end - 1)
      Break(o) == [offset |-> o, type |-> par.hyphen[o],
                   first |-> MeasureHyphenPiece(context.start, o, FALSE, EditForThisLine(par.hyphen[o])),
                   second |-> MeasureHyphenPiece(o, context.end, EditForNextLine(par.hyphen[o]), FALSE)]
  IN IF inside THEN [k \in DOMAIN points |-> Break(points[k])] ELSE << >>

(* MeasuredText::measure: runs that cannot be broken are not fed to the    *)
(* processor at all, nor are their locales.  The boundaries are taken to   *)
(* be the same wherever a pass begins to look for them.                    *)
MeasureStep(s, o, proc) ==
  [proc |-> proc,
   breaks |-> IF o + 1 # proc.nextWordBreak THEN s.breaks
              ELSE s.breaks \o PopulateHyphenationPoints(RunAt(o), proc)]
MeasureChar(s, o) ==
  IF par.runs[RunAt(o)].canBreak THEN MeasureStep(s, o, Feed(s.proc, o)) ELSE s
MeasuredHyphenBreaks ==
  LET upTo[o \in 0..Size] ==
        IF o = 0 THEN [proc |-> Proc, breaks |-> << >>] ELSE MeasureChar(upTo[o - 1], o - 1)
  IN upTo[Size].breaks

-----------------------------------------------------------------------------
(* The candidates.                                                         *)
PushDesperate(d, proc) ==
  LET sum == proc.sumOfCharWidthsAtPrevWordBreak + d.sumOfChars
  IN [offset |-> d.offset, preBreak |-> sum, postBreak |-> sum, penalty |-> SCORE_DESPERATE,
      preSpaceCount |-> proc.effectiveSpaceCount, postSpaceCount |-> proc.effectiveSpaceCount,
      hyphenType |-> "bare"]
PushHyphenation(h, proc, penalty) ==
  [offset |-> h.offset, preBreak |-> proc.sumOfCharWidths - h.second,
   postBreak |-> proc.sumOfCharWidthsAtPrevWordBreak + h.first, penalty |-> penalty,
   preSpaceCount |-> proc.effectiveSpaceCount, postSpaceCount |-> proc.effectiveSpaceCount,
   hyphenType |-> h.type]
PushWordBreak(offset, proc, penalty) ==
  [offset |-> offset, preBreak |-> proc.sumOfCharWidths, postBreak |-> proc.effectiveWidth,
   penalty |-> penalty, preSpaceCount |-> proc.rawSpaceCount,
   postSpaceCount |-> proc.effectiveSpaceCount, hyphenType |-> "bare"]

(* computePenalties *)
HyphenPenalty(run) ==
  IF ~par.runs[run].canBreak THEN 0
  ELSE (2 * par.runs[run].size * GetAt(0) * (IF par.frequency = "normal" THEN 4 ELSE 1))
         \div (IF par.isJustified THEN 4 ELSE 1)
LinePenalty ==
  IF par.isJustified THEN 0
  ELSE LINE_PENALTY_MULTIPLIER * Largest({HyphenPenalty(r) : r \in DOMAIN par.runs})

PopulateDesperatePoints(from, to) ==
  LET offsets == Ascending({o \in from + 1..to - 1 : Width(o) # 0}, from + 1, to - 1)
  IN [k \in DOMAIN offsets |-> [offset |-> offsets[k], sumOfChars |-> SumOfWidths(from, offsets[k])]]

(* appendWithMerging: the breaks of both lists in the order of their       *)
(* offsets; where both point to one offset, the desperate break is first.  *)
DesperateIsNext(m, hyphens, desperates) ==
  /\ m.d <= Len(desperates)
  /\ m.h > Len(hyphens) \/ desperates[m.d].offset <= hyphens[m.h].offset
TakeDesperate(m, desperates, proc) ==
  [m EXCEPT !.d = @ + 1, !.out = Append(@, PushDesperate(desperates[m.d], proc))]
TakeHyphen(m, hyphens, proc, penalty) ==
  [m EXCEPT !.h = @ + 1, !.out = Append(@, PushHyphenation(hyphens[m.h], proc, penalty))]

(* A variant with a mistake: of two breaks at one offset one is dropped.   *)
TakeOneOfTwo(m, hyphens, desperates, proc, penalty) ==
  IF DesperateIsNext(m, hyphens, desperates)
  THEN IF m.h <= Len(hyphens) /\ desperates[m.d].offset = hyphens[m.h].offset
       THEN [TakeDesperate(m, desperates, proc) EXCEPT !.h = @ + 1]
       ELSE TakeDesperate(m, desperates, proc)
  ELSE IF m.h <= Len(hyphens) THEN TakeHyphen(m, hyphens, proc, penalty) ELSE m
Take(m, hyphens, desperates, proc, penalty) ==
  IF DesperateIsNext(m, hyphens, desperates) THEN TakeDesperate(m, desperates, proc)
  ELSE TakeHyphen(m, hyphens, proc, penalty)

AppendWithMerging(hyphens, desperates, proc, penalty) ==
  LET n == Len(hyphens) + Len(desperates)
      merged[k \in 0..n] ==
        IF k = 0 THEN [d |-> 1, h |-> 1, out |-> << >>]
        ELSE Take(merged[k - 1], hyphens, desperates, proc, penalty)
  IN merged[n].out

(* getMin: the least of the widths of the lines, without asking for all.   *)
(* With an offset below -1 the index of the second line wraps around.      *)
GetMin ==
  LET w == par.lineWidth
      indented == IF w.offset < -1 THEN {} ELSE 1..Len(w.indents) - w.offset - 1
  IN Smallest({GetAt(l) : l \in {0, w.firstLineCount} \cup indented})

(* populateCandidates: at each word boundary the points within the word,   *)
(* if it may be hyphenated or is wider than some line, then the boundary,  *)
(* unless it is inside a run that is one replacement.                      *)
Mergeable(hyphens, proc, end, penalty) ==
  AppendWithMerging(
    IF MEnableHyphenation THEN hyphens ELSE << >>,
    IF proc.effectiveWidth - proc.sumOfCharWidthsAtPrevWordBreak > GetMin
    THEN PopulateDesperatePoints(proc.prevWordBreak, end) ELSE << >>,
    proc, penalty)
WordCandidate(run, end, proc, penalty) ==
  IF par.runs[run].canBreak \/ end = par.runs[run].end \/ Width(end) > 0
  THEN <<PushWordBreak(end, proc, IF IsInEmailOrUrl(end) THEN penalty ELSE 0)>> ELSE << >>

(* hyIter moves on over the hyphenation points before the boundary.        *)
HyphensUpTo(breaks, hyIter, end) ==
  Smallest({h \in hyIter..Len(breaks) : breaks[h].offset >= end} \cup {Len(breaks) + 1})
PassBoundary(breaks, s, run, end, proc) ==
  LET next == HyphensUpTo(breaks, s.hyIter, end)
      penalty == HyphenPenalty(run)
  IN [proc |-> proc, hyIter |-> next,
      candidates |-> s.candidates \o Mergeable(SubSeq(breaks, s.hyIter, next - 1), proc, end, penalty)
                                  \o WordCandidate(run, end, proc, penalty)]
AddCandidates(breaks, s, run, end, proc) ==
  IF end = proc.nextWordBreak THEN PassBoundary(breaks, s, run, end, proc) ELSE [s EXCEPT !.proc = proc]

FirstCandidate == [offset |-> 0, preBreak |-> 0, postBreak |-> 0, penalty |-> 0,
                   preSpaceCount |-> 0, postSpaceCount |-> 0, hyphenType |-> "bare"]
PopulateChar(breaks, s, o) == AddCandidates(breaks, s, RunAt(o), o + 1, Feed(s.proc, o))
Populated(breaks) ==
  LET upTo[o \in 0..Size] ==
        IF o = 0 THEN [proc |-> Proc, hyIter |-> 1, candidates |-> <<FirstCandidate>>]
        ELSE PopulateChar(breaks, upTo[o - 1], o - 1)
  IN upTo[Size]
Context(all) == [candidates |-> all.candidates, spaceWidth |-> all.proc.spaceWidth]
PopulateCandidates == Context(Populated(MeasuredHyphenBreaks))

-----------------------------------------------------------------------------
(* computeBreaks.  The score of a line depends on how much narrower than   *)
(* its limit it is (delta).                                                *)

(* maxShrink is a third of a space per space; the difference of the counts *)
(* is unsigned and would be huge where the line has a negative number.     *)
Shrinks(context, from, to, delta) ==
  LET spaces == to.postSpaceCount - from.preSpaceCount
  IN /\ par.isJustified
     /\ IF spaces < 0 THEN context.spaceWidth > 0 ELSE -3 * delta < context.spaceWidth * spaces

WidthScore(context, from, to, atEnd, delta) ==
  IF delta < 0
  THEN IF ~atEnd /\ Shrinks(context, from, to, delta)
       THEN 4 * delta * delta * SHRINK_PENALTY_MULTIPLIER ELSE SCORE_OVERFULL
  ELSE IF atEnd /\ par.strategy # "balanced" THEN 0 ELSE 4 * delta * delta

AdditionalPenalty(from, atEnd, delta) ==
  IF delta >= 0 /\ atEnd /\ par.strategy # "balanced" THEN LAST_LINE_PENALTY_MULTIPLIER * from.penalty
  ELSE 0

(* The line before which candidate j would begin, of the width of its      *)
(* number; leftEdge is found with the width before it.                     *)
AtLine(t, line, widthNew, postBreak) ==
  IF widthNew = t.width THEN [t EXCEPT !.lineNumberLast = line]
  ELSE [t EXCEPT !.lineNumberLast = line, !.width = widthNew,
                 !.leftEdge = postBreak - t.width, !.bestHope = 0]

(* A variant with a mistake: the hope includes the penalty.                *)
TryHopingLess(t, j, jScore, delta, widthScore, penalty) ==
  LET score == jScore + widthScore + penalty
      tried == IF delta < 0 THEN [t EXCEPT !.active = j + 1]
               ELSE [t EXCEPT !.bestHope = widthScore + penalty]
  IN IF score <= t.best THEN [tried EXCEPT !.best = score, !.bestPrev = j] ELSE tried
Try(t, j, jScore, delta, widthScore, penalty) ==
  LET score == jScore + widthScore + penalty
      tried == IF delta < 0 THEN [t EXCEPT !.active = j + 1]
               ELSE [t EXCEPT !.bestHope = widthScore]
  IN IF score <= t.best THEN [tried EXCEPT !.best = score, !.bestPrev = j] ELSE tried

(* The j-th candidate as the start of a line that ends at the i-th.        *)
Weigh(context, t, i, j, jScore, delta) ==
  LET from == context.candidates[j]
      atEnd == i = Len(context.candidates)
  IN Try(t, j, jScore, delta, WidthScore(context, from, context.candidates[i], atEnd, delta),
         AdditionalPenalty(from, atEnd, delta))
Consider(context, t, i, j, jScore) ==
  IF jScore + t.bestHope >= t.best THEN t
  ELSE Weigh(context, t, i, j, jScore, context.candidates[j].preBreak - t.leftEdge)
Begin(context, data, t, i, j) ==
  LET line == data[j].lineNumber
  IN Consider(context,
              AtLine(t, line, IF line # t.lineNumberLast THEN GetAt(line) ELSE t.width,
                     context.candidates[i].postBreak),
              i, j, data[j].score)

Decide(context, s, i, t) ==
  [active |-> t.active,
   data |-> Append(s.data, [score |-> t.best + context.candidates[i].penalty + LinePenalty,
                            prev |-> t.bestPrev,
                            lineNumber |-> s.data[t.bestPrev].lineNumber + 1])]
StartOf(context, s, i) ==
  LET line == s.data[s.active].lineNumber
  IN [active |-> s.active, best |-> SCORE_INFTY, bestPrev |-> 1, lineNumberLast |-> line,
      width |-> GetAt(line), leftEdge |-> context.candidates[i].postBreak - GetAt(line), bestHope |-> 0]
TryAll(context, s, i) ==
  LET upTo[j \in s.active - 1..i - 1] ==
        IF j = s.active - 1 THEN StartOf(context, s, i) ELSE Begin(context, s.data, upTo[j - 1], i, j)
  IN upTo[i - 1]
End(context, s, i) == Decide(context, s, i, TryAll(context, s, i))

ComputeBreaks(context) ==
  LET upTo[i \in 1..Len(context.candidates)] ==
        IF i = 1 THEN [active |-> 1, data |-> <<[score |-> 0, prev |-> 1, lineNumber |-> 0]>>]
        ELSE End(context, upTo[i - 1], i)
  IN upTo[Len(context.candidates)].data

(* finishBreaksOptimal follows the links back from the last candidate.     *)
Chosen(data) ==
  LET n == Len(data)
      path[i \in 1..n] == IF i = 1 THEN << >> ELSE Append(path[data[i].prev], i)
  IN path[n]
FinishBreaksOptimal(candidates, chosen) ==
  [k \in DOMAIN chosen |->
     LET cand == candidates[chosen[k]]
         prev == IF k = 1 THEN candidates[1] ELSE candidates[chosen[k - 1]]
     IN [offset |-> cand.offset, lineWidth |-> cand.postBreak - prev.preBreak,
         startHyphen |-> EditForNextLine(prev.hyphenType),
         endHyphen |-> EditForThisLine(cand.hyphenType)]]

BreaksOf(context) ==
  FinishBreaksOptimal(context.candidates, Chosen(ComputeBreaks(context)))
BreakLineOptimal == BreaksOf(PopulateCandidates)
=============================================================================
