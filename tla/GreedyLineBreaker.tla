-------------------------- MODULE GreedyLineBreaker --------------------------
(***************************************************************************)
(* GreedyLineBreaker of libs/minikin/GreedyLineBreaker.cpp: fills one line *)
(* after the other with as many words as fit, hyphenates the first word    *)
(* that does not fit, and breaks between characters when nothing else      *)
(* helps.                                                                  *)
(*                                                                         *)
(* A paragraph is a record of the text, what the rest of minikin knows     *)
(* about it, and the parameters of the constructor.  Offsets are those of  *)
(* the code: character o lies between offsets o and o + 1 and is           *)
(* char[o + 1] in the sequence char.                                       *)
(*   char, width   each character's kind and measured width; a character   *)
(*                 of width 0 continues the grapheme cluster before it     *)
(*   words         offset of each word boundary the WordBreaker stops at   *)
(*                 -> "word"; within an email address or URL "url", and    *)
(*                 "urlEnd" at the end of it                               *)
(*   foundAt       starts of runs where a change of locale made WordBreaker *)
(*                 find an address or URL it was not in                    *)
(*   runs          the runs in order, up to offset end, each with the id   *)
(*                 of its locale list                                      *)
(*   hyphen        each hyphenation point -> its HyphenationType: "here"   *)
(*                 (a hyphen ends the line), "next" (one starts the next)  *)
(*                 or "bare" (no visible edit)                             *)
(*   lineWidth     AndroidLineWidth: firstWidth for the first              *)
(*                 firstLineCount lines and restWidth for the others, less *)
(*                 the indent of the line, indents being read from offset  *)
(*                 on, and their last one where there is none              *)
(*   frequency     HyphenationFrequency: none, normal or full              *)
(***************************************************************************)
EXTENDS Integers, Sequences
S == INSTANCE SequencesExt

CONSTANTS Families,            \* the paragraphs to break, in families
          TabWidth,             \* TabStops without explicit stops
          HyphenWidth           \* what a hyphen adds to the width of a line

(* Where process and populateCandidates, which meet every run, take a new  *)
(* locale: kInvalidListId is no run's.                                     *)
kInvalidListId == -1
NewLocale(runs, r) == (IF r = 1 THEN kInvalidListId ELSE runs[r - 1].localeListId) # runs[r].localeListId

(* What ICU, WordBreaker and the measuring of the text guarantee of a      *)
(* paragraph: spaces stay with the word before them and allow a break      *)
(* after them, but not before closing marks (rules LB7, LB13 and LB18 of   *)
(* UAX #14), clusters are divided only within an address or URL, which     *)
(* ends somewhere and goes on after a space only with closing marks, all   *)
(* of the width of a run that cannot be broken is its first character's,   *)
(* and no letter spacing makes a width negative.  WordsAndLines checks it  *)
(* of the boundaries WordBreaker finds.                                    *)
IsParagraph(p) ==
  LET n == Len(p.char)
      b == DOMAIN p.words
      start(r) == IF r = 1 THEN 0 ELSE p.runs[r - 1].end
  IN /\ n >= 1 /\ p.width \in Seq(Nat) /\ Len(p.width) = n /\ p.width[1] # 0
     /\ n \in b /\ b \subseteq 1..n
     /\ \A o \in 1..n - 1 :
          /\ p.char[o] = "space" /\ p.char[o + 1] \notin {"space", "close"} => o \in b
          /\ p.char[o + 1] = "space" /\ o \in b => p.words[o] = "url"
          /\ p.width[o + 1] = 0 /\ o \in b =>
                \/ p.words[o] = "url"
                \/ \E r \in DOMAIN p.runs : ~p.runs[r].canBreak /\ start(r) < o /\ o < p.runs[r].end
     /\ \A o \in b : p.words[o] = "url" =>
          /\ \E a \in b : /\ a > o /\ p.words[a] = "urlEnd"
                         /\ \A c \in b : o < c /\ c < a => p.words[c] = "url"
          /\ p.char[o] = "space" => p.char[o + 1] = "close"
     /\ p.foundAt \subseteq {start(r) : r \in {q \in DOMAIN p.runs : NewLocale(p.runs, q)}}
     /\ DOMAIN p.hyphen \subseteq 1..n - 1
     /\ p.runs \in Seq([end : 1..n, canBreak : BOOLEAN, localeListId : Nat, size : Nat])
     /\ p.lineWidth \in [firstWidth : Int, firstLineCount : Nat, restWidth : Int,
                         indents : Seq(Int), offset : Int]
     /\ p.runs # << >> /\ p.runs[Len(p.runs)].end = n
     /\ \A r \in DOMAIN p.runs :
          /\ start(r) < p.runs[r].end /\ p.width[start(r) + 1] # 0
          /\ ~p.runs[r].canBreak => \A o \in start(r) + 1..p.runs[r].end - 1 : p.width[o + 1] = 0

ASSUME ParagraphAssumption ==
  /\ \A family \in Families : \A p \in family : IsParagraph(p)
  /\ TabWidth \in Nat \ {0} /\ HyphenWidth \in Nat

VARIABLES par,                  \* the paragraph
          mBreakPoints,         \* the result so far
          mLineWidth,           \* of the current line, without the spaces it ends with
          mSumOfCharWidths,     \* of the current line, with them
          mStartHyphenEdit,     \* whether the current line starts with a hyphen
          prevWord,             \* the word boundary to fall back to, or Nowhere
          scanned,              \* the characters the main loop has added to the line
          hyph,                 \* local state of tryLineBreakWithHyphenation
          pc

vars == <<par, mBreakPoints, mLineWidth, mSumOfCharWidths, mStartHyphenEdit, prevWord, scanned, hyph, pc>>

NOWHERE == -1
NoWord == [offset |-> NOWHERE, lineWidth |-> 0, sum |-> 0, isInEmailOrUrl |-> FALSE]
NoHyph == [context |-> NOWHERE, next |-> NOWHERE, prev |-> NOWHERE]

-----------------------------------------------------------------------------
(* The paragraph. *)
Size == Len(par.char)
Char(o) == par.char[o + 1]
Width(o) == par.width[o + 1]
SumOfWidths(from, to) ==
  LET sum[o \in from..to] == IF o = from THEN 0 ELSE sum[o - 1] + Width(o - 1)
  IN sum[to]

Largest(s) == CHOOSE x \in s : \A y \in s : y <= x
Smallest(s) == CHOOSE x \in s : \A y \in s : x <= y

RunStart(r) == IF r = 1 THEN 0 ELSE par.runs[r - 1].end
RunAt(o) == CHOOSE r \in DOMAIN par.runs : RunStart(r) <= o /\ o < par.runs[r].end

(* isLineEndSpace; WordBreaker strips these and punctuation off a word.    *)
IsLineEndSpace(c) == c = "space"
IsStripped(c) == c \in {"space", "tab", "open", "close"}

(* WordBreaker::wordRange() while it stands at boundary b: from the        *)
(* boundary it came from, or, unless it was in an address or URL, the      *)
(* start of the run that changed the locale.                               *)
Restarts == {RunStart(r) : r \in {q \in DOMAIN par.runs : NewLocale(par.runs, q)}}
LastBoundary(b) ==
  Largest({0} \cup {a \in DOMAIN par.words : a < b}
          \cup {o \in Restarts : (par.words[b] = "word" \/ o \in par.foundAt) /\ o < b})
WordRange(b) ==
  LET last == LastBoundary(b)
      starts == {o \in last..b - 1 : Char(o) # "open"}
      ends == {o \in last..b - 1 : ~IsStripped(Char(o))}
      start == IF starts = {} THEN b ELSE Smallest(starts)
      end == IF ends = {} THEN last ELSE Largest(ends) + 1
  IN IF par.words[b] # "word" THEN [start |-> last, end |-> last]
     ELSE IF start < end THEN [start |-> start, end |-> end] ELSE [start |-> end, end |-> end]

(* breakBadness: within an email address or URL. *)
IsInEmailOrUrl(b) == par.words[b] = "url"

(* editForThisLine and editForNextLine, and Run::measureHyphenPiece.       *)
EditForThisLine(type) == type = "here"
EditForNextLine(type) == type = "next"
MeasureHyphenPiece(from, to, startHyphen, endHyphen) ==
  SumOfWidths(from, to) + (IF startHyphen THEN HyphenWidth ELSE 0) + (IF endHyphen THEN HyphenWidth ELSE 0)

NextTab(width) == (width \div TabWidth + 1) * TabWidth

(* AndroidLineWidth::getAt, for lines from 0 on.                           *)
GetAt(lineNo) ==
  LET w == par.lineWidth
      width == IF lineNo < w.firstLineCount THEN w.firstWidth ELSE w.restWidth
      index == lineNo + w.offset
      indent == IF w.indents = << >> THEN 0
                ELSE IF index \in 0..Len(w.indents) - 1 THEN w.indents[index + 1]
                ELSE w.indents[Len(w.indents)]
  IN Largest({0, width - indent})
MEnableHyphenation == par.frequency # "none"

-----------------------------------------------------------------------------
MLineWidthLimit == GetAt(Len(mBreakPoints))
GetPrevLineBreakOffset == IF mBreakPoints = << >> THEN 0 ELSE S!Last(mBreakPoints).offset
Overfull == mLineWidth > MLineWidthLimit

(* A variant with a mistake: the word boundary of the line before is kept. *)
BreakLineAtKeepingWord(offset, lineWidth, restLineWidth, restSum, endHyphen, startHyphen) ==
  /\ mBreakPoints' = Append(mBreakPoints, [offset |-> offset, lineWidth |-> lineWidth,
                                           startHyphen |-> mStartHyphenEdit, endHyphen |-> endHyphen])
  /\ mLineWidth' = restLineWidth
  /\ mSumOfCharWidths' = restSum
  /\ mStartHyphenEdit' = startHyphen
  /\ UNCHANGED prevWord

(* breakLineAt: the line ends at offset; the widths are what the rest of   *)
(* the scanned characters brings to the next line.                         *)
BreakLineAt(offset, lineWidth, restLineWidth, restSum, endHyphen, startHyphen) ==
  /\ mBreakPoints' = Append(mBreakPoints, [offset |-> offset, lineWidth |-> lineWidth,
                                           startHyphen |-> mStartHyphenEdit, endHyphen |-> endHyphen])
  /\ mLineWidth' = restLineWidth
  /\ mSumOfCharWidths' = restSum
  /\ mStartHyphenEdit' = startHyphen
  /\ prevWord' = NoWord

(* A variant with a mistake: the cluster is added after the comparison.    *)
CutInBeforeAdding(from, to) ==
  {o \in from + 1..to - 1 : Width(o) # 0 /\ SumOfWidths(from, o) > MLineWidthLimit}

(* doLineBreakWithGraphemeBounds: the first cluster that does not fit, if  *)
(* any, starts the next line.  CutIn is empty when it returns true.        *)
CutIn(from, to) ==
  {o \in from + 1..to - 1 : Width(o) # 0 /\ SumOfWidths(from, o + 1) > MLineWidthLimit}
DoLineBreakWithGraphemeBounds(from, to) ==
  LET cuts == CutIn(from, to)
      cut == Smallest(cuts)
      width == SumOfWidths(from, cut)
  IN IF cuts = {} THEN BreakLineAt(to, mLineWidth, 0, 0, FALSE, FALSE)
     ELSE BreakLineAt(cut, width, mLineWidth - width, mSumOfCharWidths - width, FALSE, FALSE)

Init ==
  /\ \E family \in Families : par \in family
  /\ mBreakPoints = << >>
  /\ mLineWidth = 0 /\ mSumOfCharWidths = 0
  /\ mStartHyphenEdit = FALSE
  /\ prevWord = NoWord
  /\ scanned = 0
  /\ hyph = NoHyph
  /\ pc = "scan"

-----------------------------------------------------------------------------
(* updateLineWidth *)
UpdateLineWidth(c, width) ==
  LET sum == IF c = "tab" THEN NextTab(mSumOfCharWidths) ELSE mSumOfCharWidths + width
  IN /\ mSumOfCharWidths' = sum
     /\ mLineWidth' = IF IsLineEndSpace(c) THEN mLineWidth ELSE sum

(* The main loop of process: add a character; at a word boundary, unless   *)
(* it is inside a run that cannot be broken, see whether the line fits.    *)
Scan ==
  LET run == par.runs[RunAt(scanned)] IN
  /\ pc = "scan" /\ scanned < Size
  /\ UpdateLineWidth(Char(scanned), Width(scanned))
  /\ scanned' = scanned + 1
  /\ pc' = IF scanned' \in DOMAIN par.words /\ (run.canBreak \/ scanned' = run.end) THEN "fit" ELSE "scan"
  /\ UNCHANGED <<par, mBreakPoints, mStartHyphenEdit, prevWord, hyph>>

(* tryLineBreakWithWordBreak, first choice of processLineBreak. *)
BreakAtWord ==
  /\ pc = "fit" /\ Overfull /\ prevWord # NoWord
  /\ BreakLineAt(prevWord.offset, prevWord.lineWidth, mLineWidth - prevWord.sum,
                 mSumOfCharWidths - prevWord.sum, FALSE, FALSE)
  /\ UNCHANGED <<par, scanned, hyph, pc>>

(* tryLineBreakWithHyphenation, second choice: only within one run that    *)
(* can be broken, and if all of the word is still to be placed.            *)
MayHyphenate ==
  /\ MEnableHyphenation
  /\ LET run == RunAt(scanned - 1)
         word == WordRange(scanned)
     IN /\ par.runs[run].canBreak
        /\ RunStart(run) <= GetPrevLineBreakOffset
        /\ GetPrevLineBreakOffset <= word.start

StartHyphenating ==
  /\ pc = "fit" /\ Overfull /\ prevWord = NoWord /\ MayHyphenate
  /\ hyph' = [context |-> GetPrevLineBreakOffset, next |-> WordRange(scanned).start, prev |-> NOWHERE]
  /\ pc' = "hyphenate"
  /\ UNCHANGED <<par, mBreakPoints, mLineWidth, mSumOfCharWidths, mStartHyphenEdit, prevWord, scanned>>

(* hyphenResult: what hyphenate finds inside the word, never its start.    *)
HyphenResult == {o \in DOMAIN par.hyphen : WordRange(scanned).start < o /\ o < WordRange(scanned).end}
HyphensLeft == {o \in HyphenResult : hyph.next <= o}
ReadsOutside == hyph.next < WordRange(scanned).start
PieceWidth(o) == MeasureHyphenPiece(hyph.context, o, mStartHyphenEdit, EditForThisLine(par.hyphen[o]))

(* A variant with a mistake: the spaces after the word count as drawn.     *)
BreakPieceForgettingSpaces ==
  IF hyph.prev = NOWHERE THEN DoLineBreakWithGraphemeBounds(hyph.context, scanned)
  ELSE LET type == par.hyphen[hyph.prev]
           rest == MeasureHyphenPiece(hyph.prev, scanned, EditForNextLine(type), FALSE)
       IN BreakLineAt(hyph.prev, PieceWidth(hyph.prev), rest, rest, EditForThisLine(type), EditForNextLine(type))

(* The line ends with the longest piece that fits, or, when not even the   *)
(* shortest does, between two characters.                                  *)
BreakPiece ==
  IF hyph.prev = NOWHERE THEN DoLineBreakWithGraphemeBounds(hyph.context, scanned)
  ELSE LET type == par.hyphen[hyph.prev]
           rest == MeasureHyphenPiece(hyph.prev, scanned, EditForNextLine(type), FALSE)
       IN BreakLineAt(hyph.prev, PieceWidth(hyph.prev), rest - (mSumOfCharWidths - mLineWidth), rest,
                      EditForThisLine(type), EditForNextLine(type))

(* A variant with a mistake: the shortest piece is kept.                   *)
KeepFirstPiece ==
  /\ pc = "hyphenate" /\ ~ReadsOutside /\ HyphensLeft # {}
  /\ PieceWidth(Smallest(HyphensLeft)) <= MLineWidthLimit
  /\ hyph' = [hyph EXCEPT !.prev = IF @ = NOWHERE THEN Smallest(HyphensLeft) ELSE @,
                          !.next = Smallest(HyphensLeft) + 1]
  /\ UNCHANGED <<par, mBreakPoints, mLineWidth, mSumOfCharWidths, mStartHyphenEdit, prevWord, scanned, pc>>

(* A variant with a mistake: the loop does not move on.                    *)
KeepPieceAgain ==
  /\ pc = "hyphenate" /\ ~ReadsOutside /\ HyphensLeft # {}
  /\ PieceWidth(Smallest(HyphensLeft)) <= MLineWidthLimit
  /\ hyph' = [hyph EXCEPT !.prev = Smallest(HyphensLeft)]
  /\ UNCHANGED <<par, mBreakPoints, mLineWidth, mSumOfCharWidths, mStartHyphenEdit, prevWord, scanned, pc>>

(* One round of its loop, for the next hyphenation point. *)
KeepPiece ==
  /\ pc = "hyphenate" /\ ~ReadsOutside /\ HyphensLeft # {}
  /\ PieceWidth(Smallest(HyphensLeft)) <= MLineWidthLimit
  /\ hyph' = [hyph EXCEPT !.prev = Smallest(HyphensLeft), !.next = Smallest(HyphensLeft) + 1]
  /\ UNCHANGED <<par, mBreakPoints, mLineWidth, mSumOfCharWidths, mStartHyphenEdit, prevWord, scanned, pc>>

BreakInWord ==
  /\ UNCHANGED <<par, scanned>>
  /\ pc = "hyphenate" /\ ~ReadsOutside /\ HyphensLeft # {}
  /\ PieceWidth(Smallest(HyphensLeft)) > MLineWidthLimit
  /\ BreakPiece
  /\ IF mLineWidth' <= MLineWidthLimit' THEN pc' = "fit" /\ hyph' = NoHyph
     ELSE /\ hyph' = [context |-> GetPrevLineBreakOffset', next |-> GetPrevLineBreakOffset' + 1,
                      prev |-> NOWHERE]
          /\ UNCHANGED pc

(* The loop is over: the last piece that fits ends the line. *)
BreakLastPiece ==
  /\ pc = "hyphenate" /\ ~ReadsOutside /\ HyphensLeft = {}
  /\ BreakPiece
  /\ hyph' = NoHyph /\ pc' = "fit"
  /\ UNCHANGED <<par, scanned>>

(* The loop reads hyphenResult outside its bounds: undefined behaviour,    *)
(* and the model stops there.                                              *)
ReadOutside ==
  /\ pc = "hyphenate" /\ ReadsOutside
  /\ pc' = "undefined"
  /\ UNCHANGED <<par, mBreakPoints, mLineWidth, mSumOfCharWidths, mStartHyphenEdit, prevWord, scanned, hyph>>

(* Third choice of processLineBreak, which returns when it gave up. *)
BreakAtGrapheme ==
  /\ pc = "fit" /\ Overfull /\ prevWord = NoWord /\ ~MayHyphenate
  /\ DoLineBreakWithGraphemeBounds(GetPrevLineBreakOffset, scanned)
  /\ pc' = IF CutIn(GetPrevLineBreakOffset, scanned) = {} THEN "scan" ELSE "fit"
  /\ UNCHANGED <<par, scanned, hyph>>

(* A variant with a mistake: addresses and URLs are nothing special.       *)
RememberAnyWord ==
  /\ pc = "fit" /\ ~Overfull
  /\ prevWord' = [offset |-> scanned, lineWidth |-> mLineWidth, sum |-> mSumOfCharWidths,
                  isInEmailOrUrl |-> IsInEmailOrUrl(scanned)]
  /\ pc' = "scan"
  /\ UNCHANGED <<par, mBreakPoints, mLineWidth, mSumOfCharWidths, mStartHyphenEdit, scanned, hyph>>

(* The line fits: processLineBreak remembers the boundary, but prefers one *)
(* outside email addresses and URLs.                                       *)
RememberWord ==
  LET isInEmailOrUrl == IsInEmailOrUrl(scanned) IN
  /\ pc = "fit" /\ ~Overfull
  /\ prevWord' = IF prevWord = NoWord \/ prevWord.isInEmailOrUrl \/ ~isInEmailOrUrl
                 THEN [offset |-> scanned, lineWidth |-> mLineWidth, sum |-> mSumOfCharWidths,
                       isInEmailOrUrl |-> isInEmailOrUrl]
                 ELSE prevWord
  /\ pc' = "scan"
  /\ UNCHANGED <<par, mBreakPoints, mLineWidth, mSumOfCharWidths, mStartHyphenEdit, scanned, hyph>>

(* The end of process: the words left make the last line. *)
Finish ==
  /\ pc = "scan" /\ scanned = Size
  /\ IF GetPrevLineBreakOffset # Size /\ prevWord # NoWord
     THEN BreakLineAt(prevWord.offset, mLineWidth, 0, 0, FALSE, FALSE)
     ELSE UNCHANGED <<mBreakPoints, mLineWidth, mSumOfCharWidths, mStartHyphenEdit, prevWord>>
  /\ pc' = "done"
  /\ UNCHANGED <<par, scanned, hyph>>

Next ==
  \/ Scan \/ BreakAtWord \/ StartHyphenating \/ KeepPiece \/ BreakInWord \/ BreakLastPiece
  \/ ReadOutside \/ BreakAtGrapheme \/ RememberWord \/ Finish

Spec == Init /\ [][Next]_vars
==============================================================================
