---------------------------- MODULE WordsAndLines ----------------------------
(***************************************************************************)
(* The line breakers on the boundaries of a WordBreaker: the loops over    *)
(* the runs of a text that ask it for boundaries, GreedyLineBreaker's      *)
(* process and the loop of populateCandidates with its CharProcessor.      *)
(*                                                                         *)
(* What the loop meets becomes the boundaries of par, from which the line  *)
(* breakers go on; they only read them, so that all boundaries may as well *)
(* be met before the first line is broken.                                 *)
(***************************************************************************)
EXTENDS LineBreaker

CONSTANTS Texts,                \* the units of each text
          BoundariesOf(_),      \* what ICU may answer for one
          ParagraphsOf(_),      \* its paragraphs, without boundaries
          LocaleOf(_),          \* of a run
          Ascii, Hyphens, SoftHyphen, Virama, Zwj, EmojiStyle, Emoji, EmojiModifiers, EmojiBases,
          Opening, Stripped

W == INSTANCE WordBreaker

VARIABLES text,                 \* a text of WordBreaker, or NoText
          wordBreaker,
          runsMet,              \* how many runs the loop has begun
          wordRanges            \* what wordRange() said at each boundary

wordVars == <<text, wordBreaker, runsMet, wordRanges>>

NoText == [unit |-> << >>]
NoRanges == << >>

WordsInit ==
  /\ \E u \in Texts : \E b \in BoundariesOf(u) :
       /\ text = [unit |-> u, breaks |-> b]
       /\ par \in ParagraphsOf(u)
  /\ wordBreaker = W!SetText
  /\ runsMet = 0
  /\ wordRanges = NoRanges
  /\ mBreakPoints = << >> /\ mLineWidth = 0 /\ mSumOfCharWidths = 0 /\ mStartHyphenEdit = FALSE
  /\ prevWord = NoWord /\ scanned = 0 /\ hyph = NoHyph
  /\ pc = "words"

-----------------------------------------------------------------------------
NextRun == runsMet + 1
NextRunStart == IF runsMet = Len(par.runs) THEN Size ELSE RunStart(NextRun)

(* At the start of a run both loops take its locale, if it is another one. *)
UpdatedLocale(r) ==
  IF NewLocale(par.runs, r)
  THEN W!FollowingWithLocale(text, wordBreaker, LocaleOf(r), RunStart(r))
  ELSE wordBreaker

FoundAt(r) ==
  IF UpdatedLocale(r).mInEmailOrUrl /\ ~wordBreaker.mInEmailOrUrl THEN {RunStart(r)} ELSE {}

MeetRun ==
  /\ pc = "words" /\ runsMet < Len(par.runs)
  /\ runsMet = 0 \/ wordBreaker.mCurrent > NextRunStart
  /\ wordBreaker' = UpdatedLocale(NextRun)
  /\ runsMet' = NextRun
  /\ par' = [par EXCEPT !.foundAt = @ \cup FoundAt(NextRun)]
  /\ UNCHANGED <<mBreakPoints, mLineWidth, mSumOfCharWidths, mStartHyphenEdit, prevWord, scanned, hyph, pc,
                 text, wordRanges>>

BoundaryKind ==
  CASE W!BreakBadness(wordBreaker) -> "url"
    [] wordBreaker.mInEmailOrUrl /\ ~W!BreakBadness(wordBreaker) -> "urlEnd"
    [] OTHER -> "word"
Meet(found) ==
  LET b == wordBreaker.mCurrent
      met == DOMAIN par.words \cup {b}
  IN /\ par' = [par EXCEPT !.words = [o \in met |-> IF o = b THEN BoundaryKind ELSE par.words[o]],
                           !.foundAt = @ \cup found]
     /\ wordRanges' = [o \in met |-> IF o = b THEN W!WordRange(text, wordBreaker) ELSE wordRanges[o]]
     /\ pc' = IF b = Size THEN "scan" ELSE "words"
     /\ UNCHANGED <<mBreakPoints, mLineWidth, mSumOfCharWidths, mStartHyphenEdit, prevWord, scanned, hyph,
                    text>>

(* process asks for the next boundary as soon as it has met one, ...       *)
MeetWord ==
  /\ pc = "words" /\ runsMet > 0
  /\ wordBreaker.mCurrent <= NextRunStart
  /\ IsGreedy \/ wordBreaker.mCurrent < NextRunStart \/ runsMet = Len(par.runs)
  /\ Meet({})
  /\ wordBreaker' = IF IsGreedy \/ wordBreaker.mCurrent < Size THEN W!NextBreak(text, wordBreaker)
                    ELSE wordBreaker
  /\ UNCHANGED runsMet

(* ... CharProcessor at the character behind it, which may begin a run.    *)
MeetWordAndRun ==
  LET updated == UpdatedLocale(NextRun) IN
  /\ pc = "words" /\ ~IsGreedy /\ 0 < runsMet /\ runsMet < Len(par.runs)
  /\ wordBreaker.mCurrent = NextRunStart
  /\ Meet(FoundAt(NextRun))
  /\ wordBreaker' = IF updated.mCurrent = NextRunStart THEN W!NextBreak(text, updated) ELSE updated
  /\ runsMet' = NextRun

FindWords == MeetRun \/ MeetWord \/ MeetWordAndRun

-----------------------------------------------------------------------------
WordsAndLinesInit ==
  \/ WordsInit
  \/ Init /\ text = NoText /\ wordBreaker = W!SetText /\ runsMet = 0 /\ wordRanges = NoRanges
WordsAndLinesNext ==
  \/ FindWords
  \/ BreakIntoLines /\ UNCHANGED wordVars

WordsAndLinesSpec == WordsAndLinesInit /\ [][WordsAndLinesNext]_<<vars, wordVars>>

(* One thread runs process to its end.                                     *)
FairWordsAndLinesSpec == WordsAndLinesSpec /\ WF_<<vars, wordVars>>(BreakGreedily /\ UNCHANGED wordVars)

-----------------------------------------------------------------------------
(* Whatever ICU answers, addresses and URLs, hyphens, emoji, and changes   *)
(* of locale in the middle of them, the boundaries the loops meet are      *)
(* those of a paragraph as the line breakers need it: in order, up to the  *)
(* end, each with the part of the word that may be hyphenated; the one to  *)
(* be met next is always behind those that were.                           *)
WordsMakeAParagraph ==
  /\ pc = "words" /\ runsMet > 0 => \A b \in DOMAIN par.words : b < wordBreaker.mCurrent
  /\ text # NoText /\ pc = "scan" =>
       /\ IsParagraph(par)
       /\ \A b \in DOMAIN par.words : wordRanges[b] = WordRange(b)
=============================================================================
