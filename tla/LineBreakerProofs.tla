-------------------------- MODULE LineBreakerProofs --------------------------
(***************************************************************************)
(* Both line breakers for any paragraphs, of any length, with any widths   *)
(* of characters, hyphens and lines.                                       *)
(*                                                                         *)
(* The greedy breaker.  Whatever the widths are, the lines follow each     *)
(* other through the text (Inv): the word boundary to fall back to and the *)
(* hyphenation loop are never behind the last break, and once all          *)
(* characters are scanned the end of the text is broken at or remembered.  *)
(*                                                                         *)
(* What the properties of LineBreaker say of widths, words and hyphens     *)
(* holds of each line as it is added (GoodLine), because of what the       *)
(* breaker knows then (Filling): both widths are those of the characters   *)
(* since the last break (Measured); a boundary that it has passed and that *)
(* is better than the one to fall back to lies before that one (Placed),   *)
(* which fits (FellBack); and the piece of a word that the hyphenation     *)
(* loop keeps fits, the next one being the first that may not (Piecing).   *)
(* Each action that breaks is shown to move the start of the line to an    *)
(* offset, adding a good line (Moves), from which Filling follows once for *)
(* all (MovesFilling).                                                     *)
(*                                                                         *)
(* The optimal breaker is one step, whose loops are recursive functions:   *)
(* what is known after each turn of a loop (Searched, Known) is shown of   *)
(* all turns, by the first turn that would break it.  The candidates are   *)
(* made of numbers (Typed), whatever the paragraph is, and those of a word *)
(* that can be hyphenated are all there (at the end).                      *)
(***************************************************************************)
EXTENDS LineBreaker, WellFoundedInduction, TLAPS

(* The lines follow each other in the text, and once process is done they  *)
(* have all of it.                                                         *)
LinesCoverTheText ==
  /\ \A k \in 1..Len(mBreakPoints) - 1 : mBreakPoints[k].offset <= mBreakPoints[k + 1].offset
  /\ pc = "done" => mBreakPoints # << >> /\ GetPrevLineBreakOffset = Size

HyphState == [context : Int, next : Int, prev : Int]
Breaks ==
  /\ \E T : mBreakPoints \in Seq(T)
  /\ \A k \in DOMAIN mBreakPoints : mBreakPoints[k].offset \in Int
  /\ \A k \in 1..Len(mBreakPoints) - 1 : mBreakPoints[k].offset <= mBreakPoints[k + 1].offset
  /\ GetPrevLineBreakOffset \in 0..scanned
Scanning ==
  /\ scanned \in 0..Size
  /\ pc \in {"fit", "hyphenate"} => scanned \in DOMAIN par.words
Remembered ==
  prevWord # NoWord => prevWord.offset \in GetPrevLineBreakOffset..scanned
Hyphenating ==
  /\ hyph \in HyphState
  /\ pc = "hyphenate" => /\ hyph.context = GetPrevLineBreakOffset
                         /\ hyph.context <= hyph.next
                         /\ hyph.prev = NOWHERE \/ hyph.prev \in GetPrevLineBreakOffset..scanned
EndKept ==
  /\ pc = "scan" /\ scanned = Size /\ GetPrevLineBreakOffset # Size =>
       prevWord # NoWord /\ prevWord.offset = Size
  /\ pc = "done" => GetPrevLineBreakOffset = Size

Inv == IsParagraph(par) /\ Breaks /\ Scanning /\ Remembered /\ Hyphenating /\ EndKept

-----------------------------------------------------------------------------
(* Least and greatest members. *)
LEMMA SmallestExists ==
  ASSUME NEW s \in SUBSET Nat, s # {}
  PROVE  Smallest(s) \in s /\ \A y \in s : Smallest(s) <= y
<1> DEFINE R == OpToRel(<, Nat)
<1>1. \A x, y \in Nat : y < x => <<y, x>> \in R
  BY DEF OpToRel
<1>2. IsWellFoundedOn(R, Nat)
  BY NatLessThanWellFounded
<1> HIDE DEF R
<1>3. PICK x \in s : \A y \in s : <<y, x>> \notin R
  BY <1>2, WFMin
<1>4. \A y \in s : x <= y
  <2> SUFFICES ASSUME NEW y \in s PROVE x <= y
    OBVIOUS
  <2>1. x \in Nat /\ y \in Nat
    OBVIOUS
  <2>2. ~ (y < x)
    BY <1>1, <1>3, <2>1
  <2>. QED  BY <2>1, <2>2
<1>. QED  BY <1>4 DEF Smallest

LEMMA LargestExists ==
  ASSUME NEW n \in Nat, NEW s \in SUBSET (0..n), s # {}
  PROVE  Largest(s) \in s /\ \A y \in s : y <= Largest(s)
<1> DEFINE t == {m \in 0..n : n - m \in s}
<1>1. PICK y \in s : TRUE
  OBVIOUS
<1>2. n - y \in t
  BY <1>1
<1>3. t \in SUBSET Nat /\ t # {}
  BY <1>2
<1>4. PICK z \in t : \A u \in t : z <= u
  BY <1>3, SmallestExists
<1>5. n - z \in s /\ n - z \in 0..n
  BY <1>4
<1>6. \A x \in s : x <= n - z
  <2> SUFFICES ASSUME NEW x \in s PROVE x <= n - z
    OBVIOUS
  <2>1. x \in 0..n /\ n - (n - x) = x
    OBVIOUS
  <2>2. n - x \in t
    BY <2>1
  <2>. QED  BY <1>4, <1>5, <2>1, <2>2
<1>. QED  BY <1>5, <1>6 DEF Largest

-----------------------------------------------------------------------------
(* The paragraph. *)
LEMMA ParagraphShape ==
  ASSUME IsParagraph(par)
  PROVE  /\ Size \in Nat /\ Size >= 1
         /\ Size \in DOMAIN par.words /\ DOMAIN par.words \subseteq 1..Size
         /\ DOMAIN par.hyphen \subseteq 1..Size - 1
         /\ \A r \in DOMAIN par.runs : par.runs[r].end \in 1..Size /\ RunStart(r) \in Nat
         /\ \E r \in DOMAIN par.runs : RunStart(r) <= Size - 1 /\ Size - 1 < par.runs[r].end
         /\ par.words[Size] # "url"
<1> DEFINE runs == par.runs  n == Len(par.char)
<1>1. n >= 1 /\ n \in DOMAIN par.words /\ DOMAIN par.words \subseteq 1..n
  BY DEF IsParagraph
<1>2. n \in Nat
  BY <1>1
<1>3. /\ runs \in Seq([end : 1..n, canBreak : BOOLEAN, localeListId : Nat, size : Nat])
      /\ runs # << >> /\ runs[Len(runs)].end = n
  BY DEF IsParagraph
<1>4. Len(runs) \in DOMAIN runs /\ DOMAIN runs = 1..Len(runs) /\ Len(runs) \in Nat
  BY <1>3
<1>5. \A r \in DOMAIN runs : runs[r].end \in 1..n
  <2> SUFFICES ASSUME NEW r \in DOMAIN runs PROVE runs[r].end \in 1..n
    OBVIOUS
  <2> DEFINE Run == [end : 1..n, canBreak : BOOLEAN, localeListId : Nat, size : Nat]
  <2>1. \A i \in 1..Len(runs) : runs[i] \in Run
    <3>1. runs \in Seq(Run)
      BY <1>3
    <3> HIDE DEF Run, runs
    <3>. QED  BY <3>1
  <2>2. runs[r] \in Run
    BY <1>4, <2>1
  <2>. QED  BY <2>2
<1>6. \A r \in DOMAIN runs : RunStart(r) \in Nat
  BY <1>2, <1>4, <1>5 DEF RunStart
<1>7. RunStart(Len(runs)) < runs[Len(runs)].end
  BY <1>4 DEF IsParagraph, RunStart
<1>8. par.words[n] # "url"
  <2> SUFFICES ASSUME par.words[n] = "url" PROVE FALSE
    OBVIOUS
  <2>1. \E a \in DOMAIN par.words : a > n
    BY <1>1 DEF IsParagraph
  <2>. QED  BY <1>1, <1>2, <2>1
<1>9. DOMAIN par.hyphen \subseteq 1..n - 1
  BY DEF IsParagraph
<1>10. RunStart(Len(runs)) <= n - 1 /\ n - 1 < runs[Len(runs)].end
  BY <1>2, <1>3, <1>4, <1>6, <1>7
<1>. QED  BY <1>1, <1>2, <1>4, <1>5, <1>6, <1>8, <1>9, <1>10 DEF Size

(* wordRange ends at or before the boundary it was asked at. *)
LEMMA WordRangeBounds ==
  ASSUME IsParagraph(par), NEW b \in DOMAIN par.words
  PROVE  WordRange(b).start \in Nat /\ WordRange(b).end \in 0..b
<1>1. b \in Nat
  BY ParagraphShape
<1> DEFINE before == {0} \cup {a \in DOMAIN par.words : a < b}
                     \cup {o \in Restarts : (par.words[b] = "word" \/ o \in par.foundAt) /\ o < b}
           last == LastBoundary(b)
           starts == {o \in last..b - 1 : Char(o) # "open"}
           ends == {o \in last..b - 1 : ~IsStripped(Char(o))}
           start == IF starts = {} THEN b ELSE Smallest(starts)
           end == IF ends = {} THEN last ELSE Largest(ends) + 1
<1>2. before \in SUBSET (0..b) /\ before # {}
  BY <1>1, ParagraphShape DEF Restarts
<1>3. last \in 0..b
  BY <1>1, <1>2, LargestExists DEF LastBoundary
<1>4. start \in Nat
  <2>1. CASE starts = {}
    BY <2>1, <1>1
  <2>2. CASE starts # {}
    BY <2>2, <1>1, <1>3, SmallestExists, starts \in SUBSET Nat
  <2>. QED  BY <2>1, <2>2
<1>5. end \in 0..b
  <2>1. CASE ends = {}
    BY <2>1, <1>3
  <2>2. CASE ends # {}
    <3>1. ends \in SUBSET (0..b)
      BY <1>1, <1>3
    <3>2. Largest(ends) \in ends
      BY <2>2, <3>1, <1>1, LargestExists
    <3>3. Largest(ends) \in last..b - 1
      BY <3>2
    <3>. QED  BY <2>2, <3>3, <1>1, <1>3
  <2>. QED  BY <2>1, <2>2
<1> HIDE DEF start, end, last
<1>6. WordRange(b) = IF par.words[b] # "word" THEN [start |-> last, end |-> last]
                     ELSE IF start < end THEN [start |-> start, end |-> end] ELSE [start |-> end, end |-> end]
  BY DEF WordRange, start, end, last
<1>. QED  BY <1>1, <1>3, <1>4, <1>5, <1>6

-----------------------------------------------------------------------------
LEMMA InitInv == Init => Inv
<1> SUFFICES ASSUME Init PROVE Inv
  OBVIOUS
<1>1. IsParagraph(par)
  BY ParagraphAssumption DEF Init
<1>2. mBreakPoints = << >> /\ scanned = 0 /\ GetPrevLineBreakOffset = 0
  BY DEF Init, GetPrevLineBreakOffset
<1>3. Breaks
  <2>1. mBreakPoints \in Seq({})
    BY <1>2
  <2>. QED  BY <1>2, <2>1 DEF Breaks
<1>4. Scanning /\ Remembered /\ EndKept
  BY <1>1, <1>2, ParagraphShape DEF Init, Scanning, Remembered, EndKept
<1>5. Hyphenating
  BY DEF Init, Hyphenating, HyphState, NoHyph, NOWHERE
<1>. QED  BY <1>1, <1>3, <1>4, <1>5 DEF Inv

(* Appending a break at or behind the last one. *)
BreaksAt(offset) ==
  /\ \E b : b.offset = offset /\ mBreakPoints' = Append(mBreakPoints, b)
  /\ prevWord' = NoWord /\ UNCHANGED <<scanned, par>>

LEMMA BreakLineAtBreaks ==
  ASSUME NEW offset, NEW w, NEW rw, NEW rs, NEW e, NEW s,
         BreakLineAt(offset, w, rw, rs, e, s), UNCHANGED <<scanned, par>>
  PROVE  BreaksAt(offset)
<1> DEFINE b == [offset |-> offset, lineWidth |-> w, startHyphen |-> mStartHyphenEdit, endHyphen |-> e]
<1>1. b.offset = offset /\ mBreakPoints' = Append(mBreakPoints, b)
  BY DEF BreakLineAt
<1>. QED  BY <1>1 DEF BreaksAt, BreakLineAt

LEMMA BreaksAtKeeps ==
  ASSUME Inv, NEW offset \in GetPrevLineBreakOffset..scanned, BreaksAt(offset)
  PROVE  /\ Breaks' /\ GetPrevLineBreakOffset' = offset
         /\ prevWord' = NoWord /\ scanned' = scanned /\ par' = par
<1> DEFINE n == Len(mBreakPoints)
<1>1. PICK new : new.offset = offset /\ mBreakPoints' = Append(mBreakPoints, new)
  BY DEF BreaksAt
<1>0. prevWord' = NoWord /\ scanned' = scanned /\ par' = par
  BY DEF BreaksAt
<1>2. PICK T : mBreakPoints \in Seq(T)
  BY DEF Inv, Breaks
<1>3. n \in Nat /\ DOMAIN mBreakPoints = 1..n
  BY <1>2
<1>14. /\ \A k \in 1..n : mBreakPoints[k].offset \in Int
       /\ \A k \in 1..n - 1 : mBreakPoints[k].offset <= mBreakPoints[k + 1].offset
       /\ n = 0 => mBreakPoints = << >>
       /\ n >= 1 => mBreakPoints # << >> /\ mBreakPoints[n].offset = GetPrevLineBreakOffset
  BY <1>2, <1>3 DEF Inv, Breaks, GetPrevLineBreakOffset, S!Last
<1> HIDE DEF n
<1>4. mBreakPoints' \in Seq(T \cup {new}) /\ Len(mBreakPoints') = n + 1
      /\ mBreakPoints'[n + 1] = new /\ \A k \in 1..n : mBreakPoints'[k] = mBreakPoints[k]
  <2>1. mBreakPoints \in Seq(T \cup {new}) /\ new \in T \cup {new}
    BY <1>2
  <2>. QED  BY <1>1, <2>1 DEF n
<1>5. offset \in Int /\ GetPrevLineBreakOffset \in 0..scanned /\ scanned \in Nat
  BY ParagraphShape DEF Inv, Breaks, Scanning
<1>6. GetPrevLineBreakOffset' = offset
  <2>1. mBreakPoints' # << >> /\ mBreakPoints'[Len(mBreakPoints')].offset = offset
    BY <1>1, <1>3, <1>4
  <2>. QED  BY <2>1 DEF GetPrevLineBreakOffset, S!Last
<1>8. \A k \in 1..n + 1 : mBreakPoints'[k].offset \in Int
  BY <1>1, <1>3, <1>4, <1>5, <1>14
<1>9. \A k \in 1..n : mBreakPoints'[k].offset <= mBreakPoints'[k + 1].offset
  <2> SUFFICES ASSUME NEW k \in 1..n PROVE mBreakPoints'[k].offset <= mBreakPoints'[k + 1].offset
    OBVIOUS
  <2>1. CASE k = n
    BY <2>1, <1>1, <1>3, <1>4, <1>5, <1>14
  <2>2. CASE k # n
    <3>1. k \in 1..n - 1 /\ k + 1 \in 1..n
      BY <2>2, <1>3
    <3>2. mBreakPoints[k].offset <= mBreakPoints[k + 1].offset
      BY <1>14, <3>1
    <3>. QED  BY <1>4, <3>1, <3>2
  <2>. QED  BY <2>1, <2>2
<1>10. DOMAIN mBreakPoints' = 1..n + 1
  BY <1>4
<1>11. offset \in 0..scanned
  BY <1>5
<1>12. \E U : mBreakPoints' \in Seq(U)
  BY <1>4
<1>13. \A k \in 1..Len(mBreakPoints') - 1 : mBreakPoints'[k].offset <= mBreakPoints'[k + 1].offset
  BY <1>3, <1>4, <1>9
<1>. QED  BY <1>0, <1>6, <1>8, <1>10, <1>11, <1>12, <1>13 DEF Breaks

LEMMA GraphemeBreaks ==
  ASSUME NEW from \in Nat, scanned \in Nat, from <= scanned,
         DoLineBreakWithGraphemeBounds(from, scanned), UNCHANGED <<scanned, par>>
  PROVE  \E offset \in from..scanned :
           BreaksAt(offset) /\ (CutIn(from, scanned) = {} => offset = scanned)
<1>1. CASE CutIn(from, scanned) = {}
  <2>1. BreakLineAt(scanned, mLineWidth, 0, 0, FALSE, FALSE)
    BY <1>1 DEF DoLineBreakWithGraphemeBounds
  <2>2. BreaksAt(scanned)
    BY <2>1, BreakLineAtBreaks
  <2>. QED  BY <2>2
<1>2. CASE CutIn(from, scanned) # {}
  <2> DEFINE cut == Smallest(CutIn(from, scanned))
  <2>1. CutIn(from, scanned) \in SUBSET (from + 1..scanned - 1)
    BY DEF CutIn
  <2>2. CutIn(from, scanned) \in SUBSET Nat
    BY <2>1
  <2>3. cut \in from..scanned
    BY <1>2, <2>1, <2>2, SmallestExists
  <2>4. BreakLineAt(cut, SumOfWidths(from, cut), mLineWidth - SumOfWidths(from, cut),
                    mSumOfCharWidths - SumOfWidths(from, cut), FALSE, FALSE)
    BY <1>2 DEF DoLineBreakWithGraphemeBounds
  <2> HIDE DEF cut
  <2>5. BreaksAt(cut)
    BY <2>4, BreakLineAtBreaks
  <2>. QED  BY <1>2, <2>3, <2>5
<1>. QED  BY <1>1, <1>2

-----------------------------------------------------------------------------
(* What a step keeps that appends no break, and one that appends one.      *)
LEMMA Bounds ==
  ASSUME Inv
  PROVE  /\ GetPrevLineBreakOffset \in Nat /\ scanned \in Nat /\ Size \in Nat /\ Size >= 1
         /\ GetPrevLineBreakOffset <= scanned /\ scanned <= Size
BY ParagraphShape DEF Inv, Breaks, Scanning

LEMMA Unbroken ==
  ASSUME Inv, UNCHANGED <<mBreakPoints, par>>, scanned' \in Nat, scanned <= scanned'
  PROVE  Breaks' /\ GetPrevLineBreakOffset' = GetPrevLineBreakOffset /\ IsParagraph(par)' /\ Size' = Size
<1>1. GetPrevLineBreakOffset' = GetPrevLineBreakOffset
  BY DEF GetPrevLineBreakOffset
<1>2. GetPrevLineBreakOffset' \in 0..scanned'
  BY <1>1, Bounds
<1>. QED  BY <1>1, <1>2 DEF Inv, Breaks, Size

LEMMA Broken ==
  ASSUME Inv, scanned \in DOMAIN par.words,
         NEW offset \in GetPrevLineBreakOffset..scanned, BreaksAt(offset)
  PROVE  /\ GetPrevLineBreakOffset' = offset /\ Size' = Size
         /\ IsParagraph(par)' /\ Breaks' /\ Scanning' /\ Remembered'
<1>1. /\ Breaks' /\ GetPrevLineBreakOffset' = offset
      /\ prevWord' = NoWord /\ scanned' = scanned /\ par' = par
  BY BreaksAtKeeps
<1>2. IsParagraph(par)' /\ Size' = Size
  BY <1>1 DEF Inv, Size
<1>3. Scanning'
  BY <1>1, <1>2 DEF Inv, Scanning
<1>4. Remembered'
  BY <1>1 DEF Remembered
<1>. QED  BY <1>1, <1>2, <1>3, <1>4

LEMMA ScanInv == Inv /\ Scan => Inv'
<1> SUFFICES ASSUME Inv, Scan PROVE Inv'
  OBVIOUS
<1> DEFINE run == par.runs[RunAt(scanned)]
<1>1. /\ pc = "scan" /\ scanned < Size /\ scanned' = scanned + 1
      /\ UNCHANGED <<par, mBreakPoints, prevWord, hyph>>
  BY DEF Scan
<1>2. pc' = IF scanned' \in DOMAIN par.words /\ (run.canBreak \/ scanned' = run.end) THEN "fit" ELSE "scan"
  BY DEF Scan
<1>3. Breaks' /\ GetPrevLineBreakOffset' = GetPrevLineBreakOffset /\ IsParagraph(par)' /\ Size' = Size
  BY <1>1, Bounds, Unbroken
<1>4. Scanning'
  BY <1>1, <1>2, <1>3, Bounds DEF Scanning
<1>5. Remembered'
  <2>1. prevWord # NoWord => prevWord.offset \in GetPrevLineBreakOffset..scanned
    BY DEF Inv, Remembered
  <2>. QED  BY <1>1, <1>3, <2>1, Bounds DEF Remembered
<1>6. Hyphenating'
  BY <1>1, <1>2 DEF Inv, Hyphenating
<1>7. EndKept'
  <2>1. SUFFICES ASSUME scanned' = Size PROVE pc' = "fit"
    BY <1>2, <1>3 DEF EndKept
  <2>2. PICK r \in DOMAIN par.runs : RunStart(r) <= scanned /\ scanned < par.runs[r].end
    <3>1. scanned = Size - 1
      BY <1>1, <2>1, Bounds
    <3>. QED  BY <3>1, ParagraphShape DEF Inv
  <2>3. RunAt(scanned) \in DOMAIN par.runs /\ scanned < run.end
    BY <2>2 DEF RunAt
  <2>4. run.end \in 1..Size
    BY <2>3, ParagraphShape DEF Inv
  <2>5. run.end = scanned'
    BY <1>1, <2>1, <2>3, <2>4, Bounds
  <2>6. scanned' \in DOMAIN par.words
    BY <2>1, ParagraphShape DEF Inv
  <2>. QED  BY <1>2, <2>5, <2>6
<1>. QED  BY <1>3, <1>4, <1>5, <1>6, <1>7 DEF Inv

LEMMA BreakAtWordInv == Inv /\ BreakAtWord => Inv'
<1> SUFFICES ASSUME Inv, BreakAtWord PROVE Inv'
  OBVIOUS
<1>1. pc = "fit" /\ prevWord # NoWord /\ UNCHANGED <<par, scanned, hyph, pc>>
  BY DEF BreakAtWord
<1>2. scanned \in DOMAIN par.words /\ prevWord.offset \in GetPrevLineBreakOffset..scanned
  BY <1>1 DEF Inv, Scanning, Remembered
<1>3. BreaksAt(prevWord.offset)
  BY <1>1, BreakLineAtBreaks DEF BreakAtWord
<1>4. IsParagraph(par)' /\ Breaks' /\ Scanning' /\ Remembered'
  BY <1>2, <1>3, Broken
<1>5. Hyphenating' /\ EndKept'
  BY <1>1 DEF Inv, Hyphenating, EndKept
<1>. QED  BY <1>4, <1>5 DEF Inv

LEMMA StartHyphenatingInv == Inv /\ StartHyphenating => Inv'
<1> SUFFICES ASSUME Inv, StartHyphenating PROVE Inv'
  OBVIOUS
<1> DEFINE start == WordRange(scanned).start
<1>1. /\ pc = "fit" /\ pc' = "hyphenate" /\ GetPrevLineBreakOffset <= start
      /\ hyph' = [context |-> GetPrevLineBreakOffset, next |-> start, prev |-> NOWHERE]
      /\ UNCHANGED <<par, mBreakPoints, prevWord, scanned>>
  BY DEF StartHyphenating, MayHyphenate
<1>2. scanned \in DOMAIN par.words /\ start \in Nat
  BY <1>1, WordRangeBounds DEF Inv, Scanning
<1> HIDE DEF start
<1>3. Breaks' /\ GetPrevLineBreakOffset' = GetPrevLineBreakOffset /\ IsParagraph(par)' /\ Size' = Size
  BY <1>1, Bounds, Unbroken
<1>4. Scanning' /\ Remembered' /\ EndKept'
  BY <1>1, <1>2, <1>3 DEF Inv, Scanning, Remembered, EndKept
<1>5. Hyphenating'
  BY <1>1, <1>2, <1>3, Bounds DEF Hyphenating, HyphState, NOWHERE
<1>. QED  BY <1>3, <1>4, <1>5 DEF Inv

LEMMA KeepPieceInv == Inv /\ KeepPiece => Inv'
<1> SUFFICES ASSUME Inv, KeepPiece PROVE Inv'
  OBVIOUS
<1> DEFINE point == Smallest(HyphensLeft)
<1>1. /\ pc = "hyphenate" /\ HyphensLeft # {}
      /\ hyph' = [hyph EXCEPT !.prev = point, !.next = point + 1]
      /\ UNCHANGED <<par, mBreakPoints, prevWord, scanned, pc>>
  BY DEF KeepPiece
<1>2. scanned \in DOMAIN par.words /\ hyph \in HyphState
      /\ hyph.context = GetPrevLineBreakOffset /\ hyph.context <= hyph.next
  BY <1>1 DEF Inv, Scanning, Hyphenating
<1>3. \A o \in HyphensLeft : o \in Nat /\ hyph.next <= o /\ o < WordRange(scanned).end
  BY ParagraphShape DEF Inv, HyphensLeft, HyphenResult
<1>4. point \in HyphensLeft
  BY <1>1, <1>3, SmallestExists, HyphensLeft \in SUBSET Nat
<1>5. WordRange(scanned).end \in 0..scanned
  BY <1>2, WordRangeBounds DEF Inv
<1>6. point \in Nat /\ hyph.next <= point /\ point < WordRange(scanned).end
  BY <1>3, <1>4
<1> HIDE DEF point
<1>7. point \in GetPrevLineBreakOffset..scanned
  BY <1>2, <1>5, <1>6, Bounds DEF HyphState
<1>8. Breaks' /\ GetPrevLineBreakOffset' = GetPrevLineBreakOffset /\ IsParagraph(par)' /\ Size' = Size
  BY <1>1, Bounds, Unbroken
<1>9. Scanning' /\ Remembered' /\ EndKept'
  BY <1>1, <1>8 DEF Inv, Scanning, Remembered, EndKept
<1>10. Hyphenating'
  <2>0. hyph' = [context |-> hyph.context, next |-> point + 1, prev |-> point]
    BY <1>1, <1>2 DEF HyphState
  <2>1. /\ hyph' \in HyphState
        /\ hyph'.context = hyph.context /\ hyph'.next = point + 1 /\ hyph'.prev = point
    BY <1>2, <1>6, <2>0 DEF HyphState
  <2>2. hyph'.context <= hyph'.next
    BY <1>2, <1>7, <2>1, Bounds
  <2>. QED  BY <1>1, <1>2, <1>7, <1>8, <2>1, <2>2 DEF Hyphenating
<1>. QED  BY <1>8, <1>9, <1>10 DEF Inv

(* Where BreakPiece breaks. *)
LEMMA PieceBreaks ==
  ASSUME Inv, pc = "hyphenate", BreakPiece, UNCHANGED <<par, scanned>>
  PROVE  \E offset \in GetPrevLineBreakOffset..scanned : BreaksAt(offset)
<1>1. /\ hyph.context = GetPrevLineBreakOffset
      /\ hyph.prev = NOWHERE \/ hyph.prev \in GetPrevLineBreakOffset..scanned
  BY DEF Inv, Hyphenating
<1>2. CASE hyph.prev = NOWHERE
  <2>1. DoLineBreakWithGraphemeBounds(hyph.context, scanned)
    BY <1>2 DEF BreakPiece
  <2>2. \E offset \in hyph.context..scanned : BreaksAt(offset)
    BY <1>1, <2>1, Bounds, GraphemeBreaks
  <2>. QED  BY <1>1, <2>2
<1>3. CASE hyph.prev # NOWHERE
  <2> DEFINE type == par.hyphen[hyph.prev]
             rest == MeasureHyphenPiece(hyph.prev, scanned, EditForNextLine(type), FALSE)
  <2>1. BreakLineAt(hyph.prev, PieceWidth(hyph.prev), rest - (mSumOfCharWidths - mLineWidth), rest,
                    EditForThisLine(type), EditForNextLine(type))
    BY <1>3 DEF BreakPiece
  <2> HIDE DEF type, rest
  <2>2. BreaksAt(hyph.prev)
    BY <2>1, BreakLineAtBreaks
  <2>. QED  BY <1>1, <1>3, <2>2
<1>. QED  BY <1>2, <1>3

LEMMA BreakInWordInv == Inv /\ BreakInWord => Inv'
<1> SUFFICES ASSUME Inv, BreakInWord PROVE Inv'
  OBVIOUS
<1>1. /\ pc = "hyphenate" /\ BreakPiece /\ UNCHANGED <<par, scanned>>
      /\ \/ pc' = "fit" /\ hyph' = NoHyph
         \/ /\ hyph' = [context |-> GetPrevLineBreakOffset', next |-> GetPrevLineBreakOffset' + 1,
                        prev |-> NOWHERE]
            /\ pc' = pc
  BY DEF BreakInWord
<1>2. PICK offset \in GetPrevLineBreakOffset..scanned : BreaksAt(offset)
  BY <1>1, PieceBreaks
<1>3. scanned \in DOMAIN par.words
  BY <1>1 DEF Inv, Scanning
<1>4. /\ GetPrevLineBreakOffset' = offset
      /\ IsParagraph(par)' /\ Breaks' /\ Remembered'
  BY <1>2, <1>3, Broken
<1>5. Scanning'
  BY <1>1, <1>2, <1>3, Broken
<1>6. offset \in Nat
  BY <1>2, Bounds
<1>7. Hyphenating'
  <2>1. CASE pc' = "fit" /\ hyph' = NoHyph
    BY <2>1 DEF Hyphenating, HyphState, NoHyph, NOWHERE
  <2>2. CASE hyph' = [context |-> offset, next |-> offset + 1, prev |-> NOWHERE]
    BY <1>4, <1>6, <2>2 DEF Hyphenating, HyphState, NOWHERE
  <2>. QED  BY <1>1, <1>4, <2>1, <2>2
<1>8. EndKept'
  BY <1>1 DEF EndKept
<1>. QED  BY <1>4, <1>5, <1>7, <1>8 DEF Inv

LEMMA BreakLastPieceInv == Inv /\ BreakLastPiece => Inv'
<1> SUFFICES ASSUME Inv, BreakLastPiece PROVE Inv'
  OBVIOUS
<1>1. /\ pc = "hyphenate" /\ BreakPiece /\ UNCHANGED <<par, scanned>>
      /\ pc' = "fit" /\ hyph' = NoHyph
  BY DEF BreakLastPiece
<1>2. PICK offset \in GetPrevLineBreakOffset..scanned : BreaksAt(offset)
  BY <1>1, PieceBreaks
<1>3. scanned \in DOMAIN par.words
  BY <1>1 DEF Inv, Scanning
<1>4. IsParagraph(par)' /\ Breaks' /\ Scanning' /\ Remembered'
  BY <1>2, <1>3, Broken
<1>5. Hyphenating' /\ EndKept'
  BY <1>1 DEF Hyphenating, HyphState, NoHyph, NOWHERE, EndKept
<1>. QED  BY <1>4, <1>5 DEF Inv

LEMMA ReadOutsideInv == Inv /\ ReadOutside => Inv'
<1> SUFFICES ASSUME Inv, ReadOutside PROVE Inv'
  OBVIOUS
<1>1. pc' = "undefined" /\ UNCHANGED <<par, mBreakPoints, prevWord, scanned, hyph>>
  BY DEF ReadOutside
<1>2. Breaks' /\ GetPrevLineBreakOffset' = GetPrevLineBreakOffset /\ IsParagraph(par)' /\ Size' = Size
  BY <1>1, Bounds, Unbroken
<1>. QED  BY <1>1, <1>2 DEF Inv, Scanning, Remembered, Hyphenating, EndKept

LEMMA BreakAtGraphemeInv == Inv /\ BreakAtGrapheme => Inv'
<1> SUFFICES ASSUME Inv, BreakAtGrapheme PROVE Inv'
  OBVIOUS
<1> DEFINE from == GetPrevLineBreakOffset
<1>1. /\ pc = "fit" /\ DoLineBreakWithGraphemeBounds(from, scanned)
      /\ pc' = (IF CutIn(from, scanned) = {} THEN "scan" ELSE "fit")
      /\ UNCHANGED <<par, scanned, hyph>>
  BY DEF BreakAtGrapheme
<1>2. scanned \in DOMAIN par.words
  BY <1>1 DEF Inv, Scanning
<1>3. PICK offset \in from..scanned :
        BreaksAt(offset) /\ (CutIn(from, scanned) = {} => offset = scanned)
  BY <1>1, Bounds, GraphemeBreaks
<1>4. /\ GetPrevLineBreakOffset' = offset /\ Size' = Size
      /\ IsParagraph(par)' /\ Breaks' /\ Remembered'
  BY <1>2, <1>3, Broken
<1>5. Scanning'
  BY <1>2, <1>3, Broken
<1>6. Hyphenating'
  BY <1>1 DEF Inv, Hyphenating
<1>7. EndKept'
  BY <1>1, <1>3, <1>4 DEF EndKept
<1>. QED  BY <1>4, <1>5, <1>6, <1>7 DEF Inv

LEMMA RememberWordInv == Inv /\ RememberWord => Inv'
<1> SUFFICES ASSUME Inv, RememberWord PROVE Inv'
  OBVIOUS
<1> DEFINE here == [offset |-> scanned, lineWidth |-> mLineWidth, sum |-> mSumOfCharWidths,
                    isInEmailOrUrl |-> IsInEmailOrUrl(scanned)]
<1>1. /\ pc = "fit" /\ pc' = "scan" /\ UNCHANGED <<par, mBreakPoints, scanned, hyph>>
      /\ prevWord' = IF prevWord = NoWord \/ prevWord.isInEmailOrUrl \/ ~IsInEmailOrUrl(scanned)
                     THEN here ELSE prevWord
  BY DEF RememberWord
<1>2. here.offset = scanned
  OBVIOUS
<1> HIDE DEF here
<1>3. Breaks' /\ GetPrevLineBreakOffset' = GetPrevLineBreakOffset /\ IsParagraph(par)' /\ Size' = Size
  BY <1>1, Bounds, Unbroken
<1>4. scanned \in GetPrevLineBreakOffset..scanned
  BY Bounds
<1>5. Remembered'
  BY <1>1, <1>2, <1>3, <1>4 DEF Inv, Remembered
<1>6. Scanning' /\ Hyphenating'
  BY <1>1, <1>3 DEF Inv, Scanning, Hyphenating
<1>7. EndKept'
  <2>1. SUFFICES ASSUME scanned = Size PROVE prevWord' = here
    BY <1>1, <1>2, <1>3, Bounds DEF EndKept, NoWord, NOWHERE
  <2>2. ~IsInEmailOrUrl(scanned)
    BY <2>1, ParagraphShape DEF Inv, IsInEmailOrUrl
  <2>. QED  BY <1>1, <2>2
<1>. QED  BY <1>3, <1>5, <1>6, <1>7 DEF Inv

LEMMA FinishInv == Inv /\ Finish => Inv'
<1> SUFFICES ASSUME Inv, Finish PROVE Inv'
  OBVIOUS
<1>1. pc = "scan" /\ scanned = Size /\ pc' = "done" /\ UNCHANGED <<par, scanned, hyph>>
  BY DEF Finish
<1>2. scanned \in DOMAIN par.words
  BY <1>1, ParagraphShape DEF Inv
<1>3. Hyphenating'
  BY <1>1 DEF Inv, Hyphenating
<1>4. CASE GetPrevLineBreakOffset # Size
  <2>1. prevWord # NoWord /\ prevWord.offset = Size
    BY <1>1, <1>4 DEF Inv, EndKept
  <2>2. BreaksAt(prevWord.offset)
    BY <1>1, <1>4, <2>1, BreakLineAtBreaks DEF Finish
  <2>3. prevWord.offset \in GetPrevLineBreakOffset..scanned
    BY <1>1, <2>1, Bounds
  <2>4. /\ GetPrevLineBreakOffset' = prevWord.offset /\ Size' = Size
        /\ IsParagraph(par)' /\ Breaks' /\ Scanning' /\ Remembered'
    BY <1>2, <2>2, <2>3, Broken
  <2>5. EndKept'
    BY <1>1, <2>1, <2>4 DEF EndKept
  <2>. QED  BY <1>3, <2>4, <2>5 DEF Inv
<1>5. CASE GetPrevLineBreakOffset = Size
  <2>1. UNCHANGED <<mBreakPoints, prevWord>>
    BY <1>5 DEF Finish
  <2>2. Breaks' /\ GetPrevLineBreakOffset' = GetPrevLineBreakOffset /\ IsParagraph(par)' /\ Size' = Size
    BY <1>1, <2>1, Bounds, Unbroken
  <2>. QED  BY <1>1, <1>3, <1>5, <2>1, <2>2 DEF Inv, Scanning, Remembered, EndKept
<1>. QED  BY <1>4, <1>5

LEMMA NextInv == Inv /\ [Next]_vars => Inv'
<1>1. Inv /\ UNCHANGED vars => Inv'
  BY DEF vars, Inv, Breaks, Scanning, Remembered, Hyphenating, EndKept, GetPrevLineBreakOffset, Size
<1>. QED  BY <1>1, ScanInv, BreakAtWordInv, StartHyphenatingInv, KeepPieceInv, BreakInWordInv,
             BreakLastPieceInv, ReadOutsideInv, BreakAtGraphemeInv, RememberWordInv, FinishInv DEF Next

-----------------------------------------------------------------------------
(* GreedyLineBreaker::process breaks at offsets in order, and reports all  *)
(* of the text: nothing is drawn twice and nothing is left out, whatever   *)
(* the widths and limits, the hyphenation points and the addresses are.    *)
THEOREM AllTextIsOnLines == Spec => []LinesCoverTheText
<1>1. Inv => LinesCoverTheText
  <2> SUFFICES ASSUME Inv PROVE LinesCoverTheText
    OBVIOUS
  <2>1. pc = "done" => mBreakPoints # << >> /\ GetPrevLineBreakOffset = Size
    BY Bounds DEF Inv, EndKept, GetPrevLineBreakOffset
  <2>. QED  BY <2>1 DEF Inv, Breaks, LinesCoverTheText
<1>. QED  BY <1>1, InitInv, NextInv, PTL DEF Spec

-----------------------------------------------------------------------------
(* Sums of widths.  The recursive function of SumOfWidths exists and adds  *)
(* one character after the other: by the smallest offset where it did not. *)
IsSum(a, n, f) == f = [o \in a..n |-> IF o = a THEN 0 ELSE f[o - 1] + Width(o - 1)]

(* Each character has a width. *)
LEMMA WidthsAreNat ==
  ASSUME IsParagraph(par)
  PROVE  \A o \in 0..Size - 1 : Width(o) \in Nat
<1>1. par.width \in Seq(Nat) /\ Len(par.width) = Size
  BY DEF IsParagraph, Size
<1>2. \A i \in 1..Size : par.width[i] \in Nat
  BY <1>1
<1>3. Size \in Nat
  BY ParagraphShape
<1>. QED  BY <1>2, <1>3 DEF Width

(* By least counterexample: the function is defined up to each offset. *)
LEMMA SumExists ==
  ASSUME NEW a \in Nat, NEW n \in Nat, a <= n
  PROVE  \E f : IsSum(a, n, f)
<1> DEFINE bad == {m \in Nat : a <= m /\ ~ \E f : IsSum(a, m, f)}
<1>1. SUFFICES ASSUME bad # {} PROVE FALSE
  OBVIOUS
<1>2. PICK m \in bad : \A y \in bad : m <= y
  BY <1>1, SmallestExists, bad \in SUBSET Nat
<1>3. m \in Nat /\ a <= m /\ ~ \E f : IsSum(a, m, f)
  BY <1>2
<1>4. CASE m = a
  <2> DEFINE f == [o \in a..a |-> 0]
  <2>1. IsSum(a, a, f)
    BY DEF IsSum
  <2>. QED  BY <1>3, <1>4, <2>1
<1>5. CASE m # a
  <2>1. m - 1 \in Nat /\ a <= m - 1 /\ m - 1 \notin bad
    BY <1>2, <1>3, <1>5
  <2>2. PICK f : IsSum(a, m - 1, f)
    BY <2>1
  <2> DEFINE g == [o \in a..m |-> IF o = m THEN f[m - 1] + Width(m - 1) ELSE f[o]]
  <2>3. \A o \in a..m - 1 : f[o] = IF o = a THEN 0 ELSE f[o - 1] + Width(o - 1)
    BY <2>2 DEF IsSum
  <2>4. \A o \in a..m : g[o] = IF o = a THEN 0 ELSE g[o - 1] + Width(o - 1)
    <3>1. \A o \in a..m - 1 : g[o] = f[o]
      BY <1>3
    <3>2. g[m] = f[m - 1] + Width(m - 1) /\ m - 1 \in a..m - 1
      BY <1>3, <2>1
    <3>3. \A o \in a..m : o = m \/ (o \in a..m - 1 /\ (o # a => o - 1 \in a..m - 1))
      BY <1>3
    <3> HIDE DEF g
    <3>. QED  BY <1>5, <2>3, <3>1, <3>2, <3>3
  <2>5. IsSum(a, m, g)
    <3>1. g = [o \in a..m |-> g[o]]
      OBVIOUS
    <3> HIDE DEF g
    <3>. QED  BY <2>4, <3>1 DEF IsSum
  <2>. QED  BY <1>3, <2>5
<1>. QED  BY <1>4, <1>5

(* The function does not depend on how far it goes. *)
LEMMA SumsAgree ==
  ASSUME NEW a \in Nat, NEW n \in Nat, NEW m \in a..n, NEW f, NEW g, IsSum(a, m, f), IsSum(a, n, g)
  PROVE  \A o \in a..m : f[o] = g[o]
<1>1. \A o \in a..m : f[o] = IF o = a THEN 0 ELSE f[o - 1] + Width(o - 1)
  BY DEF IsSum
<1>2. \A o \in a..m : g[o] = IF o = a THEN 0 ELSE g[o - 1] + Width(o - 1)
  <2>1. \A o \in a..n : g[o] = IF o = a THEN 0 ELSE g[o - 1] + Width(o - 1)
    BY DEF IsSum
  <2>. QED  BY <2>1
<1> DEFINE bad == {o \in a..m : f[o] # g[o]}
<1>3. SUFFICES ASSUME bad # {} PROVE FALSE
  OBVIOUS
<1>4. PICK o \in bad : \A y \in bad : o <= y
  BY <1>3, SmallestExists, bad \in SUBSET Nat
<1>5. o \in a..m /\ f[o] # g[o] /\ (o # a => o - 1 \in a..m /\ o - 1 \notin bad)
  BY <1>4
<1>6. CASE o = a
  BY <1>1, <1>2, <1>5, <1>6
<1>7. CASE o # a
  <2>1. f[o - 1] = g[o - 1]
    BY <1>5, <1>7
  <2>2. f[o] = f[o - 1] + Width(o - 1) /\ g[o] = g[o - 1] + Width(o - 1)
    BY <1>1, <1>2, <1>5, <1>7
  <2>. QED  BY <1>5, <2>1, <2>2
<1>. QED  BY <1>6, <1>7

(* SumOfWidths is one of those functions. *)
LEMMA SumFrom ==
  ASSUME NEW a \in Nat, NEW b \in Nat, a <= b
  PROVE  \E f : IsSum(a, b, f) /\ SumOfWidths(a, b) = f[b]
<1> DEFINE f == CHOOSE f : f = [o \in a..b |-> IF o = a THEN 0 ELSE f[o - 1] + Width(o - 1)]
<1>1. IsSum(a, b, f)
  <2>1. \E g : IsSum(a, b, g)
    BY SumExists
  <2>. QED  BY <2>1 DEF IsSum
<1>2. SumOfWidths(a, b) = f[b]
  BY DEF SumOfWidths
<1> HIDE DEF f
<1>. QED  BY <1>1, <1>2

(* One character more. *)
LEMMA SumStep ==
  ASSUME NEW a \in Nat
  PROVE  /\ SumOfWidths(a, a) = 0
         /\ \A b \in Nat : a <= b => SumOfWidths(a, b + 1) = SumOfWidths(a, b) + Width(b)
<1>1. SumOfWidths(a, a) = 0
  <2>1. PICK f : IsSum(a, a, f) /\ SumOfWidths(a, a) = f[a]
    BY SumFrom
  <2>. QED  BY <2>1 DEF IsSum
<1>2. ASSUME NEW b \in Nat, a <= b
      PROVE  SumOfWidths(a, b + 1) = SumOfWidths(a, b) + Width(b)
  <2>1. PICK f : IsSum(a, b, f) /\ SumOfWidths(a, b) = f[b]
    BY <1>2, SumFrom
  <2>2. b + 1 \in Nat /\ a <= b + 1 /\ b \in a..b + 1
    BY <1>2
  <2>3. PICK g : IsSum(a, b + 1, g) /\ SumOfWidths(a, b + 1) = g[b + 1]
    BY <2>2, SumFrom
  <2>4. f[b] = g[b]
    <3>1. \A o \in a..b : f[o] = g[o]
      BY <2>1, <2>2, <2>3, SumsAgree
    <3>. QED  BY <1>2, <3>1
  <2>5. g[b + 1] = g[b + 1 - 1] + Width(b + 1 - 1)
    BY <1>2, <2>2, <2>3 DEF IsSum
  <2>6. b + 1 - 1 = b
    OBVIOUS
  <2>. QED  BY <2>1, <2>3, <2>4, <2>5, <2>6
<1>. QED  BY <1>1, <1>2

(* No sum is negative. *)
LEMMA SumIsNat ==
  ASSUME IsParagraph(par), NEW a \in Nat, NEW b \in Nat, a <= b, b <= Size
  PROVE  SumOfWidths(a, b) \in Nat
<1> DEFINE bad == {m \in a..Size : SumOfWidths(a, m) \notin Nat}
<1>0. Size \in Nat
  BY ParagraphShape
<1>1. SUFFICES ASSUME bad # {} PROVE FALSE
  BY <1>0
<1>2. PICK m \in bad : \A y \in bad : m <= y
  BY <1>0, <1>1, SmallestExists, bad \in SUBSET Nat
<1>3. m \in a..Size /\ SumOfWidths(a, m) \notin Nat
  BY <1>2
<1>4. m # a
  BY <1>3, SumStep
<1>5. m - 1 \in Nat /\ a <= m - 1 /\ m - 1 \in 0..Size - 1 /\ m - 1 + 1 = m /\ m - 1 \notin bad
  BY <1>0, <1>2, <1>3, <1>4
<1>6. SumOfWidths(a, m - 1) \in Nat /\ Width(m - 1) \in Nat
  BY <1>0, <1>5, WidthsAreNat
<1>7. SumOfWidths(a, m) = SumOfWidths(a, m - 1) + Width(m - 1)
  BY <1>5, SumStep
<1>. QED  BY <1>3, <1>6, <1>7

(* A sum is that of its parts. *)
LEMMA SumSplit ==
  ASSUME IsParagraph(par), NEW a \in Nat, NEW b \in Nat, NEW c \in Nat, a <= b, b <= c, c <= Size
  PROVE  /\ SumOfWidths(a, c) = SumOfWidths(a, b) + SumOfWidths(b, c)
         /\ SumOfWidths(a, b) \in Nat /\ SumOfWidths(b, c) \in Nat
<1> DEFINE bad == {m \in b..Size : SumOfWidths(a, m) # SumOfWidths(a, b) + SumOfWidths(b, m)}
<1>0. Size \in Nat
  BY ParagraphShape
<1>8. SumOfWidths(a, b) \in Nat /\ SumOfWidths(b, c) \in Nat
  BY <1>0, SumIsNat
<1>1. SUFFICES ASSUME bad # {} PROVE FALSE
  BY <1>0, <1>8
<1>2. PICK m \in bad : \A y \in bad : m <= y
  BY <1>0, <1>1, SmallestExists, bad \in SUBSET Nat
<1>3. m \in b..Size /\ SumOfWidths(a, m) # SumOfWidths(a, b) + SumOfWidths(b, m)
  BY <1>2
<1>4. m # b
  <2>1. SumOfWidths(b, b) = 0
    BY SumStep
  <2>. QED  BY <1>3, <1>8, <2>1
<1>5. m - 1 \in Nat /\ b <= m - 1 /\ a <= m - 1 /\ m - 1 <= Size /\ m - 1 \in 0..Size - 1 /\ m - 1 + 1 = m
      /\ m - 1 \notin bad
  BY <1>0, <1>2, <1>3, <1>4
<1>6. SumOfWidths(a, m - 1) = SumOfWidths(a, b) + SumOfWidths(b, m - 1)
  BY <1>0, <1>5
<1>7. /\ SumOfWidths(a, m) = SumOfWidths(a, m - 1) + Width(m - 1)
      /\ SumOfWidths(b, m) = SumOfWidths(b, m - 1) + Width(m - 1)
  BY <1>5, SumStep
<1>9. SumOfWidths(a, m - 1) \in Nat /\ SumOfWidths(b, m - 1) \in Nat /\ Width(m - 1) \in Nat
  BY <1>5, SumIsNat, WidthsAreNat
<1>. QED  BY <1>3, <1>6, <1>7, <1>8, <1>9

(* Characters that continue a cluster add nothing. *)
LEMMA ZeroSum ==
  ASSUME IsParagraph(par), NEW a \in Nat, NEW b \in Nat, a <= b, b <= Size,
         \A o \in a..b - 1 : Width(o) = 0
  PROVE  SumOfWidths(a, b) = 0
<1> DEFINE bad == {m \in a..b : SumOfWidths(a, m) # 0}
<1>1. SUFFICES ASSUME bad # {} PROVE FALSE
  OBVIOUS
<1>2. PICK m \in bad : \A y \in bad : m <= y
  BY <1>1, SmallestExists, bad \in SUBSET Nat
<1>3. m \in a..b /\ SumOfWidths(a, m) # 0
  BY <1>2
<1>4. m # a
  BY <1>3, SumStep
<1>5. m - 1 \in Nat /\ a <= m - 1 /\ m - 1 \in a..b - 1 /\ m - 1 + 1 = m /\ m - 1 \in a..b /\ m - 1 \notin bad
  BY <1>2, <1>3, <1>4
<1>6. SumOfWidths(a, m - 1) = 0 /\ Width(m - 1) = 0
  BY <1>5
<1>7. SumOfWidths(a, m) = SumOfWidths(a, m - 1) + Width(m - 1)
  BY <1>5, SumStep
<1>. QED  BY <1>3, <1>6, <1>7

-----------------------------------------------------------------------------
(* The hypotheses on the paragraph, none of which a step changes.          *)
StartHyphens == \E o \in DOMAIN par.hyphen : EditForNextLine(par.hyphen[o])
Plain == ~HasTabs /\ ~StartHyphens
Roomy ==
  \/ ~MEnableHyphenation
  \/ Plain /\ \A o \in 0..Size - 1, l \in Nat : Width(o) <= GetAt(l)

(* PartsSpaces of a paragraph that is broken greedily.                      *)
Parted ==
  \/ \E o \in 0..Size - 1 : Char(o) = "space" /\ ~par.runs[RunAt(o)].canBreak
  \/ \E o \in 0..Size - 2 : /\ Char(o) = "space" /\ Char(o + 1) # "space"
                            /\ o + 1 \in DOMAIN par.words => IsInEmailOrUrl(o + 1)

(* A boundary a line may end at but for the width, and those of them that  *)
(* a line beginning at start has room for.                                 *)
Ends(b) == b \in DOMAIN par.words /\ MayEndLine(b) /\ ~IsInEmailOrUrl(b)
Fitting(k, start) ==
  {b \in DOMAIN par.words : MayEndLine(b) /\ b > start /\ ~IsInEmailOrUrl(b)
                            /\ DrawnWidth(start, b) <= GetAt(k - 1)}

(* What the properties say of one line, the k-th, that begins at start.    *)
HasCharacter(start, line) == Roomy => start < line.offset
WidthIsDrawn(start, line) ==
  Plain /\ ~Parted =>
    line.lineWidth = DrawnWidth(start, line.offset)
                     + ((IF line.startHyphen THEN HyphenWidth ELSE 0) + (IF line.endHyphen THEN HyphenWidth ELSE 0))
IsOneCluster(k, start, line) ==
  Plain /\ line.lineWidth > GetAt(k - 1) => \A o \in start + 1..line.offset - 1 : Width(o) = 0
HasMostWords(k, start, line) ==
  Plain /\ Fitting(k, start) # {} => line.offset = Largest(Fitting(k, start))
Longer(offset) ==
  LET wordEnd == Smallest({b \in DOMAIN par.words : b >= offset})
  IN {o \in DOMAIN par.hyphen : offset < o /\ o < WordRange(wordEnd).end /\ par.hyphen[o] = "here"}
IsLongestPiece(k, start, line) ==
  line.endHyphen =>
    /\ line.offset \in DOMAIN par.hyphen /\ par.hyphen[line.offset] = "here"
    /\ line.lineWidth <= GetAt(k - 1)
    /\ ~Parted => \A o \in Longer(line.offset) :
         DrawnWidth(start, o) + HyphenWidth + (IF line.startHyphen THEN HyphenWidth ELSE 0) > GetAt(k - 1)
GoodLine(k, start, line) ==
  /\ HasCharacter(start, line)
  /\ WidthIsDrawn(start, line)
  /\ IsOneCluster(k, start, line)
  /\ HasMostWords(k, start, line)
  /\ IsLongestPiece(k, start, line)
GoodLines == \A k \in DOMAIN mBreakPoints : GoodLine(k, LineStart(k), mBreakPoints[k])

(* Where the breaker is: no boundary behind Anchor was passed that is      *)
(* better than the one to fall back to.                                    *)
Anchor == IF prevWord = NoWord \/ prevWord.isInEmailOrUrl THEN GetPrevLineBreakOffset ELSE prevWord.offset
Placed ==
  /\ pc \in {"fit", "hyphenate"} => MayEndLine(scanned)
  /\ \A b : Ends(b) /\ Anchor < b => b >= scanned /\ (pc = "scan" => b > scanned)
  /\ pc = "fit" /\ Roomy => GetPrevLineBreakOffset < scanned
FellBack ==
  prevWord # NoWord =>
    /\ prevWord.offset \in DOMAIN par.words /\ MayEndLine(prevWord.offset)
    /\ prevWord.isInEmailOrUrl = IsInEmailOrUrl(prevWord.offset)
    /\ pc = "fit" => prevWord.offset < scanned
    /\ pc # "hyphenate"
    /\ Roomy => GetPrevLineBreakOffset < prevWord.offset
Piecing ==
  pc = "hyphenate" =>
    /\ MEnableHyphenation
    /\ \A o \in HyphensLeft : GetPrevLineBreakOffset < o
    /\ hyph.prev # NOWHERE =>
         /\ hyph.prev \in HyphenResult /\ GetPrevLineBreakOffset < hyph.prev
         /\ hyph.next = hyph.prev + 1
         /\ PieceWidth(hyph.prev) <= MLineWidthLimit

(* The widths are those of the characters since the last break, and the    *)
(* word boundary to fall back to fits.                                     *)
Measured ==
  /\ mStartHyphenEdit = FALSE
  /\ mSumOfCharWidths = SumOfWidths(GetPrevLineBreakOffset, scanned)
  /\ mLineWidth = DrawnWidth(GetPrevLineBreakOffset, scanned)
  /\ pc = "hyphenate" => Overfull
  /\ prevWord # NoWord =>
       /\ prevWord.sum = SumOfWidths(GetPrevLineBreakOffset, prevWord.offset)
       /\ prevWord.lineWidth = DrawnWidth(GetPrevLineBreakOffset, prevWord.offset)
       /\ prevWord.lineWidth <= MLineWidthLimit

Filling == Inv /\ GoodLines /\ Placed /\ FellBack /\ Piecing /\ (Plain => Measured)

-----------------------------------------------------------------------------
(* Drawn widths: sums up to the last character that is not a space.        *)
LastVisible(a, b, v) ==
  /\ v \in a..b - 1 /\ ~IsLineEndSpace(Char(v))
  /\ \A o \in v + 1..b - 1 : IsLineEndSpace(Char(o))

(* The width up to the last character that is not a space. *)
LEMMA DrawnTo ==
  ASSUME NEW a \in Nat, NEW b \in Nat, NEW v, LastVisible(a, b, v)
  PROVE  DrawnWidth(a, b) = SumOfWidths(a, v + 1)
<1>1. v \in Visible(a, b) /\ Visible(a, b) \in SUBSET (0..b)
  BY DEF LastVisible, Visible
<1>2. Largest(Visible(a, b)) \in Visible(a, b) /\ v <= Largest(Visible(a, b))
  BY <1>1, LargestExists
<1>3. Largest(Visible(a, b)) = v
  BY <1>1, <1>2 DEF LastVisible, Visible
<1>. QED  BY <1>1, <1>3 DEF DrawnWidth

(* Nothing but spaces. *)
LEMMA DrawnNothing ==
  ASSUME NEW a \in Nat, NEW b \in Nat, \A o \in a..b - 1 : IsLineEndSpace(Char(o))
  PROVE  DrawnWidth(a, b) = 0
<1>1. Visible(a, b) = {}
  BY DEF Visible
<1>. QED  BY <1>1 DEF DrawnWidth

(* Either one or the other. *)
LEMMA DrawnCases ==
  ASSUME NEW a \in Nat, NEW b \in Nat
  PROVE  \/ \A o \in a..b - 1 : IsLineEndSpace(Char(o))
         \/ \E v : LastVisible(a, b, v)
<1>1. CASE Visible(a, b) = {}
  BY <1>1 DEF Visible
<1>2. CASE Visible(a, b) # {}
  <2> DEFINE v == Largest(Visible(a, b))
  <2>1. Visible(a, b) \in SUBSET (0..b)
    BY DEF Visible
  <2>2. v \in Visible(a, b) /\ \A o \in Visible(a, b) : o <= v
    BY <1>2, <2>1, LargestExists
  <2> HIDE DEF v
  <2>3. v \in a..b - 1 /\ ~IsLineEndSpace(Char(v))
    BY <2>2 DEF Visible
  <2>4. \A o \in v + 1..b - 1 : IsLineEndSpace(Char(o))
    <3> SUFFICES ASSUME NEW o \in v + 1..b - 1, ~IsLineEndSpace(Char(o)) PROVE FALSE
      OBVIOUS
    <3>1. o \in Visible(a, b) /\ ~ (o <= v)
      BY <2>3 DEF Visible
    <3>. QED  BY <2>2, <3>1
  <2>. QED  BY <2>3, <2>4 DEF LastVisible
<1>. QED  BY <1>1, <1>2

(* One character more: a space leaves the width as it is. *)
LEMMA DrawnStep ==
  ASSUME NEW a \in Nat, NEW b \in Nat, a <= b
  PROVE  /\ DrawnWidth(a, a) = 0
         /\ DrawnWidth(a, b + 1) = IF IsLineEndSpace(Char(b)) THEN DrawnWidth(a, b) ELSE SumOfWidths(a, b + 1)
<1>1. DrawnWidth(a, a) = 0
  BY DrawnNothing
<1>2. CASE ~IsLineEndSpace(Char(b))
  <2>1. LastVisible(a, b + 1, b)
    BY <1>2 DEF LastVisible
  <2>2. b + 1 \in Nat
    OBVIOUS
  <2>. QED  BY <1>1, <1>2, <2>1, <2>2, DrawnTo
<1>3. CASE IsLineEndSpace(Char(b))
  <2>0. b + 1 \in Nat
    OBVIOUS
  <2>1. CASE \A o \in a..b - 1 : IsLineEndSpace(Char(o))
    <3>1. \A o \in a..b + 1 - 1 : IsLineEndSpace(Char(o))
      <4> SUFFICES ASSUME NEW o \in a..b + 1 - 1 PROVE IsLineEndSpace(Char(o))
        OBVIOUS
      <4>1. o = b \/ o \in a..b - 1
        OBVIOUS
      <4>. QED  BY <1>3, <2>1, <4>1
    <3>. QED  BY <1>1, <1>3, <2>0, <2>1, <3>1, DrawnNothing
  <2>2. CASE \E v : LastVisible(a, b, v)
    <3>1. PICK v : LastVisible(a, b, v)
      BY <2>2
    <3>2. v \in a..b + 1 - 1 /\ ~IsLineEndSpace(Char(v)) /\ v \in a..b - 1
      BY <3>1 DEF LastVisible
    <3>3. \A o \in v + 1..b + 1 - 1 : IsLineEndSpace(Char(o))
      <4> SUFFICES ASSUME NEW o \in v + 1..b + 1 - 1 PROVE IsLineEndSpace(Char(o))
        OBVIOUS
      <4>1. o = b \/ o \in v + 1..b - 1
        BY <3>2
      <4>. QED  BY <1>3, <3>1, <4>1 DEF LastVisible
    <3>4. LastVisible(a, b + 1, v)
      BY <3>2, <3>3 DEF LastVisible
    <3>. QED  BY <1>1, <1>3, <2>0, <3>1, <3>4, DrawnTo
  <2>. QED  BY <2>1, <2>2, DrawnCases
<1>. QED  BY <1>2, <1>3

(* No width is negative. *)
LEMMA DrawnIsNat ==
  ASSUME IsParagraph(par), NEW a \in Nat, NEW b \in Nat, a <= b, b <= Size
  PROVE  DrawnWidth(a, b) \in Nat /\ DrawnWidth(a, b) <= SumOfWidths(a, b) /\ SumOfWidths(a, b) \in Nat
<1>1. SumOfWidths(a, b) \in Nat
  BY SumIsNat
<1>2. CASE \A o \in a..b - 1 : IsLineEndSpace(Char(o))
  BY <1>1, <1>2, DrawnNothing
<1>3. CASE \E v : LastVisible(a, b, v)
  <2>1. PICK v : LastVisible(a, b, v)
    BY <1>3
  <2>2. v + 1 \in Nat /\ a <= v + 1 /\ v + 1 <= b
    BY <2>1 DEF LastVisible
  <2>3. SumOfWidths(a, b) = SumOfWidths(a, v + 1) + SumOfWidths(v + 1, b)
        /\ SumOfWidths(a, v + 1) \in Nat /\ SumOfWidths(v + 1, b) \in Nat
    BY <2>2, SumSplit
  <2>4. DrawnWidth(a, b) = SumOfWidths(a, v + 1)
    BY <2>1, DrawnTo
  <2>. QED  BY <2>3, <2>4
<1>. QED  BY <1>2, <1>3, DrawnCases

(* A longer line is not narrower, and what is drawn behind offset h is     *)
(* what is drawn without the characters before h.                          *)
LEMMA DrawnRest ==
  ASSUME IsParagraph(par), NEW a \in Nat, NEW h \in Nat, NEW b \in Nat, a <= h, h <= b, b <= Size
  PROVE  /\ (\E o \in h..b - 1 : ~IsLineEndSpace(Char(o))) =>
              DrawnWidth(a, b) - SumOfWidths(a, h) = DrawnWidth(h, b)
         /\ (\A o \in h..b - 1 : IsLineEndSpace(Char(o))) =>
              DrawnWidth(a, b) = DrawnWidth(a, h) /\ DrawnWidth(h, b) = 0
<1>1. ASSUME NEW o \in h..b - 1, ~IsLineEndSpace(Char(o))
      PROVE  DrawnWidth(a, b) - SumOfWidths(a, h) = DrawnWidth(h, b)
  <2>1. PICK v : LastVisible(h, b, v)
    BY <1>1, DrawnCases
  <2>2. LastVisible(a, b, v) /\ v \in h..b - 1
    BY <2>1 DEF LastVisible
  <2>3. v + 1 \in Nat /\ h <= v + 1 /\ v + 1 <= Size
    BY <2>2, ParagraphShape
  <2>4. SumOfWidths(a, v + 1) = SumOfWidths(a, h) + SumOfWidths(h, v + 1)
        /\ SumOfWidths(a, h) \in Nat /\ SumOfWidths(h, v + 1) \in Nat
    BY <2>3, SumSplit
  <2>5. DrawnWidth(a, b) = SumOfWidths(a, v + 1) /\ DrawnWidth(h, b) = SumOfWidths(h, v + 1)
    BY <2>1, <2>2, DrawnTo
  <2>. QED  BY <2>4, <2>5
<1>2. ASSUME \A o \in h..b - 1 : IsLineEndSpace(Char(o))
      PROVE  DrawnWidth(a, b) = DrawnWidth(a, h) /\ DrawnWidth(h, b) = 0
  <2>1. DrawnWidth(h, b) = 0
    BY <1>2, DrawnNothing
  <2>2. CASE \A o \in a..h - 1 : IsLineEndSpace(Char(o))
    <3>1. \A o \in a..b - 1 : IsLineEndSpace(Char(o))
      <4> SUFFICES ASSUME NEW o \in a..b - 1 PROVE IsLineEndSpace(Char(o))
        OBVIOUS
      <4>1. o \in a..h - 1 \/ o \in h..b - 1
        OBVIOUS
      <4>. QED  BY <1>2, <2>2, <4>1
    <3>. QED  BY <2>1, <2>2, <3>1, DrawnNothing
  <2>3. CASE \E v : LastVisible(a, h, v)
    <3>1. PICK v : LastVisible(a, h, v)
      BY <2>3
    <3>2. v \in a..h - 1 /\ ~IsLineEndSpace(Char(v))
      BY <3>1 DEF LastVisible
    <3>3. \A o \in v + 1..b - 1 : IsLineEndSpace(Char(o))
      <4> SUFFICES ASSUME NEW o \in v + 1..b - 1 PROVE IsLineEndSpace(Char(o))
        OBVIOUS
      <4>1. o \in v + 1..h - 1 \/ o \in h..b - 1
        BY <3>2
      <4>. QED  BY <1>2, <3>1, <4>1 DEF LastVisible
    <3>4. LastVisible(a, b, v)
      BY <3>2, <3>3 DEF LastVisible
    <3>. QED  BY <2>1, <3>1, <3>4, DrawnTo
  <2>. QED  BY <2>1, <2>2, <2>3, DrawnCases
<1>. QED  BY <1>1, <1>2

(* A line that ends later is not narrower. *)
LEMMA DrawnGrows ==
  ASSUME IsParagraph(par), NEW a \in Nat, NEW b \in Nat, NEW c \in Nat, a <= b, b <= c, c <= Size
  PROVE  DrawnWidth(a, b) <= DrawnWidth(a, c)
<1>0. b <= Size /\ a <= c
  BY ParagraphShape
<1>1. /\ DrawnWidth(a, b) \in Nat /\ DrawnWidth(a, b) <= SumOfWidths(a, b) /\ SumOfWidths(a, b) \in Nat
      /\ DrawnWidth(b, c) \in Nat /\ DrawnWidth(a, c) \in Nat
  BY <1>0, DrawnIsNat
<1>2. CASE \E o \in b..c - 1 : ~IsLineEndSpace(Char(o))
  <2>1. DrawnWidth(a, c) - SumOfWidths(a, b) = DrawnWidth(b, c)
    BY <1>2, DrawnRest
  <2>. QED  BY <1>1, <2>1
<1>3. CASE \A o \in b..c - 1 : IsLineEndSpace(Char(o))
  <2>1. DrawnWidth(a, c) = DrawnWidth(a, b)
    BY <1>3, DrawnRest
  <2>. QED  BY <1>1, <2>1
<1>. QED  BY <1>2, <1>3

(* Lines have a width of at least 0. *)
LEMMA LimitIsNat ==
  ASSUME IsParagraph(par), NEW l \in Nat
  PROVE  GetAt(l) \in Nat
<1> DEFINE w == par.lineWidth
           width == IF l < w.firstLineCount THEN w.firstWidth ELSE w.restWidth
           index == l + w.offset
           indent == IF w.indents = << >> THEN 0
                     ELSE IF index \in 0..Len(w.indents) - 1 THEN w.indents[index + 1]
                     ELSE w.indents[Len(w.indents)]
<1>1. /\ w.firstWidth \in Int /\ w.restWidth \in Int /\ w.indents \in Seq(Int) /\ w.offset \in Int
  BY DEF IsParagraph
<1>2. width \in Int
  BY <1>1
<1>3. indent \in Int
  <2> DEFINE s == w.indents
  <2>1. s \in Seq(Int)
    BY <1>1
  <2>2. \A i \in 1..Len(s) : s[i] \in Int
    BY <2>1
  <2>3. Len(s) \in Nat /\ (s # << >> => Len(s) \in 1..Len(s))
    BY <2>1
  <2>4. index \in Int
    BY <1>1
  <2>. QED  BY <2>2, <2>3, <2>4
<1>4. GetAt(l) = Largest({0, width - indent})
  BY DEF GetAt
<1> HIDE DEF width, indent
<1>5. \A d \in Int : Largest({0, d}) \in Nat
  <2> SUFFICES ASSUME NEW d \in Int PROVE Largest({0, d}) \in Nat
    OBVIOUS
  <2>1. CASE d <= 0
    <3>1. 0 \in {0, d} /\ \A y \in {0, d} : y <= 0
      BY <2>1
    <3>2. Largest({0, d}) \in {0, d} /\ \A y \in {0, d} : y <= Largest({0, d})
      BY <3>1 DEF Largest
    <3>. QED  BY <3>2
  <2>2. CASE ~ (d <= 0)
    <3>1. d \in {0, d} /\ \A y \in {0, d} : y <= d
      BY <2>2
    <3>2. Largest({0, d}) \in {0, d} /\ \A y \in {0, d} : y <= Largest({0, d})
      BY <3>1 DEF Largest
    <3>. QED  BY <3>2
  <2>. QED  BY <2>1, <2>2
<1>. QED  BY <1>2, <1>3, <1>4, <1>5

-----------------------------------------------------------------------------
(* Breaks between clusters.                                                *)
KeepsSpaces(a, b) == \A o \in a..b - 2 : IsLineEndSpace(Char(o)) => IsLineEndSpace(Char(o + 1))

(* The width up to an offset behind a character that is seen is the whole sum. *)
LEMMA DrawnBefore ==
  ASSUME NEW a \in Nat, NEW b \in Nat, NEW h \in a + 1..b, KeepsSpaces(a, b),
         \E o \in h..b - 1 : ~IsLineEndSpace(Char(o))
  PROVE  DrawnWidth(a, h) = SumOfWidths(a, h)
<1>1. h \in Nat /\ h - 1 \in Nat /\ h - 1 \in a..h - 1 /\ h - 1 + 1 = h
  OBVIOUS
<1>2. ~IsLineEndSpace(Char(h - 1))
  <2>1. SUFFICES ASSUME IsLineEndSpace(Char(h - 1)) PROVE FALSE
    OBVIOUS
  <2> DEFINE shown == {o \in h..b - 1 : ~IsLineEndSpace(Char(o))}
  <2>2. shown # {} /\ shown \in SUBSET Nat
    BY <1>1
  <2>3. PICK m \in shown : \A y \in shown : m <= y
    BY <2>2, SmallestExists
  <2>4. m \in h..b - 1 /\ ~IsLineEndSpace(Char(m))
    BY <2>3
  <2>5. IsLineEndSpace(Char(m - 1))
    <3>1. CASE m = h
      BY <2>1, <3>1
    <3>2. CASE m # h
      <4>1. m - 1 \in h..b - 1 /\ ~ (m <= m - 1)
        BY <1>1, <2>4, <3>2
      <4>. QED  BY <2>3, <4>1
    <3>. QED  BY <3>1, <3>2
  <2>6. m - 1 \in a..b - 2 /\ m - 1 + 1 = m
    BY <1>1, <2>4
  <2>. QED  BY <2>4, <2>5, <2>6 DEF KeepsSpaces
<1>3. LastVisible(a, h, h - 1)
  BY <1>1, <1>2 DEF LastVisible
<1>. QED  BY <1>1, <1>3, DrawnTo

(* A line is one cluster when it is too wide and each cluster behind its first would fit. *)
LEMMA OneCluster ==
  ASSUME IsParagraph(par), NEW a \in Nat, NEW b \in Nat, a <= b, b <= Size, NEW limit \in Nat,
         SumOfWidths(a, b) > limit,
         \A o \in a + 1..b - 1 : Width(o) # 0 => ~ (SumOfWidths(a, o + 1) > limit)
  PROVE  \A o \in a + 1..b - 1 : Width(o) = 0
<1> DEFINE wide == {o \in a + 1..b - 1 : Width(o) # 0}
<1>1. SUFFICES ASSUME wide # {} PROVE FALSE
  OBVIOUS
<1>2. wide \in SUBSET (0..b)
  OBVIOUS
<1>3. PICK u \in wide : \A y \in wide : y <= u
  BY <1>1, <1>2, LargestExists
<1>4. u \in a + 1..b - 1 /\ Width(u) # 0
  BY <1>3
<1>5. \A o \in u + 1..b - 1 : Width(o) = 0
  <2> SUFFICES ASSUME NEW o \in u + 1..b - 1, Width(o) # 0 PROVE FALSE
    OBVIOUS
  <2>1. o \in wide /\ ~ (o <= u)
    BY <1>4
  <2>. QED  BY <1>3, <2>1
<1>6. u + 1 \in Nat /\ a <= u + 1 /\ u + 1 <= b
  BY <1>4
<1>7. SumOfWidths(u + 1, b) = 0
  BY <1>5, <1>6, ZeroSum
<1>8. SumOfWidths(a, b) = SumOfWidths(a, u + 1) + SumOfWidths(u + 1, b) /\ SumOfWidths(a, u + 1) \in Nat
  BY <1>6, SumSplit
<1>. QED  BY <1>4, <1>7, <1>8

(* Where doLineBreakWithGraphemeBounds finds no place, there is one cluster. *)
LEMMA NoCut ==
  ASSUME IsParagraph(par), NEW a \in Nat, NEW b \in Nat, a <= b, b <= Size, MLineWidthLimit \in Nat,
         DrawnWidth(a, b) > MLineWidthLimit, CutIn(a, b) = {}
  PROVE  \A o \in a + 1..b - 1 : Width(o) = 0
<1>1. DrawnWidth(a, b) \in Nat /\ DrawnWidth(a, b) <= SumOfWidths(a, b) /\ SumOfWidths(a, b) \in Nat
  BY DrawnIsNat
<1>2. SumOfWidths(a, b) > MLineWidthLimit
  BY <1>1
<1>3. \A o \in a + 1..b - 1 : Width(o) # 0 => ~ (SumOfWidths(a, o + 1) > MLineWidthLimit)
  BY DEF CutIn
<1>. QED  BY <1>2, <1>3, OneCluster

(* Where it finds one, what is before it fits, or is one cluster. *)
LEMMA Cut ==
  ASSUME IsParagraph(par), NEW a \in Nat, NEW b \in Nat, a <= b, b <= Size, MLineWidthLimit \in Nat,
         DrawnWidth(a, b) > MLineWidthLimit, CutIn(a, b) # {},
         NEW cut, cut = Smallest(CutIn(a, b))
  PROVE  /\ cut \in a + 1..b - 1
         /\ DrawnWidth(a, b) - SumOfWidths(a, cut) = DrawnWidth(cut, b)
         /\ SumOfWidths(a, cut) > MLineWidthLimit => \A o \in a + 1..cut - 1 : Width(o) = 0
         /\ KeepsSpaces(a, b) => DrawnWidth(a, cut) = SumOfWidths(a, cut)
<1> DEFINE limit == MLineWidthLimit
<1>1. cut \in CutIn(a, b) /\ \A y \in CutIn(a, b) : cut <= y
  <2>1. CutIn(a, b) \in SUBSET Nat
    BY DEF CutIn
  <2>. QED  BY <2>1, SmallestExists
<1>2. cut \in a + 1..b - 1 /\ Width(cut) # 0 /\ SumOfWidths(a, cut + 1) > limit
  BY <1>1 DEF CutIn
<1>3. cut \in Nat /\ a <= cut /\ cut <= b /\ cut <= Size
  BY <1>2, ParagraphShape
<1>4. \A o \in a + 1..cut - 1 : Width(o) # 0 => ~ (SumOfWidths(a, o + 1) > limit)
  <2> SUFFICES ASSUME NEW o \in a + 1..cut - 1, Width(o) # 0, SumOfWidths(a, o + 1) > limit PROVE FALSE
    OBVIOUS
  <2>1. o \in a + 1..b - 1 /\ ~ (cut <= o)
    BY <1>2
  <2>2. o \in CutIn(a, b)
    BY <2>1 DEF CutIn
  <2>. QED  BY <1>1, <2>1, <2>2
<1>5. SumOfWidths(a, cut) > limit => \A o \in a + 1..cut - 1 : Width(o) = 0
  BY <1>3, <1>4, OneCluster
<1>6. CASE \E o \in cut..b - 1 : ~IsLineEndSpace(Char(o))
  <2>1. DrawnWidth(a, b) - SumOfWidths(a, cut) = DrawnWidth(cut, b)
    BY <1>3, <1>6, DrawnRest
  <2>2. KeepsSpaces(a, b) => DrawnWidth(a, cut) = SumOfWidths(a, cut)
    <3>1. cut \in a + 1..b
      BY <1>2
    <3>. QED  BY <1>6, <3>1, DrawnBefore
  <2>. QED  BY <1>2, <1>5, <2>1, <2>2
<1>7. CASE \A o \in cut..b - 1 : IsLineEndSpace(Char(o))
  <2>1. DrawnWidth(a, b) = DrawnWidth(a, cut) /\ DrawnWidth(cut, b) = 0
    BY <1>3, <1>7, DrawnRest
  <2>2. DrawnWidth(a, cut) \in Nat /\ DrawnWidth(a, cut) <= SumOfWidths(a, cut)
    BY <1>3, DrawnIsNat
  <2>3. ~ \A o \in a..cut - 1 : IsLineEndSpace(Char(o))
    <3> SUFFICES ASSUME \A o \in a..cut - 1 : IsLineEndSpace(Char(o)) PROVE FALSE
      OBVIOUS
    <3>1. DrawnWidth(a, cut) = 0
      BY <1>3, DrawnNothing
    <3>. QED  BY <2>1, <3>1
  <2>4. PICK v : LastVisible(a, cut, v)
    BY <1>3, <2>3, DrawnCases
  <2>5. v \in a..cut - 1 /\ v + 1 \in Nat /\ a <= v + 1 /\ v + 1 <= cut
    BY <1>3, <2>4 DEF LastVisible
  <2>6. DrawnWidth(a, cut) = SumOfWidths(a, v + 1) /\ SumOfWidths(a, v + 1) > limit
    BY <1>3, <2>1, <2>4, DrawnTo
  <2>7. \A o \in v + 1..cut - 1 : Width(o) = 0
    <3> SUFFICES ASSUME NEW o \in v + 1..cut - 1, Width(o) # 0 PROVE FALSE
      OBVIOUS
    <3>1. o \in a + 1..cut - 1 /\ o + 1 \in Nat /\ v + 1 <= o + 1 /\ o + 1 <= Size
      BY <1>3, <2>5, ParagraphShape
    <3>2. SumOfWidths(a, o + 1) = SumOfWidths(a, v + 1) + SumOfWidths(v + 1, o + 1)
          /\ SumOfWidths(v + 1, o + 1) \in Nat /\ SumOfWidths(a, v + 1) \in Nat
      BY <2>5, <3>1, SumSplit
    <3>3. SumOfWidths(a, o + 1) > limit
      BY <2>6, <3>2
    <3>. QED  BY <1>4, <3>1, <3>3
  <2>8. SumOfWidths(v + 1, cut) = 0
    BY <1>3, <2>5, <2>7, ZeroSum
  <2>9. SumOfWidths(a, cut) = SumOfWidths(a, v + 1) + SumOfWidths(v + 1, cut) /\ SumOfWidths(a, v + 1) \in Nat
    BY <1>3, <2>5, SumSplit
  <2>10. SumOfWidths(a, cut) = DrawnWidth(a, cut)
    BY <2>6, <2>8, <2>9
  <2>. QED  BY <1>2, <1>5, <2>1, <2>2, <2>10
<1>. QED  BY <1>6, <1>7

-----------------------------------------------------------------------------
(* What depends on the paragraph only is the same after a step.            *)
LEMMA SameWidths ==
  ASSUME UNCHANGED par
  PROVE  /\ \A a, b : SumOfWidths(a, b)' = SumOfWidths(a, b) /\ DrawnWidth(a, b)' = DrawnWidth(a, b)
         /\ \A l : GetAt(l)' = GetAt(l)
<1>1. \A a, b : SumOfWidths(a, b)' = SumOfWidths(a, b)
  BY DEF SumOfWidths, Width
<1>2. \A a, b : DrawnWidth(a, b)' = DrawnWidth(a, b)
  BY DEF DrawnWidth, Visible, IsLineEndSpace, Char, SumOfWidths, Width
<1>3. \A l : GetAt(l)' = GetAt(l)
  BY DEF GetAt
<1>. QED  BY <1>1, <1>2, <1>3

(* Boundaries, words and the hypotheses. *)
LEMMA SamePlaces ==
  ASSUME UNCHANGED par
  PROVE  /\ \A b : (Ends(b)' <=> Ends(b)) /\ (MayEndLine(b)' <=> MayEndLine(b))
                   /\ (IsInEmailOrUrl(b)' <=> IsInEmailOrUrl(b)) /\ WordRange(b)' = WordRange(b)
         /\ Plain' <=> Plain
         /\ Roomy' <=> Roomy
         /\ IsGreedy' <=> IsGreedy
         /\ MEnableHyphenation' <=> MEnableHyphenation
<1>1. \A b : MayEndLine(b)' <=> MayEndLine(b)
  BY DEF MayEndLine, RunAt, RunStart
<1>2. \A b : IsInEmailOrUrl(b)' <=> IsInEmailOrUrl(b)
  BY DEF IsInEmailOrUrl
<1>3. \A b : Ends(b)' <=> Ends(b)
  BY DEF Ends, MayEndLine, RunAt, RunStart, IsInEmailOrUrl
<1>4. \A b : WordRange(b)' = WordRange(b)
  BY DEF WordRange, LastBoundary, Restarts, RunStart, Char
<1>5. (Plain' <=> Plain) /\ (Roomy' <=> Roomy)
  BY DEF Plain, Roomy, HasTabs, StartHyphens, Size, Char, Width, GetAt, MEnableHyphenation
<1>6. (IsGreedy' <=> IsGreedy) /\ (MEnableHyphenation' <=> MEnableHyphenation)
  BY DEF IsGreedy, HasTabs, Size, Char, MEnableHyphenation
<1>. QED  BY <1>1, <1>2, <1>3, <1>4, <1>5, <1>6

(* What is said of a line. *)
LEMMA SameGoodLine ==
  ASSUME UNCHANGED par
  PROVE  \A k, start, line : GoodLine(k, start, line)' <=> GoodLine(k, start, line)
BY DEF GoodLine, HasCharacter, WidthIsDrawn, IsOneCluster, HasMostWords, IsLongestPiece, Longer, Fitting,
       Parted, Plain, Roomy, HasTabs, StartHyphens, Size, Char, Width, GetAt, MEnableHyphenation,
       MayEndLine, RunAt, RunStart, IsInEmailOrUrl, WordRange, LastBoundary, Restarts,
       DrawnWidth, Visible, IsLineEndSpace, SumOfWidths

(* The lines, when none is added. *)
LEMMA SameLines ==
  ASSUME UNCHANGED <<par, mBreakPoints>>, GoodLines
  PROVE  GoodLines' /\ GetPrevLineBreakOffset' = GetPrevLineBreakOffset /\ MLineWidthLimit' = MLineWidthLimit
<1>1. GoodLines'
  <2> SUFFICES ASSUME NEW k \in DOMAIN mBreakPoints PROVE GoodLine(k, LineStart(k), mBreakPoints[k])'
    BY DEF GoodLines
  <2>1. GoodLine(k, LineStart(k), mBreakPoints[k])
    BY DEF GoodLines
  <2>2. LineStart(k)' = LineStart(k)
    BY DEF LineStart
  <2>. QED  BY <2>1, <2>2, SameGoodLine
<1>2. GetPrevLineBreakOffset' = GetPrevLineBreakOffset
  BY DEF GetPrevLineBreakOffset
<1>3. MLineWidthLimit' = MLineWidthLimit
  BY SameWidths DEF MLineWidthLimit
<1>. QED  BY <1>1, <1>2, <1>3

(* The limit of the current line. *)
LEMMA NumberOfLines ==
  ASSUME Inv
  PROVE  Len(mBreakPoints) \in Nat /\ DOMAIN mBreakPoints = 1..Len(mBreakPoints)
         /\ MLineWidthLimit \in Nat /\ GetAt(Len(mBreakPoints) + 1 - 1) = MLineWidthLimit
<1>1. PICK T : mBreakPoints \in Seq(T)
  BY DEF Inv, Breaks
<1>2. Len(mBreakPoints) \in Nat /\ DOMAIN mBreakPoints = 1..Len(mBreakPoints)
  BY <1>1
<1>3. Len(mBreakPoints) + 1 - 1 = Len(mBreakPoints)
  BY <1>2
<1>4. MLineWidthLimit \in Nat
  BY <1>2, LimitIsNat DEF Inv, MLineWidthLimit
<1>. QED  BY <1>2, <1>3, <1>4 DEF MLineWidthLimit

(* A good line that is added joins good lines. *)
LEMMA AppendLine ==
  ASSUME Inv, GoodLines, UNCHANGED par, NEW line, mBreakPoints' = Append(mBreakPoints, line),
         GoodLine(Len(mBreakPoints) + 1, GetPrevLineBreakOffset, line)
  PROVE  GoodLines' /\ Len(mBreakPoints') = Len(mBreakPoints) + 1 /\ GetPrevLineBreakOffset' = line.offset
<1> DEFINE n == Len(mBreakPoints)
<1>1. PICK T : mBreakPoints \in Seq(T)
  BY DEF Inv, Breaks
<1>2. n \in Nat /\ DOMAIN mBreakPoints = 1..n
      /\ (n = 0 => mBreakPoints = << >>)
      /\ (n # 0 => mBreakPoints # << >> /\ mBreakPoints[n].offset = GetPrevLineBreakOffset)
  BY <1>1 DEF GetPrevLineBreakOffset, S!Last
<1> HIDE DEF n
<1>3. /\ Len(mBreakPoints') = n + 1 /\ DOMAIN mBreakPoints' = 1..n + 1
      /\ mBreakPoints'[n + 1] = line /\ \A k \in 1..n : mBreakPoints'[k] = mBreakPoints[k]
  <2>1. mBreakPoints \in Seq(T \cup {line}) /\ line \in T \cup {line}
    BY <1>1
  <2>. QED  BY <2>1 DEF n
<1>4. GetPrevLineBreakOffset' = line.offset
  <2>1. mBreakPoints' # << >> /\ mBreakPoints'[Len(mBreakPoints')] = line
    BY <1>2, <1>3
  <2>. QED  BY <2>1 DEF GetPrevLineBreakOffset, S!Last
<1>5. ASSUME NEW k \in 1..n + 1 PROVE GoodLine(k, LineStart(k), mBreakPoints[k])'
  <2>1. CASE k = n + 1
    <3>1. LineStart(k)' = GetPrevLineBreakOffset
      <4>1. CASE n = 0
        BY <1>2, <2>1, <4>1 DEF LineStart, GetPrevLineBreakOffset
      <4>2. CASE n # 0
        <5>1. k # 1 /\ k - 1 = n /\ n \in 1..n
          BY <1>2, <2>1, <4>2
        <5>. QED  BY <1>2, <1>3, <4>2, <5>1 DEF LineStart
      <4>. QED  BY <4>1, <4>2
    <3>2. mBreakPoints'[k] = line
      BY <1>3, <2>1
    <3>. QED  BY <2>1, <3>1, <3>2, SameGoodLine DEF n
  <2>2. CASE k # n + 1
    <3>1. k \in 1..n /\ (k # 1 => k - 1 \in 1..n)
      BY <1>2, <2>2
    <3>2. LineStart(k)' = LineStart(k)
      BY <1>3, <3>1 DEF LineStart
    <3>3. mBreakPoints'[k] = mBreakPoints[k]
      BY <1>3, <3>1
    <3>4. GoodLine(k, LineStart(k), mBreakPoints[k])
      BY <1>2, <3>1 DEF GoodLines
    <3>. QED  BY <3>2, <3>3, <3>4, SameGoodLine
  <2>. QED  BY <2>1, <2>2
<1>. QED  BY <1>3, <1>4, <1>5 DEF GoodLines, n

-----------------------------------------------------------------------------
(* The lines the three ways to break make.                                 *)
LEMMA FillingBounds ==
  ASSUME Filling
  PROVE  /\ GetPrevLineBreakOffset \in Nat /\ scanned \in Nat /\ Size \in Nat /\ Size >= 1
         /\ GetPrevLineBreakOffset <= scanned /\ scanned <= Size
         /\ IsParagraph(par) /\ Inv
         /\ MLineWidthLimit \in Nat
BY Bounds, NumberOfLines DEF Filling, Inv

(* Spaces on a line that has no word to fall back to are at its end. *)
LEMMA SpacesKept ==
  ASSUME Filling, prevWord = NoWord, ~Parted
  PROVE  KeepsSpaces(GetPrevLineBreakOffset, scanned)
<1> DEFINE from == GetPrevLineBreakOffset
<1>1. SUFFICES ASSUME NEW o \in from..scanned - 2, IsLineEndSpace(Char(o)), ~IsLineEndSpace(Char(o + 1))
               PROVE  FALSE
  BY DEF KeepsSpaces
<1>2. from \in Nat /\ scanned \in Nat /\ Size \in Nat /\ scanned <= Size
  BY FillingBounds
<1>3. o \in 0..Size - 1 /\ o \in 0..Size - 2 /\ from < o + 1 /\ o + 1 < scanned /\ o + 1 - 1 = o
  BY <1>2
<1>4. par.runs[RunAt(o)].canBreak /\ o + 1 \in DOMAIN par.words /\ ~IsInEmailOrUrl(o + 1)
  BY <1>1, <1>3 DEF Parted, IsLineEndSpace
<1>5. Ends(o + 1)
  BY <1>3, <1>4 DEF Ends, MayEndLine
<1>6. Anchor < o + 1
  BY <1>3 DEF Anchor
<1>7. o + 1 >= scanned
  BY <1>5, <1>6 DEF Filling, Placed
<1>8. o + 1 \in Nat
  BY <1>3
<1>. QED  BY <1>2, <1>3, <1>7, <1>8

(* When the line is too wide and there is no word to fall back to, no boundary fits. *)
LEMMA NoneFits ==
  ASSUME Filling, Plain, Overfull, prevWord = NoWord \/ prevWord.isInEmailOrUrl
  PROVE  Fitting(Len(mBreakPoints) + 1, GetPrevLineBreakOffset) = {}
<1> DEFINE from == GetPrevLineBreakOffset  k == Len(mBreakPoints) + 1
<1>1. SUFFICES ASSUME NEW b \in Fitting(k, from) PROVE FALSE
  OBVIOUS
<1>2. /\ b \in DOMAIN par.words /\ Ends(b) /\ from < b
      /\ DrawnWidth(from, b) <= GetAt(k - 1)
  <2>1. b \in DOMAIN par.words /\ MayEndLine(b) /\ b > from /\ ~IsInEmailOrUrl(b)
        /\ DrawnWidth(from, b) <= GetAt(k - 1)
    BY DEF Fitting
  <2>2. b \in Nat
    BY <2>1, FillingBounds, ParagraphShape
  <2>. QED  BY <2>1, <2>2, FillingBounds DEF Ends
<1>3. GetAt(k - 1) = MLineWidthLimit
  BY NumberOfLines, FillingBounds
<1>4. Anchor = from
  BY DEF Anchor
<1>5. b >= scanned /\ b \in Nat /\ b <= Size
  BY <1>2, <1>4, FillingBounds, ParagraphShape DEF Filling, Placed
<1>6. DrawnWidth(from, scanned) <= DrawnWidth(from, b)
  BY <1>5, FillingBounds, DrawnGrows
<1>7. mLineWidth = DrawnWidth(from, scanned) /\ mLineWidth > MLineWidthLimit
  BY DEF Filling, Measured, Overfull
<1>8. DrawnWidth(from, scanned) \in Nat /\ DrawnWidth(from, b) \in Nat
  BY <1>2, <1>5, FillingBounds, DrawnIsNat
<1>. QED  BY <1>2, <1>3, <1>6, <1>7, <1>8, FillingBounds

(* The word to fall back to is the last that fits. *)
LEMMA WordFits ==
  ASSUME Filling, Plain, Overfull, pc = "fit", prevWord # NoWord, ~prevWord.isInEmailOrUrl,
         Fitting(Len(mBreakPoints) + 1, GetPrevLineBreakOffset) # {}
  PROVE  prevWord.offset = Largest(Fitting(Len(mBreakPoints) + 1, GetPrevLineBreakOffset))
<1> DEFINE from == GetPrevLineBreakOffset  k == Len(mBreakPoints) + 1  q == prevWord.offset  fits == Fitting(k, from)
<1>1. from \in Nat /\ scanned \in Nat /\ Size \in Nat /\ scanned <= Size /\ from <= scanned
      /\ IsParagraph(par) /\ MLineWidthLimit \in Nat
  BY FillingBounds
<1>2. GetAt(k - 1) = MLineWidthLimit
  BY NumberOfLines, FillingBounds
<1>3. q \in from..scanned /\ q \in DOMAIN par.words /\ MayEndLine(q) /\ ~IsInEmailOrUrl(q)
      /\ DrawnWidth(from, q) <= MLineWidthLimit
  BY DEF Filling, FellBack, Inv, Remembered, Measured
<1>4. Anchor = q
  BY DEF Anchor
<1>5. mLineWidth = DrawnWidth(from, scanned) /\ mLineWidth > MLineWidthLimit
  BY DEF Filling, Measured, Overfull
<1> HIDE DEF q
<1>6. ASSUME NEW b \in fits PROVE b \in Nat /\ b <= Size /\ from < b /\ b <= q
  <2>1. b \in DOMAIN par.words /\ MayEndLine(b) /\ b > from /\ ~IsInEmailOrUrl(b)
        /\ DrawnWidth(from, b) <= GetAt(k - 1)
    BY DEF Fitting
  <2>2. b \in Nat /\ b <= Size
    BY <1>1, <2>1, ParagraphShape
  <2>3. SUFFICES ASSUME q < b PROVE FALSE
    BY <1>1, <1>3, <2>1, <2>2
  <2>4. b >= scanned
    BY <1>4, <2>1, <2>3 DEF Filling, Placed, Ends
  <2>5. DrawnWidth(from, scanned) <= DrawnWidth(from, b)
    BY <1>1, <2>2, <2>4, DrawnGrows
  <2>6. DrawnWidth(from, scanned) \in Nat /\ DrawnWidth(from, b) \in Nat
    <3>1. from <= b
      BY <1>1, <2>1, <2>2
    <3> HIDE DEF from
    <3>. QED  BY <1>1, <2>2, <3>1, DrawnIsNat
  <2>. QED  BY <1>1, <1>2, <1>5, <2>1, <2>5, <2>6
<1>7. PICK b \in fits : TRUE
  OBVIOUS
<1>8. from < q
  BY <1>1, <1>3, <1>6, <1>7
<1>9. q \in fits
  BY <1>1, <1>2, <1>3, <1>8 DEF Fitting
<1> HIDE DEF fits
<1>10. fits \in SUBSET (0..Size)
  BY <1>1, <1>6
<1>11. Largest(fits) \in fits /\ q <= Largest(fits)
  BY <1>1, <1>9, <1>10, LargestExists
<1>12. Largest(fits) <= q /\ Largest(fits) \in Nat
  BY <1>6, <1>11
<1>13. q = Largest(fits)
  BY <1>1, <1>3, <1>11, <1>12
<1>. QED  BY <1>13 DEF q, fits

(* What a break at offset makes of the state. *)
Moves(offset) ==
  /\ offset \in GetPrevLineBreakOffset..scanned /\ GetPrevLineBreakOffset' = offset
  /\ prevWord' = NoWord /\ UNCHANGED <<par, scanned>>
  /\ GoodLines' /\ Len(mBreakPoints') = Len(mBreakPoints) + 1
  /\ Plain => /\ mStartHyphenEdit' = FALSE
              /\ mSumOfCharWidths' = SumOfWidths(offset, scanned)
              /\ mLineWidth' = DrawnWidth(offset, scanned)

(* A good line that breakLineAt adds moves the start of the line. *)
LEMMA LineMoves ==
  ASSUME Filling, NEW offset \in GetPrevLineBreakOffset..scanned,
         NEW w, NEW rw, NEW rs, NEW e, NEW s, BreakLineAt(offset, w, rw, rs, e, s), UNCHANGED <<par, scanned>>,
         GoodLine(Len(mBreakPoints) + 1, GetPrevLineBreakOffset,
                  [offset |-> offset, lineWidth |-> w, startHyphen |-> mStartHyphenEdit, endHyphen |-> e]),
         Plain => s = FALSE /\ rs = SumOfWidths(offset, scanned) /\ rw = DrawnWidth(offset, scanned)
  PROVE  Moves(offset)
<1> DEFINE line == [offset |-> offset, lineWidth |-> w, startHyphen |-> mStartHyphenEdit, endHyphen |-> e]
<1>1. /\ mBreakPoints' = Append(mBreakPoints, line) /\ mLineWidth' = rw /\ mSumOfCharWidths' = rs
      /\ mStartHyphenEdit' = s /\ prevWord' = NoWord
  BY DEF BreakLineAt
<1>2. GoodLine(Len(mBreakPoints) + 1, GetPrevLineBreakOffset, line) /\ line.offset = offset
  OBVIOUS
<1> HIDE DEF line
<1>3. GoodLines' /\ Len(mBreakPoints') = Len(mBreakPoints) + 1 /\ GetPrevLineBreakOffset' = offset
  BY <1>1, <1>2, AppendLine DEF Filling
<1>. QED  BY <1>1, <1>3 DEF Moves

(* doLineBreakWithGraphemeBounds, where it finds a place. *)
LEMMA CutMoves ==
  ASSUME Filling, prevWord = NoWord, Plain => Overfull, UNCHANGED <<par, scanned>>,
         DoLineBreakWithGraphemeBounds(GetPrevLineBreakOffset, scanned),
         CutIn(GetPrevLineBreakOffset, scanned) # {}
  PROVE  \E offset : Moves(offset) /\ offset < scanned
<1> DEFINE from == GetPrevLineBreakOffset  k == Len(mBreakPoints) + 1
           cut == Smallest(CutIn(from, scanned))
           width == SumOfWidths(from, cut)
           line == [offset |-> cut, lineWidth |-> width, startHyphen |-> mStartHyphenEdit, endHyphen |-> FALSE]
<1>1. /\ from \in Nat /\ scanned \in Nat /\ Size \in Nat /\ scanned <= Size /\ from <= scanned
      /\ IsParagraph(par) /\ MLineWidthLimit \in Nat
  BY FillingBounds
<1>2. GetAt(k - 1) = MLineWidthLimit
  BY NumberOfLines, FillingBounds
<1>3. BreakLineAt(cut, width, mLineWidth - width, mSumOfCharWidths - width, FALSE, FALSE)
  BY DEF DoLineBreakWithGraphemeBounds
<1>4. cut \in from + 1..scanned - 1
  <2>1. CutIn(from, scanned) \in SUBSET Nat /\ CutIn(from, scanned) \subseteq from + 1..scanned - 1
    BY <1>1 DEF CutIn
  <2>2. cut \in CutIn(from, scanned)
    BY <2>1, SmallestExists
  <2>. QED  BY <2>1, <2>2
<1>5. cut \in Nat /\ from < cut /\ cut < scanned /\ cut \in from..scanned
  BY <1>1, <1>4
<1>6. Plain => /\ mStartHyphenEdit = FALSE /\ mSumOfCharWidths = SumOfWidths(from, scanned)
               /\ mLineWidth = DrawnWidth(from, scanned) /\ DrawnWidth(from, scanned) > MLineWidthLimit
  BY DEF Filling, Measured, Overfull
<1>7. Plain => /\ DrawnWidth(from, scanned) - width = DrawnWidth(cut, scanned)
               /\ width > MLineWidthLimit => \A o \in from + 1..cut - 1 : Width(o) = 0
               /\ KeepsSpaces(from, scanned) => DrawnWidth(from, cut) = width
  BY <1>1, <1>6, Cut
<1>8. width \in Nat /\ SumOfWidths(from, scanned) - width = SumOfWidths(cut, scanned)
  <2>1. /\ SumOfWidths(from, scanned) = SumOfWidths(from, cut) + SumOfWidths(cut, scanned)
        /\ SumOfWidths(from, cut) \in Nat /\ SumOfWidths(cut, scanned) \in Nat
    BY <1>1, <1>5, SumSplit
  <2>. QED  BY <2>1
<1>9. line.offset = cut /\ line.lineWidth = width /\ line.startHyphen = mStartHyphenEdit /\ line.endHyphen = FALSE
  OBVIOUS
<1> HIDE DEF cut, width, line
<1>10. GoodLine(k, from, line)
  <2>1. HasCharacter(from, line)
    BY <1>5, <1>9 DEF HasCharacter
  <2>2. WidthIsDrawn(from, line)
    <3> SUFFICES ASSUME Plain, ~Parted PROVE line.lineWidth = DrawnWidth(from, cut) + (0 + 0)
      BY <1>6, <1>9 DEF WidthIsDrawn
    <3>1. KeepsSpaces(from, scanned)
      BY SpacesKept
    <3>. QED  BY <1>7, <1>8, <1>9, <3>1
  <2>3. IsOneCluster(k, from, line)
    BY <1>2, <1>7, <1>9 DEF IsOneCluster
  <2>4. HasMostWords(k, from, line)
    BY NoneFits DEF HasMostWords
  <2>5. IsLongestPiece(k, from, line)
    BY <1>9 DEF IsLongestPiece
  <2>. QED  BY <2>1, <2>2, <2>3, <2>4, <2>5 DEF GoodLine
<1>11. Moves(cut)
  <2>1. Plain => /\ FALSE = FALSE /\ mSumOfCharWidths - width = SumOfWidths(cut, scanned)
                 /\ mLineWidth - width = DrawnWidth(cut, scanned)
    BY <1>6, <1>7, <1>8
  <2>2. GoodLine(k, from, [offset |-> cut, lineWidth |-> width, startHyphen |-> mStartHyphenEdit,
                           endHyphen |-> FALSE])
    BY <1>10 DEF line
  <2>. QED  BY <1>3, <1>5, <2>1, <2>2, LineMoves
<1>. QED  BY <1>5, <1>11

(* doLineBreakWithGraphemeBounds, where it gives up. *)
LEMMA WholeMoves ==
  ASSUME Filling, prevWord = NoWord, Plain => Overfull, UNCHANGED <<par, scanned>>,
         DoLineBreakWithGraphemeBounds(GetPrevLineBreakOffset, scanned),
         CutIn(GetPrevLineBreakOffset, scanned) = {},
         Roomy => GetPrevLineBreakOffset < scanned
  PROVE  Moves(scanned) /\ mLineWidth' = 0
<1> DEFINE from == GetPrevLineBreakOffset  k == Len(mBreakPoints) + 1
           line == [offset |-> scanned, lineWidth |-> mLineWidth, startHyphen |-> mStartHyphenEdit,
                    endHyphen |-> FALSE]
<1>1. /\ from \in Nat /\ scanned \in Nat /\ Size \in Nat /\ scanned <= Size /\ from <= scanned
      /\ IsParagraph(par) /\ MLineWidthLimit \in Nat /\ scanned \in from..scanned
  BY FillingBounds
<1>2. GetAt(k - 1) = MLineWidthLimit
  BY NumberOfLines, FillingBounds
<1>3. BreakLineAt(scanned, mLineWidth, 0, 0, FALSE, FALSE)
  BY DEF DoLineBreakWithGraphemeBounds
<1>4. Plain => /\ mStartHyphenEdit = FALSE /\ mSumOfCharWidths = SumOfWidths(from, scanned)
               /\ mLineWidth = DrawnWidth(from, scanned) /\ DrawnWidth(from, scanned) > MLineWidthLimit
  BY DEF Filling, Measured, Overfull
<1>5. line.offset = scanned /\ line.lineWidth = mLineWidth /\ line.startHyphen = mStartHyphenEdit
      /\ line.endHyphen = FALSE
  OBVIOUS
<1> HIDE DEF line
<1>6. GoodLine(k, from, line)
  <2>1. HasCharacter(from, line)
    BY <1>5 DEF HasCharacter
  <2>2. WidthIsDrawn(from, line)
    <3>1. DrawnWidth(from, scanned) \in Nat
      BY <1>1, DrawnIsNat
    <3> SUFFICES ASSUME Plain PROVE line.lineWidth = DrawnWidth(from, scanned) + (0 + 0)
      BY <1>4, <1>5 DEF WidthIsDrawn
    <3>. QED  BY <1>4, <1>5, <3>1
  <2>3. IsOneCluster(k, from, line)
    <3>1. Plain => \A o \in from + 1..scanned - 1 : Width(o) = 0
      BY <1>1, <1>4, NoCut
    <3>. QED  BY <1>5, <3>1 DEF IsOneCluster
  <2>4. HasMostWords(k, from, line)
    BY NoneFits DEF HasMostWords
  <2>5. IsLongestPiece(k, from, line)
    BY <1>5 DEF IsLongestPiece
  <2>. QED  BY <2>1, <2>2, <2>3, <2>4, <2>5 DEF GoodLine
<1>7. SumOfWidths(scanned, scanned) = 0 /\ DrawnWidth(scanned, scanned) = 0
  BY <1>1, SumStep, DrawnStep
<1>8. GoodLine(k, from, [offset |-> scanned, lineWidth |-> mLineWidth, startHyphen |-> mStartHyphenEdit,
                         endHyphen |-> FALSE])
  BY <1>6 DEF line
<1>9. Moves(scanned)
  BY <1>1, <1>3, <1>7, <1>8, LineMoves
<1>. QED  BY <1>3, <1>9 DEF BreakLineAt

(* With room for every cluster a word too wide for a line has two.         *)
LEMMA RoomyCuts ==
  ASSUME Filling, Plain, Overfull, \A o \in 0..Size - 1, l \in Nat : Width(o) <= GetAt(l)
  PROVE  CutIn(GetPrevLineBreakOffset, scanned) # {}
<1> DEFINE from == GetPrevLineBreakOffset
<1>1. /\ from \in Nat /\ scanned \in Nat /\ Size \in Nat /\ scanned <= Size /\ from <= scanned
      /\ IsParagraph(par) /\ MLineWidthLimit \in Nat
  BY FillingBounds
<1>2. mLineWidth = DrawnWidth(from, scanned) /\ DrawnWidth(from, scanned) > MLineWidthLimit
  BY DEF Filling, Measured, Overfull
<1>3. SUFFICES ASSUME CutIn(from, scanned) = {} PROVE FALSE
  OBVIOUS
<1>4. \A o \in from + 1..scanned - 1 : Width(o) = 0
  BY <1>1, <1>2, <1>3, NoCut
<1>5. CASE from = scanned
  <2>1. DrawnWidth(from, scanned) = 0
    BY <1>1, <1>5, DrawnStep
  <2>. QED  BY <1>1, <1>2, <2>1
<1>6. CASE from < scanned
  <2>1. from + 1 \in Nat /\ from + 1 <= scanned /\ from \in 0..Size - 1 /\ from <= from + 1
    BY <1>1, <1>6
  <2>2. SumOfWidths(from + 1, scanned) = 0
    BY <1>1, <1>4, <2>1, ZeroSum
  <2>3. SumOfWidths(from, from + 1) = Width(from)
    <3>1. SumOfWidths(from, from) = 0 /\ SumOfWidths(from, from + 1) = SumOfWidths(from, from) + Width(from)
      BY <1>1, SumStep
    <3>2. Width(from) \in Nat
      BY <1>1, <2>1, WidthsAreNat
    <3>. QED  BY <3>1, <3>2
  <2>4. SumOfWidths(from, scanned) = SumOfWidths(from, from + 1) + SumOfWidths(from + 1, scanned)
        /\ SumOfWidths(from, from + 1) \in Nat
    BY <1>1, <2>1, SumSplit
  <2>5. DrawnWidth(from, scanned) <= SumOfWidths(from, scanned) /\ DrawnWidth(from, scanned) \in Nat
    BY <1>1, DrawnIsNat
  <2>6. Width(from) <= MLineWidthLimit
    BY <2>1, NumberOfLines DEF MLineWidthLimit, Filling
  <2>. QED  BY <1>1, <1>2, <2>2, <2>3, <2>4, <2>5, <2>6
<1>. QED  BY <1>1, <1>5, <1>6

(* BreakAtWord. *)
LEMMA WordMoves ==
  ASSUME Filling, BreakAtWord
  PROVE  Moves(prevWord.offset) /\ Anchor <= prevWord.offset /\ prevWord.offset < scanned
<1> DEFINE from == GetPrevLineBreakOffset  k == Len(mBreakPoints) + 1  q == prevWord.offset
           line == [offset |-> q, lineWidth |-> prevWord.lineWidth, startHyphen |-> mStartHyphenEdit,
                    endHyphen |-> FALSE]
<1>1. /\ from \in Nat /\ scanned \in Nat /\ Size \in Nat /\ scanned <= Size /\ from <= scanned
      /\ IsParagraph(par) /\ MLineWidthLimit \in Nat
  BY FillingBounds
<1>2. GetAt(k - 1) = MLineWidthLimit
  BY NumberOfLines, FillingBounds
<1>3. /\ pc = "fit" /\ Overfull /\ prevWord # NoWord /\ UNCHANGED <<par, scanned, hyph, pc>>
      /\ BreakLineAt(q, prevWord.lineWidth, mLineWidth - prevWord.sum, mSumOfCharWidths - prevWord.sum, FALSE, FALSE)
  BY DEF BreakAtWord
<1>4. q \in from..scanned /\ q < scanned /\ (Roomy => from < q)
  BY <1>3 DEF Filling, Inv, Remembered, FellBack
<1>5. Plain => /\ mStartHyphenEdit = FALSE /\ mSumOfCharWidths = SumOfWidths(from, scanned)
               /\ mLineWidth = DrawnWidth(from, scanned) /\ DrawnWidth(from, scanned) > MLineWidthLimit
               /\ prevWord.sum = SumOfWidths(from, q)
               /\ prevWord.lineWidth = DrawnWidth(from, q) /\ DrawnWidth(from, q) <= MLineWidthLimit
  BY <1>3 DEF Filling, Measured, Overfull
<1>6. q \in Nat /\ from <= q /\ q <= Size
  BY <1>1, <1>4
<1>7. DrawnWidth(from, q) \in Nat /\ SumOfWidths(from, q) \in Nat
      /\ DrawnWidth(from, scanned) \in Nat /\ SumOfWidths(from, scanned) \in Nat
  BY <1>1, <1>6, DrawnIsNat
<1>8. line.offset = q /\ line.lineWidth = prevWord.lineWidth /\ line.startHyphen = mStartHyphenEdit
      /\ line.endHyphen = FALSE
  OBVIOUS
<1>16. Anchor <= q
  BY <1>1, <1>4, <1>6 DEF Anchor
<1>9. GoodLine(k, from, line)
  <2>4. HasMostWords(k, from, line)
    <3>1. CASE prevWord.isInEmailOrUrl
      BY <1>3, <3>1, NoneFits DEF HasMostWords
    <3>2. CASE ~prevWord.isInEmailOrUrl
      BY <1>3, <1>8, <3>2, WordFits DEF HasMostWords
    <3>. QED  BY <3>1, <3>2
  <2> HIDE DEF line, q
  <2>1. HasCharacter(from, line)
    BY <1>4, <1>8 DEF HasCharacter
  <2>2. WidthIsDrawn(from, line)
    <3> SUFFICES ASSUME Plain PROVE line.lineWidth = DrawnWidth(from, q) + (0 + 0)
      BY <1>5, <1>8 DEF WidthIsDrawn
    <3>. QED  BY <1>5, <1>7, <1>8
  <2>3. IsOneCluster(k, from, line)
    <3> SUFFICES ASSUME Plain, line.lineWidth > GetAt(k - 1) PROVE FALSE
      BY DEF IsOneCluster
    <3>. QED  BY <1>1, <1>2, <1>5, <1>7, <1>8
  <2>5. IsLongestPiece(k, from, line)
    BY <1>8 DEF IsLongestPiece
  <2>. QED  BY <2>1, <2>2, <2>3, <2>4, <2>5 DEF GoodLine
<1> HIDE DEF q
<1>10. Plain => mSumOfCharWidths - prevWord.sum = SumOfWidths(q, scanned)
  <2>1. SumOfWidths(from, scanned) = SumOfWidths(from, q) + SumOfWidths(q, scanned) /\ SumOfWidths(q, scanned) \in Nat
    BY <1>1, <1>4, <1>6, SumSplit
  <2>. QED  BY <1>5, <1>7, <2>1
<1>11. Plain => mLineWidth - prevWord.sum = DrawnWidth(q, scanned)
  <2> SUFFICES ASSUME Plain PROVE mLineWidth - prevWord.sum = DrawnWidth(q, scanned)
    OBVIOUS
  <2>1. CASE \E o \in q..scanned - 1 : ~IsLineEndSpace(Char(o))
    <3>1. DrawnWidth(from, scanned) - SumOfWidths(from, q) = DrawnWidth(q, scanned)
      BY <1>1, <1>4, <1>6, <2>1, DrawnRest
    <3>. QED  BY <1>5, <3>1
  <2>2. CASE \A o \in q..scanned - 1 : IsLineEndSpace(Char(o))
    <3>1. DrawnWidth(from, scanned) = DrawnWidth(from, q)
      BY <1>1, <1>4, <1>6, <2>2, DrawnRest
    <3>. QED  BY <1>1, <1>5, <1>7, <3>1
  <2>. QED  BY <2>1, <2>2
<1>12. GoodLine(k, from, [offset |-> q, lineWidth |-> prevWord.lineWidth, startHyphen |-> mStartHyphenEdit,
                         endHyphen |-> FALSE])
  BY <1>9 DEF line
<1>13. Moves(q)
  BY <1>3, <1>4, <1>10, <1>11, <1>12, LineMoves
<1>. QED  BY <1>4, <1>13, <1>16 DEF q

-----------------------------------------------------------------------------
(* Hyphenation points lie behind the start of the word and before a        *)
(* character of it that is seen; no boundary is between the start of the   *)
(* word and the boundary it was asked at.                                  *)
LEMMA WordHolds ==
  ASSUME IsParagraph(par), NEW s \in DOMAIN par.words, NEW h \in Nat,
         WordRange(s).start < h, h < WordRange(s).end
  PROVE  /\ h < s
         /\ \E o \in h..s - 1 : ~IsLineEndSpace(Char(o))
         /\ \A b \in DOMAIN par.words : b < s => b < h
<1>1. s \in Nat /\ DOMAIN par.words \subseteq Nat
  BY ParagraphShape
<1> DEFINE before == {0} \cup {a \in DOMAIN par.words : a < s}
                     \cup {o \in Restarts : (par.words[s] = "word" \/ o \in par.foundAt) /\ o < s}
           last == LastBoundary(s)
           starts == {o \in last..s - 1 : Char(o) # "open"}
           ends == {o \in last..s - 1 : ~IsStripped(Char(o))}
           start == IF starts = {} THEN s ELSE Smallest(starts)
           end == IF ends = {} THEN last ELSE Largest(ends) + 1
<1>2. before \in SUBSET (0..s) /\ before # {}
  BY <1>1, ParagraphShape DEF Restarts
<1>3. last \in before /\ \A y \in before : y <= last
  BY <1>1, <1>2, LargestExists DEF LastBoundary
<1>4. last \in 0..s /\ \A b \in DOMAIN par.words : b < s => b <= last
  BY <1>2, <1>3
<1> HIDE DEF before, last
<1>5. start \in Nat /\ last <= start
  <2>1. CASE starts = {}
    BY <2>1, <1>1, <1>4
  <2>2. CASE starts # {}
    <3>1. starts \in SUBSET Nat
      BY <1>1, <1>4
    <3>2. Smallest(starts) \in starts
      BY <2>2, <3>1, SmallestExists
    <3>3. Smallest(starts) \in last..s - 1
      BY <3>2
    <3>. QED  BY <1>4, <2>2, <3>3
  <2>. QED  BY <2>1, <2>2
<1>6. ends # {} => /\ Largest(ends) \in last..s - 1 /\ ~IsStripped(Char(Largest(ends)))
                   /\ end = Largest(ends) + 1
  <2> SUFFICES ASSUME ends # {} PROVE Largest(ends) \in ends /\ end = Largest(ends) + 1
    OBVIOUS
  <2>1. ends \in SUBSET (0..s)
    BY <1>1, <1>4
  <2>. QED  BY <1>1, <2>1, LargestExists
<1>7. ends = {} => end = last
  OBVIOUS
<1> HIDE DEF start, end, ends, starts
<1>8. WordRange(s) = IF par.words[s] # "word" THEN [start |-> last, end |-> last]
                     ELSE IF start < end THEN [start |-> start, end |-> end] ELSE [start |-> end, end |-> end]
  BY DEF WordRange, start, end, starts, ends, last
<1>9. end \in Nat
  BY <1>1, <1>4, <1>6, <1>7
<1>10. start < end /\ WordRange(s).start = start /\ WordRange(s).end = end
  <2>1. CASE par.words[s] # "word"
    <3>1. WordRange(s).start = last /\ WordRange(s).end = last
      BY <1>8, <2>1
    <3>. QED  BY <1>4, <3>1
  <2>2. CASE par.words[s] = "word" /\ ~ (start < end)
    <3>1. WordRange(s).start = end /\ WordRange(s).end = end
      BY <1>8, <2>2
    <3>. QED  BY <1>9, <3>1
  <2>3. CASE par.words[s] = "word" /\ start < end
    BY <1>8, <2>3
  <2>. QED  BY <2>1, <2>2, <2>3
<1>11. ends # {}
  BY <1>4, <1>5, <1>7, <1>10
<1> DEFINE v == Largest(ends)
<1>12. v \in last..s - 1 /\ end = v + 1 /\ ~IsLineEndSpace(Char(v))
  BY <1>6, <1>11 DEF IsStripped, IsLineEndSpace
<1> HIDE DEF v
<1>13. v \in Nat /\ v < s /\ h <= v
  BY <1>1, <1>4, <1>10, <1>12
<1>14. v \in h..s - 1 /\ h < s
  BY <1>1, <1>13
<1>15. ASSUME NEW b \in DOMAIN par.words, b < s PROVE b < h
  <2>1. b <= last /\ b \in Nat
    BY <1>1, <1>4, <1>15
  <2>. QED  BY <1>4, <1>5, <1>10, <2>1
<1>. QED  BY <1>12, <1>14, <1>15

(* A hyphenation point behind the last break: what is known of its place. *)
LEMMA PointIn ==
  ASSUME Filling, pc = "hyphenate", NEW h \in HyphenResult, GetPrevLineBreakOffset < h
  PROVE  /\ h \in DOMAIN par.hyphen /\ h \in Nat /\ h < scanned /\ scanned \in DOMAIN par.words
         /\ WordRange(scanned).start < h /\ h < WordRange(scanned).end
         /\ \E o \in h..scanned - 1 : ~IsLineEndSpace(Char(o))
         /\ \A b \in DOMAIN par.words : b < scanned => b < h
         /\ ~Parted => DrawnWidth(GetPrevLineBreakOffset, h) = SumOfWidths(GetPrevLineBreakOffset, h)
<1>1. IsParagraph(par) /\ scanned \in DOMAIN par.words
  BY DEF Filling, Inv, Scanning
<1>2. h \in DOMAIN par.hyphen /\ WordRange(scanned).start < h /\ h < WordRange(scanned).end
  BY DEF HyphenResult
<1>3. h \in Nat
  BY <1>1, <1>2, ParagraphShape
<1>4. /\ h < scanned
      /\ \E o \in h..scanned - 1 : ~IsLineEndSpace(Char(o))
      /\ \A b \in DOMAIN par.words : b < scanned => b < h
  BY <1>1, <1>2, <1>3, WordHolds
<1>5. ASSUME ~Parted
      PROVE  DrawnWidth(GetPrevLineBreakOffset, h) = SumOfWidths(GetPrevLineBreakOffset, h)
  <2>1. prevWord = NoWord
    BY DEF Filling, FellBack
  <2>2. KeepsSpaces(GetPrevLineBreakOffset, scanned)
    BY <1>5, <2>1, SpacesKept
  <2>3. h \in GetPrevLineBreakOffset + 1..scanned /\ GetPrevLineBreakOffset \in Nat /\ scanned \in Nat
    BY <1>3, <1>4, FillingBounds
  <2>. QED  BY <1>4, <2>2, <2>3, DrawnBefore
<1>. QED  BY <1>1, <1>2, <1>3, <1>4, <1>5

(* The piece the loop stops with is too wide, and so is each longer one. *)
LEMMA PieceIsLongest ==
  ASSUME Filling, pc = "hyphenate", hyph.prev # NOWHERE, ~Parted,
         HyphensLeft = {} \/ PieceWidth(Smallest(HyphensLeft)) > MLineWidthLimit,
         NEW o \in Longer(hyph.prev)
  PROVE  DrawnWidth(GetPrevLineBreakOffset, o) + HyphenWidth + (IF mStartHyphenEdit THEN HyphenWidth ELSE 0)
           > MLineWidthLimit
<1> DEFINE from == GetPrevLineBreakOffset  h == hyph.prev
           wordEnd == Smallest({b \in DOMAIN par.words : b >= h})
           first == Smallest(HyphensLeft)
           startWidth == IF mStartHyphenEdit THEN HyphenWidth ELSE 0
<1>1. /\ from \in Nat /\ scanned \in Nat /\ Size \in Nat /\ scanned <= Size /\ from <= scanned
      /\ IsParagraph(par) /\ MLineWidthLimit \in Nat
  BY FillingBounds
<1>2. h \in HyphenResult /\ from < h /\ hyph.next = h + 1 /\ hyph.context = from
  BY DEF Filling, Piecing, Inv, Hyphenating
<1>3. /\ h \in Nat /\ h < scanned /\ scanned \in DOMAIN par.words
      /\ WordRange(scanned).start < h /\ \A b \in DOMAIN par.words : b < scanned => b < h
  BY <1>2, PointIn
<1>4. wordEnd = scanned
  <2> DEFINE later == {b \in DOMAIN par.words : b >= h}
  <2>1. later \in SUBSET Nat /\ scanned \in later
    BY <1>1, <1>3, ParagraphShape
  <2>2. Smallest(later) \in later /\ Smallest(later) <= scanned
    BY <2>1, SmallestExists
  <2>3. Smallest(later) \in Nat /\ Smallest(later) \in DOMAIN par.words /\ Smallest(later) >= h
    BY <2>1, <2>2
  <2>. QED  BY <1>1, <1>3, <2>2, <2>3
<1>5. o \in DOMAIN par.hyphen /\ h < o /\ o < WordRange(scanned).end
  <2> HIDE DEF wordEnd
  <2>1. o \in {p \in DOMAIN par.hyphen : h < p /\ p < WordRange(wordEnd).end /\ par.hyphen[p] = "here"}
    BY DEF Longer, wordEnd
  <2>. QED  BY <1>4, <2>1
<1>6. WordRange(scanned).start \in Nat
  BY <1>1, <1>3, WordRangeBounds
<1>7. o \in Nat /\ o \in HyphenResult
  <2>1. o \in Nat
    BY <1>1, <1>5, ParagraphShape
  <2>2. WordRange(scanned).start < o
    BY <1>3, <1>5, <1>6, <2>1
  <2>. QED  BY <1>5, <2>1, <2>2 DEF HyphenResult
<1> HIDE DEF wordEnd, h
<1>8. o \in HyphensLeft
  <2>1. hyph.next <= o
    BY <1>2, <1>3, <1>5, <1>7
  <2>. QED  BY <1>7, <2>1 DEF HyphensLeft
<1>9. HyphensLeft \in SUBSET Nat
  BY <1>1, ParagraphShape DEF HyphensLeft, HyphenResult
<1>10. first \in HyphensLeft /\ first <= o /\ first \in Nat
  BY <1>8, <1>9, SmallestExists
<1>11. PieceWidth(first) > MLineWidthLimit
  BY <1>8
<1> HIDE DEF first
<1>12. from < first /\ from < o
  BY <1>8, <1>10 DEF Filling, Piecing
<1>13. /\ DrawnWidth(from, o) = SumOfWidths(from, o)
       /\ o < scanned
  BY <1>7, <1>12, PointIn
<1>14. SumOfWidths(from, o) = SumOfWidths(from, first) + SumOfWidths(first, o)
       /\ SumOfWidths(from, first) \in Nat /\ SumOfWidths(first, o) \in Nat
  <2>1. from <= first /\ o <= Size
    BY <1>1, <1>7, <1>10, <1>12, <1>13
  <2>2. IsParagraph(par) /\ from \in Nat /\ first \in Nat /\ o \in Nat /\ first <= o
    BY <1>1, <1>7, <1>10
  <2> HIDE DEF from
  <2>. QED  BY ONLY <2>1, <2>2, SumSplit
<1>15. PieceWidth(first) = SumOfWidths(from, first) + startWidth
                           + (IF EditForThisLine(par.hyphen[first]) THEN HyphenWidth ELSE 0)
  BY <1>2 DEF PieceWidth, MeasureHyphenPiece
<1>16. HyphenWidth \in Nat /\ startWidth \in Nat
  BY ParagraphAssumption
<1> HIDE DEF startWidth
<1>17. DrawnWidth(from, o) + HyphenWidth + startWidth > MLineWidthLimit
  <2>1. CASE EditForThisLine(par.hyphen[first])
    BY <1>1, <1>11, <1>13, <1>14, <1>15, <1>16, <2>1
  <2>2. CASE ~EditForThisLine(par.hyphen[first])
    BY <1>1, <1>11, <1>13, <1>14, <1>15, <1>16, <2>2
  <2>. QED  BY <2>1, <2>2
<1>. QED  BY <1>17 DEF startWidth

(* BreakPiece, when a piece fits. *)
LEMMA PieceMoves ==
  ASSUME Filling, pc = "hyphenate", hyph.prev # NOWHERE, BreakPiece, UNCHANGED <<par, scanned>>,
         HyphensLeft = {} \/ PieceWidth(Smallest(HyphensLeft)) > MLineWidthLimit
  PROVE  Moves(hyph.prev) /\ hyph.prev < scanned
<1> DEFINE from == GetPrevLineBreakOffset  k == Len(mBreakPoints) + 1  h == hyph.prev
           type == par.hyphen[h]
           rest == MeasureHyphenPiece(h, scanned, EditForNextLine(type), FALSE)
           here == EditForThisLine(type)
           next == EditForNextLine(type)
           line == [offset |-> h, lineWidth |-> PieceWidth(h), startHyphen |-> mStartHyphenEdit, endHyphen |-> here]
           startWidth == IF mStartHyphenEdit THEN HyphenWidth ELSE 0
           endWidth == IF here THEN HyphenWidth ELSE 0
<1>1. /\ from \in Nat /\ scanned \in Nat /\ Size \in Nat /\ scanned <= Size /\ from <= scanned
      /\ IsParagraph(par) /\ MLineWidthLimit \in Nat
  BY FillingBounds
<1>2. GetAt(k - 1) = MLineWidthLimit
  BY NumberOfLines, FillingBounds
<1>3. h \in HyphenResult /\ from < h /\ hyph.context = from /\ PieceWidth(h) <= MLineWidthLimit /\ prevWord = NoWord
  BY DEF Filling, Piecing, FellBack, Inv, Hyphenating
<1>4. /\ h \in DOMAIN par.hyphen /\ h \in Nat /\ h < scanned
      /\ \E o \in h..scanned - 1 : ~IsLineEndSpace(Char(o))
      /\ ~Parted => DrawnWidth(from, h) = SumOfWidths(from, h)
  BY <1>3, PointIn
<1>5. BreakLineAt(h, PieceWidth(h), rest - (mSumOfCharWidths - mLineWidth), rest, here, next)
  BY DEF BreakPiece
<1>6. /\ PieceWidth(h) = SumOfWidths(from, h) + startWidth + endWidth
      /\ rest = SumOfWidths(h, scanned) + (IF next THEN HyphenWidth ELSE 0) + 0
  BY <1>3 DEF PieceWidth, MeasureHyphenPiece
<1>7. Plain => /\ mStartHyphenEdit = FALSE /\ mSumOfCharWidths = SumOfWidths(from, scanned)
               /\ mLineWidth = DrawnWidth(from, scanned) /\ Overfull /\ next = FALSE
  <2>1. Plain => next = FALSE
    BY <1>4 DEF Plain, StartHyphens, EditForNextLine
  <2>. QED  BY <2>1 DEF Filling, Measured
<1>8. /\ line.offset = h /\ line.lineWidth = PieceWidth(h) /\ line.startHyphen = mStartHyphenEdit
      /\ line.endHyphen = here
  OBVIOUS
<1>9. HyphenWidth \in Nat /\ startWidth \in Nat /\ endWidth \in Nat
  BY ParagraphAssumption
<1>10. /\ SumOfWidths(from, scanned) = SumOfWidths(from, h) + SumOfWidths(h, scanned)
       /\ SumOfWidths(from, h) \in Nat /\ SumOfWidths(h, scanned) \in Nat
  <2>1. from <= h /\ h <= scanned /\ scanned <= Size
    BY <1>1, <1>3, <1>4
  <2>2. IsParagraph(par) /\ from \in Nat /\ h \in Nat /\ scanned \in Nat
    BY <1>1, <1>4
  <2> HIDE DEF from, h
  <2>. QED  BY ONLY <2>1, <2>2, SumSplit
<1>11. DrawnWidth(from, scanned) - SumOfWidths(from, h) = DrawnWidth(h, scanned) /\ DrawnWidth(from, scanned) \in Nat
  <2>1. DrawnWidth(from, scanned) - SumOfWidths(from, h) = DrawnWidth(h, scanned)
    BY <1>1, <1>3, <1>4, DrawnRest
  <2>. QED  BY <1>1, <2>1, DrawnIsNat
<1>12. HasMostWords(k, from, line)
  BY <1>3, <1>7, NoneFits DEF HasMostWords
<1>13. IsLongestPiece(k, from, line)
  <2>1. ~Parted => \A o \in Longer(h) : DrawnWidth(from, o) + HyphenWidth + startWidth > MLineWidthLimit
    BY PieceIsLongest
  <2>2. here => type = "here"
    BY DEF EditForThisLine
  <2> HIDE DEF line
  <2>. QED  BY <1>2, <1>3, <1>4, <1>8, <2>1, <2>2 DEF IsLongestPiece
<1>14. HasCharacter(from, line)
  BY <1>3, <1>8 DEF HasCharacter
<1>15. WidthIsDrawn(from, line)
  <2> HIDE DEF line, h, here
  <2> SUFFICES ASSUME Plain, ~Parted PROVE line.lineWidth = DrawnWidth(from, h) + (startWidth + endWidth)
    BY <1>8 DEF WidthIsDrawn
  <2>1. line.lineWidth = SumOfWidths(from, h) + startWidth + endWidth /\ DrawnWidth(from, h) = SumOfWidths(from, h)
    BY <1>4, <1>6, <1>8
  <2> HIDE DEF startWidth, endWidth
  <2>. QED  BY <1>9, <1>10, <2>1
<1>16. IsOneCluster(k, from, line)
  <2> HIDE DEF line, h, startWidth, endWidth
  <2> SUFFICES ASSUME line.lineWidth > GetAt(k - 1) PROVE FALSE
    BY DEF IsOneCluster
  <2>1. line.lineWidth \in Nat
    BY <1>6, <1>8, <1>9, <1>10
  <2>. QED  BY <1>1, <1>2, <1>3, <1>8, <2>1
<1>17. GoodLine(k, from, line)
  BY <1>12, <1>13, <1>14, <1>15, <1>16 DEF GoodLine
<1>18. Plain => /\ next = FALSE /\ rest = SumOfWidths(h, scanned)
                /\ rest - (mSumOfCharWidths - mLineWidth) = DrawnWidth(h, scanned)
  <2> SUFFICES ASSUME Plain PROVE /\ next = FALSE /\ rest = SumOfWidths(h, scanned)
                                  /\ rest - (mSumOfCharWidths - mLineWidth) = DrawnWidth(h, scanned)
    OBVIOUS
  <2>1. next = FALSE /\ rest = SumOfWidths(h, scanned)
    <3> HIDE DEF rest
    <3>. QED  BY <1>6, <1>7, <1>10
  <2> HIDE DEF rest, h, next
  <2>. QED  BY <1>7, <1>10, <1>11, <2>1
<1>19. h \in from..scanned
  BY <1>1, <1>3, <1>4
<1>20. GoodLine(k, from, [offset |-> h, lineWidth |-> PieceWidth(h), startHyphen |-> mStartHyphenEdit,
                          endHyphen |-> here])
  BY <1>17
<1> HIDE DEF h, rest, here, next, line
<1>21. Moves(h)
  BY <1>5, <1>18, <1>19, <1>20, LineMoves
<1>. QED  BY <1>4, <1>21 DEF h

-----------------------------------------------------------------------------
(* Every step keeps the invariant. *)
LEMMA AnchorIs ==
  ASSUME Filling
  PROVE  Anchor \in Nat /\ GetPrevLineBreakOffset <= Anchor /\ Anchor <= scanned
<1>1. prevWord # NoWord => prevWord.offset \in GetPrevLineBreakOffset..scanned
  BY DEF Filling, Inv, Remembered
<1>. QED  BY <1>1, FillingBounds DEF Anchor

(* At the start. *)
LEMMA InitFilling == Init => Filling
<1> SUFFICES ASSUME Init PROVE Filling
  OBVIOUS
<1>1. Inv /\ IsParagraph(par)
  BY InitInv DEF Inv
<1>2. /\ mBreakPoints = << >> /\ scanned = 0 /\ GetPrevLineBreakOffset = 0 /\ pc = "scan" /\ prevWord = NoWord
      /\ mLineWidth = 0 /\ mSumOfCharWidths = 0 /\ mStartHyphenEdit = FALSE
  BY DEF Init, GetPrevLineBreakOffset
<1>3. GoodLines
  BY <1>2 DEF GoodLines
<1>4. Placed
  <2>1. \A b : Ends(b) => b \in 1..Size
    BY <1>1, ParagraphShape DEF Ends
  <2>2. Size \in Nat
    BY <1>1, ParagraphShape
  <2>. QED  BY <1>2, <2>1, <2>2 DEF Placed
<1>5. FellBack /\ Piecing
  BY <1>2 DEF FellBack, Piecing
<1>6. Measured
  <2>1. SumOfWidths(0, 0) = 0 /\ DrawnWidth(0, 0) = 0
    BY SumStep, DrawnStep
  <2>. QED  BY <1>2, <2>1 DEF Measured
<1>. QED  BY <1>1, <1>3, <1>4, <1>5, <1>6 DEF Filling

(* A step that breaks. *)
LEMMA MovesFilling ==
  ASSUME Filling, Inv', NEW offset, Moves(offset), Anchor <= offset,
         pc' \in {"fit", "hyphenate"} => pc \in {"fit", "hyphenate"},
         pc' = "scan" => offset = scanned,
         pc' = "fit" /\ Roomy => offset < scanned,
         pc' = "hyphenate" => /\ MEnableHyphenation /\ hyph'.prev = NOWHERE /\ hyph'.next = offset + 1
                              /\ ~ (mLineWidth' <= MLineWidthLimit')
  PROVE  Filling'
<1>1. /\ offset \in GetPrevLineBreakOffset..scanned /\ GetPrevLineBreakOffset' = offset
      /\ prevWord' = NoWord /\ par' = par /\ scanned' = scanned
      /\ GoodLines' /\ Len(mBreakPoints') = Len(mBreakPoints) + 1
  BY DEF Moves
<1>2. /\ GetPrevLineBreakOffset \in Nat /\ scanned \in Nat /\ scanned <= Size /\ IsParagraph(par) /\ Size \in Nat
      /\ Inv
  BY FillingBounds
<1>3. offset \in Nat /\ offset <= scanned
  BY <1>1, <1>2
<1>4. Placed'
  <2>1. pc' \in {"fit", "hyphenate"} => MayEndLine(scanned)'
    BY <1>1, SamePlaces DEF Filling, Placed
  <2>2. ASSUME NEW b, Ends(b)', Anchor' < b PROVE b >= scanned' /\ (pc' = "scan" => b > scanned')
    <3>1. Ends(b)
      BY <1>1, <2>2, SamePlaces
    <3>2. b \in Nat
      BY <1>2, <3>1, ParagraphShape DEF Ends
    <3>3. Anchor' = offset
      BY <1>1 DEF Anchor
    <3>4. Anchor < b
      BY <1>3, <2>2, <3>2, <3>3, AnchorIs
    <3>5. b >= scanned
      BY <3>1, <3>4 DEF Filling, Placed
    <3>. QED  BY <1>1, <1>3, <2>2, <3>3, <3>5
  <2>3. pc' = "fit" /\ Roomy' => GetPrevLineBreakOffset' < scanned'
    BY <1>1, SamePlaces
  <2>. QED  BY <2>1, <2>2, <2>3 DEF Placed
<1>5. FellBack'
  BY <1>1 DEF FellBack
<1>6. Piecing'
  <2> SUFFICES ASSUME pc' = "hyphenate" PROVE Piecing'
    BY DEF Piecing
  <2>1. MEnableHyphenation'
    BY <1>1, SamePlaces
  <2>2. ASSUME NEW o \in HyphensLeft' PROVE offset < o
    <3>1. o \in DOMAIN par.hyphen /\ offset + 1 <= o
      BY <1>1 DEF HyphensLeft, HyphenResult
    <3>2. o \in Nat
      BY <1>2, <3>1, ParagraphShape
    <3>. QED  BY <1>3, <3>1, <3>2
  <2>. QED  BY <1>1, <2>1, <2>2 DEF Piecing
<1>7. ASSUME Plain' PROVE Measured'
  <2>1. Plain
    BY <1>1, <1>7, SamePlaces
  <2>2. /\ mStartHyphenEdit' = FALSE /\ mSumOfCharWidths' = SumOfWidths(offset, scanned)
        /\ mLineWidth' = DrawnWidth(offset, scanned)
    BY <2>1 DEF Moves
  <2>3. /\ SumOfWidths(offset, scanned)' = SumOfWidths(offset, scanned)
        /\ DrawnWidth(offset, scanned)' = DrawnWidth(offset, scanned)
    BY <1>1, SameWidths
  <2>4. pc' = "hyphenate" => Overfull'
    <3>1. Len(mBreakPoints) + 1 \in Nat
      BY <1>2, NumberOfLines
    <3>2. MLineWidthLimit' = GetAt(Len(mBreakPoints) + 1)
      BY <1>1, SameWidths DEF MLineWidthLimit
    <3>3. MLineWidthLimit' \in Nat
      BY <1>2, <3>1, <3>2, LimitIsNat
    <3>4. mLineWidth' \in Nat
      BY <1>2, <1>3, <2>2, DrawnIsNat
    <3>. QED  BY <3>3, <3>4 DEF Overfull
  <2>. QED  BY <1>1, <2>2, <2>3, <2>4 DEF Measured
<1>. QED  BY <1>1, <1>4, <1>5, <1>6, <1>7 DEF Filling

(* MayEndLine in other words. *)
LEMMA MayEnd ==
  ASSUME NEW b
  PROVE  MayEndLine(b) <=> (par.runs[RunAt(b - 1)].canBreak \/ b = par.runs[RunAt(b - 1)].end)
BY DEF MayEndLine

(* Scan: one character, and maybe a boundary, is passed. *)
LEMMA ScanFilling == Filling /\ Scan => Filling'
<1> SUFFICES ASSUME Filling, Scan PROVE Filling'
  OBVIOUS
<1> DEFINE run == par.runs[RunAt(scanned)]  from == GetPrevLineBreakOffset
<1>1. /\ pc = "scan" /\ scanned < Size /\ scanned' = scanned + 1
      /\ par' = par /\ mBreakPoints' = mBreakPoints /\ mStartHyphenEdit' = mStartHyphenEdit
      /\ prevWord' = prevWord /\ hyph' = hyph
      /\ UpdateLineWidth(Char(scanned), Width(scanned))
  BY DEF Scan
<1>2. pc' = IF scanned' \in DOMAIN par.words /\ (run.canBreak \/ scanned' = run.end) THEN "fit" ELSE "scan"
  BY DEF Scan
<1>3. /\ from \in Nat /\ scanned \in Nat /\ scanned <= Size /\ from <= scanned /\ IsParagraph(par) /\ Size \in Nat
      /\ MLineWidthLimit \in Nat
  BY FillingBounds
<1>4. Inv'
  BY ScanInv DEF Filling
<1>5. GoodLines' /\ from' = from /\ MLineWidthLimit' = MLineWidthLimit
  BY <1>1, SameLines DEF Filling
<1>6. Anchor' = Anchor
  BY <1>1, <1>5 DEF Anchor
<1> HIDE DEF run
<1>7. scanned' \in DOMAIN par.words /\ MayEndLine(scanned') <=> pc' = "fit"
  <2>0. PICK b : b = scanned + 1
    OBVIOUS
  <2>1. MayEndLine(b) <=> (run.canBreak \/ b = run.end)
    <3>1. b - 1 = scanned
      BY <1>3, <2>0
    <3>2. par.runs[RunAt(b - 1)] = run
      BY <3>1 DEF run
    <3>3. MayEndLine(b) <=> (par.runs[RunAt(b - 1)].canBreak \/ b = par.runs[RunAt(b - 1)].end)
      BY MayEnd
    <3>. QED  BY <3>2, <3>3, Zenon
  <2>. QED  BY <1>1, <1>2, <2>0, <2>1
<1>8. Placed'
  <2>1. pc' \in {"fit", "hyphenate"} => MayEndLine(scanned)'
    <3> SUFFICES ASSUME pc' = "fit" PROVE MayEndLine(scanned)'
      BY <1>2
    <3>1. \A b : MayEndLine(b)' <=> MayEndLine(b)
      BY <1>1, SamePlaces
    <3>. QED  BY <1>7, <3>1
  <2>2. ASSUME NEW b, Ends(b)', Anchor' < b PROVE b >= scanned' /\ (pc' = "scan" => b > scanned')
    <3>1. Ends(b)
      BY <1>1, <2>2, SamePlaces
    <3>2. b \in Nat
      BY <1>3, <3>1, ParagraphShape DEF Ends
    <3>3. b > scanned
      BY <1>1, <1>6, <2>2, <3>1 DEF Filling, Placed
    <3>4. b # scanned' \/ pc' = "fit"
      BY <1>7, <3>1 DEF Ends
    <3>5. pc' = "scan" => b # scanned'
      BY <3>4
    <3>. QED  BY <1>1, <1>3, <3>2, <3>3, <3>5
  <2>3. GetPrevLineBreakOffset' < scanned'
    BY <1>1, <1>3, <1>5
  <2>. QED  BY <2>1, <2>2, <2>3 DEF Placed
<1>9. FellBack'
  <2> SUFFICES ASSUME prevWord # NoWord PROVE FellBack'
    BY <1>1 DEF FellBack
  <2>1. /\ prevWord.offset \in DOMAIN par.words /\ MayEndLine(prevWord.offset)
        /\ prevWord.isInEmailOrUrl = IsInEmailOrUrl(prevWord.offset)
        /\ Roomy => GetPrevLineBreakOffset < prevWord.offset
        /\ prevWord.offset \in from..scanned
    BY DEF Filling, FellBack, Inv, Remembered
  <2>2. prevWord.offset < scanned'
    BY <1>1, <1>3, <2>1
  <2>3. pc' # "hyphenate"
    BY <1>2
  <2>4. /\ MayEndLine(prevWord.offset)' /\ IsInEmailOrUrl(prevWord.offset)' = IsInEmailOrUrl(prevWord.offset)
        /\ (Roomy' <=> Roomy)
    BY <1>1, <2>1, SamePlaces DEF IsInEmailOrUrl
  <2>. QED  BY <1>1, <1>5, <2>1, <2>2, <2>3, <2>4 DEF FellBack
<1>10. Piecing'
  BY <1>2 DEF Piecing
<1>11. ASSUME Plain' PROVE Measured'
  <2>1. Plain /\ Measured
    BY <1>1, <1>11, SamePlaces DEF Filling
  <2>2. Char(scanned) # "tab"
    BY <1>1, <1>3, <2>1 DEF Plain, HasTabs
  <2>3. /\ mSumOfCharWidths' = mSumOfCharWidths + Width(scanned)
        /\ mLineWidth' = IF IsLineEndSpace(Char(scanned)) THEN mLineWidth ELSE mSumOfCharWidths + Width(scanned)
    BY <1>1, <2>2 DEF UpdateLineWidth
  <2>4. /\ SumOfWidths(from, scanned + 1) = SumOfWidths(from, scanned) + Width(scanned)
        /\ DrawnWidth(from, scanned + 1) = IF IsLineEndSpace(Char(scanned)) THEN DrawnWidth(from, scanned)
                                           ELSE SumOfWidths(from, scanned + 1)
    <3> HIDE DEF from
    <3>. QED  BY <1>3, SumStep, DrawnStep
  <2>5. mSumOfCharWidths' = SumOfWidths(from, scanned + 1) /\ mLineWidth' = DrawnWidth(from, scanned + 1)
    BY <2>1, <2>3, <2>4 DEF Measured
  <2>6. /\ \A a, b : SumOfWidths(a, b)' = SumOfWidths(a, b) /\ DrawnWidth(a, b)' = DrawnWidth(a, b)
    BY <1>1, SameWidths
  <2>7. mSumOfCharWidths' = SumOfWidths(GetPrevLineBreakOffset, scanned)'
    BY <1>1, <1>5, <2>5, <2>6
  <2>8. mLineWidth' = DrawnWidth(GetPrevLineBreakOffset, scanned)'
    BY <1>1, <1>5, <2>5, <2>6
  <2>9. mStartHyphenEdit' = FALSE /\ pc' # "hyphenate"
    BY <1>1, <1>2, <2>1 DEF Measured
  <2>10. prevWord' # NoWord =>
           /\ prevWord'.sum = SumOfWidths(GetPrevLineBreakOffset, prevWord.offset)'
           /\ prevWord'.lineWidth = DrawnWidth(GetPrevLineBreakOffset, prevWord.offset)'
           /\ prevWord'.lineWidth <= MLineWidthLimit'
    <3>1. prevWord # NoWord =>
           /\ prevWord.sum = SumOfWidths(from, prevWord.offset)
           /\ prevWord.lineWidth = DrawnWidth(from, prevWord.offset)
           /\ prevWord.lineWidth <= MLineWidthLimit
      BY <2>1 DEF Measured
    <3>. QED  BY <1>1, <1>5, <2>6, <3>1
  <2>. QED  BY <2>7, <2>8, <2>9, <2>10 DEF Measured
<1>. QED  BY <1>4, <1>5, <1>8, <1>9, <1>10, <1>11 DEF Filling

(* What a step that breaks nothing and keeps the place keeps. *)
LEMMA StillFilling ==
  ASSUME Filling, UNCHANGED <<par, mBreakPoints, mLineWidth, mSumOfCharWidths, mStartHyphenEdit, scanned>>
  PROVE  /\ GoodLines' /\ GetPrevLineBreakOffset' = GetPrevLineBreakOffset /\ MLineWidthLimit' = MLineWidthLimit
         /\ \A b : (Ends(b)' <=> Ends(b)) /\ (MayEndLine(b)' <=> MayEndLine(b))
                   /\ (IsInEmailOrUrl(b)' <=> IsInEmailOrUrl(b)) /\ WordRange(b)' = WordRange(b)
         /\ (Plain' <=> Plain) /\ (Roomy' <=> Roomy) /\ (MEnableHyphenation' <=> MEnableHyphenation)
         /\ \A a, b : SumOfWidths(a, b)' = SumOfWidths(a, b) /\ DrawnWidth(a, b)' = DrawnWidth(a, b)
         /\ HyphenResult' = HyphenResult
         /\ Overfull' <=> Overfull
<1>1. GoodLines' /\ GetPrevLineBreakOffset' = GetPrevLineBreakOffset /\ MLineWidthLimit' = MLineWidthLimit
  BY SameLines DEF Filling
<1>2. HyphenResult' = HyphenResult
  <2>1. WordRange(scanned)' = WordRange(scanned)
    BY SamePlaces
  <2>. QED  BY <2>1 DEF HyphenResult
<1>3. Overfull' <=> Overfull
  BY <1>1 DEF Overfull
<1>. QED  BY <1>1, <1>2, <1>3, SamePlaces, SameWidths

(* A step that leaves all that is measured. *)
LEMMA MeasuredStill ==
  ASSUME Filling, UNCHANGED <<par, mBreakPoints, mLineWidth, mSumOfCharWidths, mStartHyphenEdit, scanned, prevWord>>,
         Plain', pc' = "hyphenate" => Overfull
  PROVE  Measured'
<1>1. Measured
  BY StillFilling DEF Filling
<1>2. prevWord # NoWord =>
        /\ prevWord.sum = SumOfWidths(GetPrevLineBreakOffset, prevWord.offset)
        /\ prevWord.lineWidth = DrawnWidth(GetPrevLineBreakOffset, prevWord.offset)
        /\ prevWord.lineWidth <= MLineWidthLimit
  BY <1>1 DEF Measured
<1>3. /\ mStartHyphenEdit = FALSE /\ mSumOfCharWidths = SumOfWidths(GetPrevLineBreakOffset, scanned)
      /\ mLineWidth = DrawnWidth(GetPrevLineBreakOffset, scanned)
  BY <1>1 DEF Measured
<1>4. /\ GetPrevLineBreakOffset' = GetPrevLineBreakOffset /\ MLineWidthLimit' = MLineWidthLimit
      /\ \A a, b : SumOfWidths(a, b)' = SumOfWidths(a, b) /\ DrawnWidth(a, b)' = DrawnWidth(a, b)
      /\ Overfull' <=> Overfull
  BY StillFilling
<1>5. /\ mSumOfCharWidths' = SumOfWidths(GetPrevLineBreakOffset, scanned)'
      /\ mLineWidth' = DrawnWidth(GetPrevLineBreakOffset, scanned)'
  BY <1>3, <1>4
<1>6. prevWord' # NoWord =>
        /\ prevWord'.sum = SumOfWidths(GetPrevLineBreakOffset, prevWord.offset)'
        /\ prevWord'.lineWidth = DrawnWidth(GetPrevLineBreakOffset, prevWord.offset)'
        /\ prevWord'.lineWidth <= MLineWidthLimit'
  BY <1>2, <1>4
<1>. QED  BY <1>3, <1>4, <1>5, <1>6 DEF Measured

(* Its guard says that there is no word to fall back to. *)
LEMMA StartHyphenatingFilling == Filling /\ StartHyphenating => Filling'
<1> SUFFICES ASSUME Filling, StartHyphenating PROVE Filling'
  OBVIOUS
<1> DEFINE start == WordRange(scanned).start  from == GetPrevLineBreakOffset
<1>1. /\ pc = "fit" /\ pc' = "hyphenate" /\ Overfull /\ prevWord = NoWord /\ from <= start /\ MEnableHyphenation
      /\ hyph' = [context |-> from, next |-> start, prev |-> NOWHERE]
      /\ UNCHANGED <<par, mBreakPoints, mLineWidth, mSumOfCharWidths, mStartHyphenEdit, prevWord, scanned>>
  BY DEF StartHyphenating, MayHyphenate
<1>2. /\ from \in Nat /\ scanned \in Nat /\ IsParagraph(par) /\ Size \in Nat
  BY FillingBounds
<1>3. Inv'
  BY StartHyphenatingInv DEF Filling
<1>4. scanned \in DOMAIN par.words
  BY <1>1 DEF Filling, Inv, Scanning
<1>5. Placed'
  <2>1. Anchor' = Anchor
    BY <1>1, StillFilling DEF Anchor
  <2>2. /\ MayEndLine(scanned) /\ \A b : Ends(b) /\ Anchor < b => b >= scanned
    BY <1>1 DEF Filling, Placed
  <2>. QED  BY <1>1, <2>1, <2>2, StillFilling DEF Placed
<1>6. FellBack'
  BY <1>1 DEF FellBack
<1>7. Piecing'
  <2>1. ASSUME NEW o \in HyphensLeft' PROVE from < o
    <3>1. o \in HyphenResult
      BY <1>1, StillFilling DEF HyphensLeft
    <3>2. o \in DOMAIN par.hyphen /\ start < o
      BY <3>1 DEF HyphenResult
    <3>3. o \in Nat /\ start \in Nat
      BY <1>2, <1>4, <3>2, ParagraphShape, WordRangeBounds
    <3> HIDE DEF start
    <3>. QED  BY <1>1, <1>2, <3>2, <3>3
  <2>2. hyph'.prev = NOWHERE
    BY <1>1
  <2>3. MEnableHyphenation' /\ from' = from
    BY <1>1, StillFilling
  <2>. QED  BY <2>1, <2>2, <2>3 DEF Piecing
<1>8. Plain' => Measured'
  BY <1>1, MeasuredStill
<1>9. GoodLines'
  BY <1>1, StillFilling
<1>. QED  BY <1>3, <1>5, <1>6, <1>7, <1>8, <1>9 DEF Filling

(* The piece kept fits by the guard. *)
LEMMA KeepPieceFilling == Filling /\ KeepPiece => Filling'
<1> SUFFICES ASSUME Filling, KeepPiece PROVE Filling'
  OBVIOUS
<1> DEFINE from == GetPrevLineBreakOffset
<1>0. PICK point : point = Smallest(HyphensLeft)
  OBVIOUS
<1>1. /\ pc = "hyphenate" /\ HyphensLeft # {} /\ PieceWidth(point) <= MLineWidthLimit
      /\ hyph' = [hyph EXCEPT !.prev = point, !.next = point + 1]
      /\ UNCHANGED <<par, mBreakPoints, mLineWidth, mSumOfCharWidths, mStartHyphenEdit, prevWord, scanned, pc>>
  BY <1>0 DEF KeepPiece
<1>2. /\ from \in Nat /\ scanned \in Nat /\ IsParagraph(par) /\ Size \in Nat
  BY FillingBounds
<1>3. Inv'
  BY KeepPieceInv DEF Filling
<1>4. \A o \in HyphensLeft : o \in Nat /\ from < o /\ o \in HyphenResult
  <2>1. \A o \in HyphensLeft : from < o /\ o \in HyphenResult
    BY <1>1 DEF Filling, Piecing, HyphensLeft
  <2>2. \A o \in HyphensLeft : o \in Nat
    BY <1>2, ParagraphShape DEF HyphensLeft, HyphenResult
  <2>. QED  BY <2>1, <2>2
<1>5. point \in HyphensLeft
  <2>1. HyphensLeft \in SUBSET Nat
    BY <1>4
  <2>. QED  BY <1>0, <1>1, <2>1, SmallestExists
<1>6. point \in Nat /\ from < point /\ point \in HyphenResult
  BY <1>4, <1>5
<1>7. hyph'.prev = point /\ hyph'.next = point + 1 /\ hyph'.context = hyph.context
  <2>1. hyph \in HyphState
    BY DEF Filling, Inv, Hyphenating
  <2>. QED  BY <1>1, <2>1 DEF HyphState
<1>8. Placed' /\ FellBack'
  <2>1. Anchor' = Anchor
    BY <1>1, StillFilling DEF Anchor
  <2>2. prevWord = NoWord
    BY <1>1 DEF Filling, FellBack
  <2>3. /\ MayEndLine(scanned) /\ \A b : Ends(b) /\ Anchor < b => b >= scanned
    BY <1>1 DEF Filling, Placed
  <2>4. Placed'
    BY <1>1, <2>1, <2>3, StillFilling DEF Placed
  <2>. QED  BY <1>1, <2>2, <2>4 DEF FellBack
<1>9. Piecing'
  <2>1. ASSUME NEW o \in HyphensLeft' PROVE from < o
    <3>1. o \in HyphenResult /\ point + 1 <= o
      BY <1>1, <1>7, StillFilling DEF HyphensLeft
    <3>2. o \in Nat
      BY <1>2, <3>1, ParagraphShape DEF HyphenResult
    <3>. QED  BY <1>2, <1>6, <3>1, <3>2
  <2>2. PieceWidth(point)' = PieceWidth(point)
    <3>1. SumOfWidths(hyph.context, point)' = SumOfWidths(hyph.context, point)
      BY <1>1, <1>7, StillFilling
    <3>. QED  BY <1>1, <1>7, <3>1 DEF PieceWidth, MeasureHyphenPiece
  <2>3. MEnableHyphenation' /\ from' = from /\ MLineWidthLimit' = MLineWidthLimit /\ HyphenResult' = HyphenResult
    BY <1>1, StillFilling DEF Filling, Piecing
  <2>4. PieceWidth(hyph.prev)' <= MLineWidthLimit'
    BY <1>1, <1>7, <2>2, <2>3
  <2>. QED  BY <1>6, <1>7, <2>1, <2>3, <2>4 DEF Piecing
<1>10. Plain' => Measured'
  <2>1. Plain' => Plain
    BY <1>1, StillFilling
  <2>2. Plain => Overfull
    BY <1>1 DEF Filling, Measured
  <2>. QED  BY <1>1, <2>1, <2>2, MeasuredStill
<1>11. GoodLines'
  BY <1>1, StillFilling
<1>. QED  BY <1>3, <1>8, <1>9, <1>10, <1>11 DEF Filling

LEMMA BreakAtWordFilling == Filling /\ BreakAtWord => Filling'
<1> SUFFICES ASSUME Filling, BreakAtWord PROVE Filling'
  OBVIOUS
<1>1. pc = "fit" /\ pc' = "fit"
  BY DEF BreakAtWord
<1>2. Inv'
  BY BreakAtWordInv DEF Filling
<1>3. Moves(prevWord.offset) /\ Anchor <= prevWord.offset /\ prevWord.offset < scanned
  BY WordMoves
<1>. QED  BY <1>1, <1>2, <1>3, MovesFilling

(* BreakPiece breaks at the last piece that fits or between clusters. *)
LEMMA PieceStep ==
  ASSUME Filling, pc = "hyphenate", BreakPiece, UNCHANGED <<par, scanned>>,
         HyphensLeft = {} \/ PieceWidth(Smallest(HyphensLeft)) > MLineWidthLimit
  PROVE  \E offset : Moves(offset) /\ (Roomy => offset < scanned)
<1>1. CASE hyph.prev # NOWHERE
  BY <1>1, PieceMoves
<1>2. CASE hyph.prev = NOWHERE
  <2>1. DoLineBreakWithGraphemeBounds(GetPrevLineBreakOffset, scanned)
    BY <1>2 DEF BreakPiece, Filling, Inv, Hyphenating
  <2>2. prevWord = NoWord /\ (Plain => Overfull)
    BY DEF Filling, FellBack, Measured
  <2>3. CASE CutIn(GetPrevLineBreakOffset, scanned) # {}
    BY <2>1, <2>2, <2>3, CutMoves
  <2>4. CASE CutIn(GetPrevLineBreakOffset, scanned) = {}
    <3>1. ~Roomy
      <4> SUFFICES ASSUME Roomy PROVE FALSE
        OBVIOUS
      <4>1. Plain /\ \A o \in 0..Size - 1, l \in Nat : Width(o) <= GetAt(l)
        BY DEF Roomy, Filling, Piecing
      <4>. QED  BY <2>2, <2>4, <4>1, RoomyCuts
    <3>. QED  BY <2>1, <2>2, <2>4, <3>1, WholeMoves
  <2>. QED  BY <2>3, <2>4
<1>. QED  BY <1>1, <1>2

LEMMA BreakInWordFilling == Filling /\ BreakInWord => Filling'
<1> SUFFICES ASSUME Filling, BreakInWord PROVE Filling'
  OBVIOUS
<1>1. /\ pc = "hyphenate" /\ BreakPiece /\ UNCHANGED <<par, scanned>>
      /\ PieceWidth(Smallest(HyphensLeft)) > MLineWidthLimit
      /\ \/ pc' = "fit" /\ hyph' = NoHyph
         \/ /\ ~ (mLineWidth' <= MLineWidthLimit')
            /\ hyph' = [context |-> GetPrevLineBreakOffset', next |-> GetPrevLineBreakOffset' + 1,
                        prev |-> NOWHERE]
            /\ pc' = pc
  BY DEF BreakInWord
<1>2. Inv'
  BY BreakInWordInv DEF Filling
<1>3. PICK offset : Moves(offset) /\ (Roomy => offset < scanned)
  BY <1>1, PieceStep
<1>4. Anchor <= offset
  <2>1. prevWord = NoWord
    BY <1>1 DEF Filling, FellBack
  <2>2. Anchor = GetPrevLineBreakOffset
    BY <2>1 DEF Anchor
  <2>. QED  BY <1>3, <2>2, FillingBounds DEF Moves
<1>5. MEnableHyphenation
  BY <1>1 DEF Filling, Piecing
<1>6. GetPrevLineBreakOffset' = offset
  BY <1>3 DEF Moves
<1>7. CASE pc' = "fit" /\ hyph' = NoHyph
  BY <1>1, <1>2, <1>3, <1>4, <1>7, MovesFilling
<1>8. CASE /\ ~ (mLineWidth' <= MLineWidthLimit') /\ pc' = pc
           /\ hyph' = [context |-> GetPrevLineBreakOffset', next |-> GetPrevLineBreakOffset' + 1, prev |-> NOWHERE]
  <2>1. hyph'.prev = NOWHERE /\ hyph'.next = offset + 1
    BY <1>6, <1>8
  <2>. QED  BY <1>1, <1>2, <1>3, <1>4, <1>5, <1>8, <2>1, MovesFilling
<1>. QED  BY <1>1, <1>7, <1>8

LEMMA BreakLastPieceFilling == Filling /\ BreakLastPiece => Filling'
<1> SUFFICES ASSUME Filling, BreakLastPiece PROVE Filling'
  OBVIOUS
<1>1. /\ pc = "hyphenate" /\ BreakPiece /\ UNCHANGED <<par, scanned>> /\ HyphensLeft = {} /\ pc' = "fit"
  BY DEF BreakLastPiece
<1>2. Inv'
  BY BreakLastPieceInv DEF Filling
<1>3. PICK offset : Moves(offset) /\ (Roomy => offset < scanned)
  BY <1>1, PieceStep
<1>4. Anchor <= offset
  <2>1. prevWord = NoWord
    BY <1>1 DEF Filling, FellBack
  <2>2. Anchor = GetPrevLineBreakOffset
    BY <2>1 DEF Anchor
  <2>. QED  BY <1>3, <2>2, FillingBounds DEF Moves
<1>. QED  BY <1>1, <1>2, <1>3, <1>4, MovesFilling

LEMMA BreakAtGraphemeFilling == Filling /\ BreakAtGrapheme => Filling'
<1> SUFFICES ASSUME Filling, BreakAtGrapheme PROVE Filling'
  OBVIOUS
<1> DEFINE from == GetPrevLineBreakOffset
<1>1. /\ pc = "fit" /\ Overfull /\ prevWord = NoWord /\ UNCHANGED <<par, scanned, hyph>>
      /\ DoLineBreakWithGraphemeBounds(from, scanned)
      /\ pc' = IF CutIn(from, scanned) = {} THEN "scan" ELSE "fit"
  BY DEF BreakAtGrapheme
<1>2. Inv'
  BY BreakAtGraphemeInv DEF Filling
<1>3. Anchor = from /\ from \in Nat /\ scanned \in Nat /\ from <= scanned
  BY <1>1, FillingBounds DEF Anchor
<1>4. CASE CutIn(from, scanned) # {}
  <2>1. PICK offset : Moves(offset) /\ offset < scanned
    BY <1>1, <1>4, CutMoves
  <2>2. Anchor <= offset
    BY <1>3, <2>1 DEF Moves
  <2>. QED  BY <1>1, <1>2, <1>4, <2>1, <2>2, MovesFilling
<1>5. CASE CutIn(from, scanned) = {}
  <2>1. Roomy => from < scanned
    BY <1>1 DEF Filling, Placed
  <2>2. Moves(scanned)
    BY <1>1, <1>5, <2>1, WholeMoves
  <2>3. pc' = "scan"
    BY <1>1, <1>5
  <2>. QED  BY <1>1, <1>2, <1>3, <2>2, <2>3, MovesFilling
<1>. QED  BY <1>4, <1>5

(* What reads outside changes nothing else. *)
LEMMA ReadOutsideFilling == Filling /\ ReadOutside => Filling'
<1> SUFFICES ASSUME Filling, ReadOutside PROVE Filling'
  OBVIOUS
<1>1. /\ pc = "hyphenate" /\ pc' = "undefined"
      /\ UNCHANGED <<par, mBreakPoints, mLineWidth, mSumOfCharWidths, mStartHyphenEdit, prevWord, scanned, hyph>>
  BY DEF ReadOutside
<1>2. Inv'
  BY ReadOutsideInv DEF Filling
<1>3. Placed' /\ FellBack'
  <2>1. Anchor' = Anchor
    BY <1>1, StillFilling DEF Anchor
  <2>2. prevWord = NoWord
    BY <1>1 DEF Filling, FellBack
  <2>3. \A b : Ends(b) /\ Anchor < b => b >= scanned
    BY <1>1 DEF Filling, Placed
  <2>4. Placed'
    BY <1>1, <2>1, <2>3, StillFilling DEF Placed
  <2>. QED  BY <1>1, <2>2, <2>4 DEF FellBack
<1>4. Piecing'
  BY <1>1 DEF Piecing
<1>5. Plain' => Measured'
  BY <1>1, MeasuredStill
<1>6. GoodLines'
  BY <1>1, StillFilling
<1>. QED  BY <1>2, <1>3, <1>4, <1>5, <1>6 DEF Filling

(* The word remembered is the boundary passed, unless that is in an address and the other is not. *)
LEMMA RememberWordFilling == Filling /\ RememberWord => Filling'
<1> SUFFICES ASSUME Filling, RememberWord PROVE Filling'
  OBVIOUS
<1> DEFINE from == GetPrevLineBreakOffset
           here == [offset |-> scanned, lineWidth |-> mLineWidth, sum |-> mSumOfCharWidths,
                    isInEmailOrUrl |-> IsInEmailOrUrl(scanned)]
<1>1. /\ pc = "fit" /\ pc' = "scan" /\ ~Overfull
      /\ UNCHANGED <<par, mBreakPoints, mLineWidth, mSumOfCharWidths, mStartHyphenEdit, scanned, hyph>>
      /\ prevWord' = IF prevWord = NoWord \/ prevWord.isInEmailOrUrl \/ ~IsInEmailOrUrl(scanned)
                     THEN here ELSE prevWord
  BY DEF RememberWord
<1>2. /\ from \in Nat /\ scanned \in Nat /\ scanned <= Size /\ from <= scanned /\ IsParagraph(par) /\ Size \in Nat
      /\ MLineWidthLimit \in Nat
  BY FillingBounds
<1>3. Inv'
  BY RememberWordInv DEF Filling
<1>4. /\ here.offset = scanned /\ here.lineWidth = mLineWidth /\ here.sum = mSumOfCharWidths
      /\ here.isInEmailOrUrl = IsInEmailOrUrl(scanned) /\ here # NoWord
  <2>1. scanned # NOWHERE
    BY <1>2 DEF NOWHERE
  <2>2. here.offset = scanned /\ NoWord.offset = NOWHERE
    BY DEF NoWord
  <2>. QED  BY <2>1, <2>2
<1> HIDE DEF here
<1>5. scanned \in DOMAIN par.words /\ MayEndLine(scanned) /\ (Roomy => from < scanned)
      /\ \A b : Ends(b) /\ Anchor < b => b >= scanned
  BY <1>1 DEF Filling, Inv, Scanning, Placed
<1>6. CASE prevWord' = here /\ (prevWord = NoWord \/ prevWord.isInEmailOrUrl \/ ~IsInEmailOrUrl(scanned))
  <2>1. Placed'
    <3>1. ASSUME NEW b, Ends(b)', Anchor' < b PROVE b >= scanned' /\ b > scanned'
      <4>1. Ends(b) /\ b \in Nat
        <5>1. Ends(b)
          BY <1>1, <3>1, StillFilling
        <5>. QED  BY <1>2, <5>1, ParagraphShape DEF Ends
      <4>2. CASE IsInEmailOrUrl(scanned)
        <5>1. Anchor' = from
          BY <1>1, <1>4, <1>6, <4>2, StillFilling DEF Anchor
        <5>2. Anchor = from
          BY <1>6, <4>2 DEF Anchor
        <5>3. b >= scanned /\ b # scanned
          BY <1>5, <3>1, <4>1, <4>2, <5>1, <5>2 DEF Ends
        <5>. QED  BY <1>1, <1>2, <4>1, <5>3
      <4>3. CASE ~IsInEmailOrUrl(scanned)
        <5>1. Anchor' = scanned
          BY <1>1, <1>4, <1>6, <4>3 DEF Anchor
        <5>. QED  BY <1>1, <1>2, <3>1, <4>1, <5>1
      <4>. QED  BY <4>2, <4>3
    <3>. QED  BY <1>1, <3>1 DEF Placed
  <2>2. FellBack'
    <3>1. /\ MayEndLine(scanned)' /\ IsInEmailOrUrl(scanned)' = IsInEmailOrUrl(scanned)
          /\ (Roomy' <=> Roomy) /\ GetPrevLineBreakOffset' = from
      <4>1. IsInEmailOrUrl(scanned)' = IsInEmailOrUrl(scanned)
        BY <1>1 DEF IsInEmailOrUrl
      <4>. QED  BY <1>1, <1>5, <4>1, StillFilling
    <3>2. prevWord'.offset = scanned /\ prevWord'.isInEmailOrUrl = IsInEmailOrUrl(scanned)
      BY <1>4, <1>6
    <3>. QED  BY <1>1, <1>5, <3>1, <3>2 DEF FellBack
  <2>3. ASSUME Plain' PROVE Measured'
    <3>1. Measured
      BY <1>1, <2>3, StillFilling DEF Filling
    <3>2. /\ mStartHyphenEdit = FALSE /\ mSumOfCharWidths = SumOfWidths(from, scanned)
          /\ mLineWidth = DrawnWidth(from, scanned)
      BY <3>1 DEF Measured
    <3>3. mLineWidth <= MLineWidthLimit
      <4>1. DrawnWidth(from, scanned) \in Nat
        BY <1>2, DrawnIsNat
      <4>. QED  BY <1>1, <1>2, <3>2, <4>1 DEF Overfull
    <3>4. /\ GetPrevLineBreakOffset' = from /\ MLineWidthLimit' = MLineWidthLimit
          /\ \A a, b : SumOfWidths(a, b)' = SumOfWidths(a, b) /\ DrawnWidth(a, b)' = DrawnWidth(a, b)
      BY <1>1, StillFilling
    <3>5. /\ mSumOfCharWidths' = SumOfWidths(GetPrevLineBreakOffset, scanned)'
          /\ mLineWidth' = DrawnWidth(GetPrevLineBreakOffset, scanned)'
      BY <1>1, <3>2, <3>4
    <3>6. /\ prevWord'.offset = scanned' /\ prevWord'.sum = mSumOfCharWidths' /\ prevWord'.lineWidth = mLineWidth'
      BY <1>1, <1>4, <1>6
    <3>. QED  BY <1>1, <3>2, <3>3, <3>4, <3>5, <3>6 DEF Measured
  <2>4. Piecing' /\ GoodLines'
    BY <1>1, StillFilling DEF Piecing
  <2>. QED  BY <1>3, <2>1, <2>2, <2>3, <2>4 DEF Filling
<1>7. CASE prevWord' = prevWord /\ IsInEmailOrUrl(scanned)
  <2>0. Anchor' = Anchor
    BY <1>1, <1>7, StillFilling DEF Anchor
  <2>1. Placed'
    <3>1. ASSUME NEW b, Ends(b)', Anchor' < b PROVE b >= scanned' /\ b > scanned'
      <4>1. Ends(b)
        BY <1>1, <3>1, StillFilling
      <4>2. b \in Nat
        BY <1>2, <4>1, ParagraphShape DEF Ends
      <4>3. b >= scanned /\ b # scanned
        BY <1>5, <1>7, <2>0, <3>1, <4>1 DEF Ends
      <4>. QED  BY <1>1, <1>2, <4>2, <4>3
    <3>. QED  BY <1>1, <3>1 DEF Placed
  <2>2. FellBack'
    <3> SUFFICES ASSUME prevWord # NoWord PROVE FellBack'
      BY <1>7 DEF FellBack
    <3>1. /\ prevWord.offset \in DOMAIN par.words /\ MayEndLine(prevWord.offset)
          /\ prevWord.isInEmailOrUrl = IsInEmailOrUrl(prevWord.offset)
          /\ Roomy => from < prevWord.offset
      BY DEF Filling, FellBack
    <3>2. IsInEmailOrUrl(prevWord.offset)' = IsInEmailOrUrl(prevWord.offset)
      BY <1>1, <1>7 DEF IsInEmailOrUrl
    <3>3. MayEndLine(prevWord.offset)' /\ (Roomy' <=> Roomy) /\ GetPrevLineBreakOffset' = from
      BY <1>1, <1>7, <3>1, StillFilling
    <3>. QED  BY <1>1, <1>7, <3>1, <3>2, <3>3 DEF FellBack
  <2>3. Plain' => Measured'
    BY <1>1, <1>7, MeasuredStill
  <2>4. Piecing' /\ GoodLines'
    BY <1>1, StillFilling DEF Piecing
  <2>. QED  BY <1>3, <2>1, <2>2, <2>3, <2>4 DEF Filling
<1>8. \/ prevWord' = here /\ (prevWord = NoWord \/ prevWord.isInEmailOrUrl \/ ~IsInEmailOrUrl(scanned))
      \/ prevWord' = prevWord /\ IsInEmailOrUrl(scanned)
  <2>1. CASE prevWord = NoWord \/ prevWord.isInEmailOrUrl \/ ~IsInEmailOrUrl(scanned)
    BY <1>1, <2>1
  <2>2. CASE ~ (prevWord = NoWord \/ prevWord.isInEmailOrUrl \/ ~IsInEmailOrUrl(scanned))
    BY <1>1, <2>2
  <2>. QED  BY <2>1, <2>2
<1>. QED  BY <1>6, <1>7, <1>8

(* What is left is one line, which fits. *)
LEMMA LastMoves ==
  ASSUME Filling, Finish, GetPrevLineBreakOffset # Size
  PROVE  Moves(Size) /\ scanned = Size
<1> DEFINE from == GetPrevLineBreakOffset  k == Len(mBreakPoints) + 1  fits == Fitting(k, from)
           line == [offset |-> Size, lineWidth |-> mLineWidth, startHyphen |-> mStartHyphenEdit, endHyphen |-> FALSE]
<1>1. pc = "scan" /\ scanned = Size /\ UNCHANGED <<par, scanned>>
  BY DEF Finish
<1>2. /\ from \in Nat /\ Size \in Nat /\ from <= Size /\ IsParagraph(par) /\ MLineWidthLimit \in Nat
  BY <1>1, FillingBounds
<1>3. prevWord # NoWord /\ prevWord.offset = Size
  BY <1>1 DEF Filling, Inv, EndKept
<1>4. BreakLineAt(Size, mLineWidth, 0, 0, FALSE, FALSE)
  BY <1>1, <1>3 DEF Finish
<1>5. GetAt(k - 1) = MLineWidthLimit
  BY NumberOfLines, FillingBounds
<1>6. Plain => /\ mStartHyphenEdit = FALSE /\ mLineWidth = DrawnWidth(from, Size)
               /\ DrawnWidth(from, Size) <= MLineWidthLimit
  BY <1>1, <1>3 DEF Filling, Measured
<1>7. DrawnWidth(from, Size) \in Nat
  BY <1>2, DrawnIsNat
<1>8. /\ line.offset = Size /\ line.lineWidth = mLineWidth /\ line.startHyphen = mStartHyphenEdit
      /\ line.endHyphen = FALSE
  OBVIOUS
<1> HIDE DEF line
<1>9. HasMostWords(k, from, line)
  <2> SUFFICES ASSUME Plain PROVE Size = Largest(fits)
    BY <1>8 DEF HasMostWords
  <2>1. Size \in DOMAIN par.words /\ MayEndLine(Size) /\ ~IsInEmailOrUrl(Size)
    BY <1>2, <1>3, ParagraphShape DEF Filling, FellBack, IsInEmailOrUrl
  <2>2. Size > from
    BY <1>2
  <2>3. Size \in fits
    BY <1>5, <1>6, <2>1, <2>2 DEF Fitting
  <2>4. fits \in SUBSET (0..Size)
    BY <1>2, ParagraphShape DEF Fitting
  <2> HIDE DEF fits
  <2>5. Largest(fits) \in fits /\ Size <= Largest(fits)
    BY <1>2, <2>3, <2>4, LargestExists
  <2>6. Largest(fits) \in 0..Size
    BY <2>4, <2>5
  <2>. QED  BY <1>2, <2>5, <2>6
<1>10. HasCharacter(from, line)
  BY <1>2, <1>8 DEF HasCharacter
<1>11. WidthIsDrawn(from, line)
  <2> SUFFICES ASSUME Plain PROVE line.lineWidth = DrawnWidth(from, Size) + (0 + 0)
    BY <1>6, <1>8 DEF WidthIsDrawn
  <2>. QED  BY <1>6, <1>7, <1>8
<1>12. IsOneCluster(k, from, line)
  <2> SUFFICES ASSUME Plain, line.lineWidth > GetAt(k - 1) PROVE FALSE
    BY DEF IsOneCluster
  <2>. QED  BY <1>2, <1>5, <1>6, <1>7, <1>8
<1>13. IsLongestPiece(k, from, line)
  BY <1>8 DEF IsLongestPiece
<1>14. GoodLine(k, from, [offset |-> Size, lineWidth |-> mLineWidth, startHyphen |-> mStartHyphenEdit,
                          endHyphen |-> FALSE])
  BY <1>9, <1>10, <1>11, <1>12, <1>13 DEF GoodLine, line
<1>15. SumOfWidths(Size, scanned) = 0 /\ DrawnWidth(Size, scanned) = 0
  BY <1>1, <1>2, SumStep, DrawnStep
<1>16. Size \in from..scanned
  BY <1>1, <1>2
<1>. QED  BY <1>1, <1>4, <1>14, <1>15, <1>16, LineMoves

LEMMA FinishFilling == Filling /\ Finish => Filling'
<1> SUFFICES ASSUME Filling, Finish PROVE Filling'
  OBVIOUS
<1>1. pc = "scan" /\ pc' = "done" /\ scanned = Size /\ UNCHANGED <<par, scanned, hyph>>
  BY DEF Finish
<1>2. Inv'
  BY FinishInv DEF Filling
<1>3. CASE GetPrevLineBreakOffset # Size
  <2>1. Moves(Size) /\ Anchor <= Size
    BY <1>1, <1>3, LastMoves, AnchorIs
  <2>. QED  BY <1>1, <1>2, <2>1, MovesFilling
<1>4. CASE GetPrevLineBreakOffset = Size
  <2>1. UNCHANGED <<mBreakPoints, mLineWidth, mSumOfCharWidths, mStartHyphenEdit, prevWord>>
    BY <1>4 DEF Finish
  <2>2. Anchor' = Anchor
    BY <1>1, <2>1, StillFilling DEF Anchor
  <2>3. Placed'
    <3>1. \A b : Ends(b) /\ Anchor < b => b >= scanned
      BY DEF Filling, Placed
    <3>. QED  BY <1>1, <2>1, <2>2, <3>1, StillFilling DEF Placed
  <2>4. FellBack'
    <3> SUFFICES ASSUME prevWord # NoWord PROVE FellBack'
      BY <2>1 DEF FellBack
    <3>1. /\ prevWord.offset \in DOMAIN par.words /\ MayEndLine(prevWord.offset)
          /\ prevWord.isInEmailOrUrl = IsInEmailOrUrl(prevWord.offset)
          /\ Roomy => GetPrevLineBreakOffset < prevWord.offset
      BY DEF Filling, FellBack
    <3>2. IsInEmailOrUrl(prevWord.offset)' = IsInEmailOrUrl(prevWord.offset)
      BY <1>1, <2>1 DEF IsInEmailOrUrl
    <3>3. /\ MayEndLine(prevWord.offset)' /\ (Roomy' <=> Roomy)
          /\ GetPrevLineBreakOffset' = GetPrevLineBreakOffset
      BY <1>1, <2>1, <3>1, StillFilling
    <3>. QED  BY <1>1, <2>1, <3>1, <3>2, <3>3 DEF FellBack
  <2>5. Plain' => Measured'
    BY <1>1, <2>1, MeasuredStill
  <2>6. Piecing' /\ GoodLines'
    BY <1>1, <2>1, StillFilling DEF Piecing
  <2>. QED  BY <1>2, <2>3, <2>4, <2>5, <2>6 DEF Filling
<1>. QED  BY <1>3, <1>4

LEMMA StutterFilling == Filling /\ UNCHANGED vars => Filling'
<1> SUFFICES ASSUME Filling, UNCHANGED vars PROVE Filling'
  OBVIOUS
<1>1. UNCHANGED <<par, mBreakPoints, mLineWidth, mSumOfCharWidths, mStartHyphenEdit, prevWord, scanned, hyph, pc>>
  BY DEF vars
<1>2. Inv'
  BY <1>1, NextInv DEF Filling, vars
<1>3. Placed'
  BY <1>1 DEF Filling, Placed, Anchor, Ends, MayEndLine, IsInEmailOrUrl, RunAt, RunStart, Roomy, Plain,
              HasTabs, StartHyphens, Size, Char, Width, GetAt, MEnableHyphenation, GetPrevLineBreakOffset
<1>4. FellBack'
  BY <1>1 DEF Filling, FellBack, MayEndLine, IsInEmailOrUrl, RunAt, RunStart, Roomy, Plain,
              HasTabs, StartHyphens, Size, Char, Width, GetAt, MEnableHyphenation, GetPrevLineBreakOffset
<1>5. Piecing'
  <2> SUFFICES ASSUME pc = "hyphenate" PROVE Piecing'
    BY <1>1 DEF Piecing
  <2>1. /\ MEnableHyphenation
        /\ \A o \in HyphensLeft : GetPrevLineBreakOffset < o
        /\ hyph.prev # NOWHERE =>
             /\ hyph.prev \in HyphenResult /\ GetPrevLineBreakOffset < hyph.prev
             /\ hyph.next = hyph.prev + 1
             /\ PieceWidth(hyph.prev) <= MLineWidthLimit
    BY DEF Filling, Piecing
  <2>2. /\ GetPrevLineBreakOffset' = GetPrevLineBreakOffset /\ MLineWidthLimit' = MLineWidthLimit
        /\ HyphenResult' = HyphenResult /\ (MEnableHyphenation' <=> MEnableHyphenation)
    BY <1>1, StillFilling
  <2>3. HyphensLeft' = HyphensLeft
    BY <1>1, <2>2 DEF HyphensLeft
  <2>4. PieceWidth(hyph.prev)' = PieceWidth(hyph.prev)
    BY <1>1 DEF PieceWidth, MeasureHyphenPiece, SumOfWidths, Width
  <2>. QED  BY <1>1, <2>1, <2>2, <2>3, <2>4 DEF Piecing
<1>6. Plain' => Measured'
  <2>1. ASSUME Plain' PROVE Measured'
    <3>1. pc' = "hyphenate" => Overfull
      BY <1>1, <2>1, StillFilling DEF Filling, Measured
    <3>. QED  BY <1>1, <2>1, <3>1, MeasuredStill
  <2>. QED  BY <2>1
<1>7. GoodLines'
  BY <1>1, StillFilling
<1>. QED  BY <1>2, <1>3, <1>4, <1>5, <1>6, <1>7 DEF Filling

(* Together. *)
LEMMA NextFilling == Filling /\ [Next]_vars => Filling'
BY StutterFilling, ScanFilling, BreakAtWordFilling, StartHyphenatingFilling, KeepPieceFilling, BreakInWordFilling,
   BreakLastPieceFilling, ReadOutsideFilling, BreakAtGraphemeFilling, RememberWordFilling, FinishFilling DEF Next

-----------------------------------------------------------------------------
(* breakIntoLines: what the greedy breaker leaves, and keeps.              *)
LEMMA LinesFilling == LinesSpec => [](IsGreedy => Filling)
<1>1. Init => (IsGreedy => Filling)
  BY InitFilling
<1>2. (IsGreedy => Filling) /\ [BreakIntoLines]_vars => (IsGreedy => Filling)'
  <2> SUFFICES ASSUME IsGreedy => Filling, [BreakIntoLines]_vars, IsGreedy' PROVE Filling'
    OBVIOUS
  <2>1. CASE BreakGreedily
    BY <2>1, NextFilling DEF BreakGreedily
  <2>2. CASE BreakOptimally
    <3>1. ~IsGreedy /\ UNCHANGED par
      BY <2>2 DEF BreakOptimally
    <3>2. IsGreedy' <=> IsGreedy
      BY <3>1, SamePlaces
    <3>. QED  BY <3>1, <3>2
  <2>3. CASE UNCHANGED vars
    <3>1. UNCHANGED par
      BY <2>3 DEF vars
    <3>2. IsGreedy' <=> IsGreedy
      BY <3>1, SamePlaces
    <3>. QED  BY <2>3, <3>2, NextFilling
  <2>. QED  BY <2>1, <2>2, <2>3 DEF BreakIntoLines
<1>. QED  BY <1>1, <1>2, PTL DEF LinesSpec

(* PartsSpaces has no other case when it breaks greedily. *)
LEMMA PartedLines == IsGreedy => (PartsSpaces <=> Parted)
BY DEF PartsSpaces, Parted

(* Every line that is broken greedily holds a character, however narrow    *)
(* the lines are, whatever the hyphenator and the word breaker say; with   *)
(* hyphenation on, where no cluster is wider than a line and nothing else  *)
(* is added to a line than its clusters.  (processLineBreak puts an empty  *)
(* line before a cluster that is too wide when it has hyphenated.)         *)
THEOREM LinesHaveCharacters == LinesSpec => [](IsGreedy /\ Roomy => EveryLineHasACharacter)
<1>1. (IsGreedy => Filling) => (IsGreedy /\ Roomy => EveryLineHasACharacter)
  <2> SUFFICES ASSUME Filling, Roomy PROVE EveryLineHasACharacter
    OBVIOUS
  <2>1. \A k \in DOMAIN mBreakPoints : LineStart(k) < mBreakPoints[k].offset
    BY DEF Filling, GoodLines, GoodLine, HasCharacter
  <2>2. pc = "done" => mBreakPoints # << >> /\ GetPrevLineBreakOffset = Size
    BY Bounds DEF Filling, Inv, EndKept, GetPrevLineBreakOffset
  <2>. QED  BY <2>1, <2>2 DEF EveryLineHasACharacter
<1>. QED  BY <1>1, LinesFilling, PTL

(* The width the greedy breaker reports for a line is the one its          *)
(* characters and hyphens are drawn with, though breakLineAt finds it from *)
(* sums begun lines before; where a point of hyphenation does not have the *)
(* next line begin with a hyphen.  (doLineBreakWithGraphemeBounds leaves   *)
(* that hyphen out of the width.)                                          *)
THEOREM LinesAreDrawnAsMeasured == LinesSpec => [](IsGreedy /\ ~StartHyphens => WidthsAreDrawn)
<1>1. (IsGreedy => Filling) => (IsGreedy /\ ~StartHyphens => WidthsAreDrawn)
  <2> SUFFICES ASSUME Filling, IsGreedy, ~StartHyphens, ~HasTabs, ~PartsSpaces, NEW k \in DOMAIN mBreakPoints
               PROVE  mBreakPoints[k].lineWidth
                      = DrawnWidth(LineStart(k), mBreakPoints[k].offset) + HyphenWidths(k)
    BY DEF WidthsAreDrawn
  <2>1. Plain /\ ~Parted
    BY PartedLines DEF Plain
  <2>2. WidthIsDrawn(LineStart(k), mBreakPoints[k])
    BY DEF Filling, GoodLines, GoodLine
  <2>. QED  BY <2>1, <2>2 DEF WidthIsDrawn, HyphenWidths
<1>. QED  BY <1>1, LinesFilling, PTL

(* Only a cluster that no line could hold makes a line of the greedy       *)
(* breaker too wide: the comment in doLineBreakWithGraphemeBounds.         *)
THEOREM OverfullLinesAreClusters == LinesSpec => [](~StartHyphens => OverfullIsOneCluster)
<1>1. (IsGreedy => Filling) => (~StartHyphens => OverfullIsOneCluster)
  <2> SUFFICES ASSUME IsGreedy => Filling, ~StartHyphens, par.strategy = "greedy", ~HasTabs,
                      NEW k \in DOMAIN mBreakPoints, mBreakPoints[k].lineWidth > LimitOf(k)
               PROVE  \A o \in LineStart(k) + 1..mBreakPoints[k].offset - 1 : Width(o) = 0
    BY DEF OverfullIsOneCluster
  <2>1. Filling /\ Plain
    BY DEF IsGreedy, Plain
  <2>2. IsOneCluster(k, LineStart(k), mBreakPoints[k])
    BY <2>1 DEF Filling, GoodLines, GoodLine
  <2>. QED  BY <2>1, <2>2 DEF IsOneCluster, LimitOf
<1>. QED  BY <1>1, LinesFilling, PTL

(* The greedy breaker ends a line after the last word that fits, though it *)
(* decides when the words after it have been scanned, broken or hyphenated *)
(* and the place to fall back to may be within an address.                 *)
THEOREM LinesTakeAsManyWords == LinesSpec => [](~StartHyphens => TakesAsManyWords)
<1>1. (IsGreedy => Filling) => (~StartHyphens => TakesAsManyWords)
  <2> SUFFICES ASSUME IsGreedy => Filling, ~StartHyphens, par.strategy = "greedy", ~HasTabs,
                      NEW k \in DOMAIN mBreakPoints, Fitting(k, LineStart(k)) # {}
               PROVE  mBreakPoints[k].offset = Largest(Fitting(k, LineStart(k)))
    BY DEF TakesAsManyWords, Fitting, LimitOf
  <2>1. Filling /\ Plain
    BY DEF IsGreedy, Plain
  <2>2. HasMostWords(k, LineStart(k), mBreakPoints[k])
    BY <2>1 DEF Filling, GoodLines, GoodLine
  <2>. QED  BY <2>1, <2>2 DEF HasMostWords
<1>. QED  BY <1>1, LinesFilling, PTL

(* A line the greedy breaker ends with a hyphen ends at a point the        *)
(* hyphenator gave, within the limit, and no longer piece of the word      *)
(* would fit, whatever is hyphenated before it on the line or on others.   *)
THEOREM PiecesAreLongest == LinesSpec => [](IsGreedy /\ ~PartsSpaces => HyphenatesLongestPiece)
<1>1. (IsGreedy => Filling) => (IsGreedy /\ ~PartsSpaces => HyphenatesLongestPiece)
  <2> SUFFICES ASSUME Filling, IsGreedy, ~PartsSpaces PROVE HyphenatesLongestPiece
    OBVIOUS
  <2>1. ~Parted
    BY PartedLines
  <2>2. ASSUME NEW k \in DOMAIN mBreakPoints, mBreakPoints[k].endHyphen
        PROVE  /\ mBreakPoints[k].offset \in DOMAIN par.hyphen /\ par.hyphen[mBreakPoints[k].offset] = "here"
               /\ mBreakPoints[k].lineWidth <= LimitOf(k)
               /\ \A o \in Longer(mBreakPoints[k].offset) :
                    DrawnWidth(LineStart(k), o) + HyphenWidth
                      + (IF mBreakPoints[k].startHyphen THEN HyphenWidth ELSE 0) > LimitOf(k)
    <3>1. IsLongestPiece(k, LineStart(k), mBreakPoints[k])
      BY DEF Filling, GoodLines, GoodLine
    <3>. QED  BY <2>1, <2>2, <3>1 DEF IsLongestPiece, LimitOf
  <2>. QED  BY <2>2 DEF HyphenatesLongestPiece, Longer
<1>. QED  BY <1>1, LinesFilling, PTL

-----------------------------------------------------------------------------
(* The optimal breaker: candidates made of numbers, one at least.          *)
Typed(context) ==
  LET n == Len(context.candidates)
  IN /\ n \in Nat /\ n >= 1
     /\ \A i \in 1..n : /\ context.candidates[i].preBreak \in Int
                        /\ context.candidates[i].postBreak \in Int
                        /\ context.candidates[i].penalty \in Nat

(* For lines of one width, what a line leaves of it, and its cost without  *)
(* the penalties of its end.                                               *)
Slack(context, j, i) ==
  GetAt(0) - (context.candidates[i].postBreak - context.candidates[j].preBreak)
Stretch(context, j, i) ==
  WidthScore(context, context.candidates[j], context.candidates[i], IsLast(context, i), Slack(context, j, i))
Surcharge(context, j, i) ==
  AdditionalPenalty(context.candidates[j], IsLast(context, i), Slack(context, j, i))
Cost(context, j, i) == Stretch(context, j, i) + Surcharge(context, j, i)
EndPenalty(context, i) == context.candidates[i].penalty + LinePenalty

(* A sequence that never falls from one member to the next never falls.    *)
LEMMA Rising ==
  ASSUME NEW n \in Nat, NEW f, \A k \in 1..n : f[k] \in Int,
         \A k \in 2..n : f[k - 1] <= f[k],
         NEW a \in 1..n, NEW b \in 1..n, a <= b
  PROVE  f[a] <= f[b]
<1> DEFINE bad == {k \in a..n : ~(f[a] <= f[k])}
<1>1. SUFFICES ASSUME bad # {} PROVE FALSE
  OBVIOUS
<1>2. PICK k \in bad : \A y \in bad : k <= y
  BY <1>1, SmallestExists, bad \in SUBSET Nat
<1>3. k \in a..n /\ ~(f[a] <= f[k]) /\ k \in 1..n
  BY <1>2
<1>4. CASE k = a
  BY <1>3, <1>4
<1>5. CASE k # a
  <2>1. k - 1 \in a..n /\ k - 1 \notin bad /\ k \in 2..n /\ k - 1 \in 1..n
    BY <1>2, <1>3, <1>5
  <2>2. f[a] <= f[k - 1] /\ f[k - 1] <= f[k]
    BY <2>1
  <2>3. f[a] \in Int /\ f[k] \in Int /\ f[k - 1] \in Int
    BY <1>3, <2>1
  <2>. QED  BY <1>3, <2>2, <2>3
<1>. QED  BY <1>4, <1>5

(* Scores of widths are natural numbers and grow with the width.           *)
LEMMA SquaresGrow ==
  ASSUME NEW a \in Int, NEW b \in Int
  PROVE  /\ 4 * a * a \in Nat /\ 4 * a * a * 4 \in Nat
         /\ 0 <= a /\ a <= b => 4 * a * a <= 4 * b * b
<1>1. a * a \in Nat /\ b * b \in Nat
  BY SMT
<1>2. 0 <= a /\ a <= b => a * a <= b * b
  BY SMT
<1>. DEFINE x == a * a  y == b * b
<1>3. 4 * a * a = 4 * x /\ 4 * b * b = 4 * y
  BY SMT
<1> HIDE DEF x, y
<1>4. x \in Nat /\ y \in Nat /\ (0 <= a /\ a <= b => x <= y)
  BY <1>1, <1>2 DEF x, y
<1>. QED  BY <1>3, <1>4

(* What a line leaves of the width is a number, its cost a natural one.    *)
LEMMA CostFacts ==
  ASSUME IsParagraph(par), NEW context, Typed(context),
         NEW i \in 1..Len(context.candidates), NEW j \in 1..Len(context.candidates)
  PROVE  /\ Slack(context, j, i) \in Int
         /\ Stretch(context, j, i) \in Nat
         /\ Surcharge(context, j, i) \in Nat
         /\ Cost(context, j, i) \in Nat
<1>1. GetAt(0) \in Int
  BY LimitIsNat
<1>2. /\ context.candidates[i].postBreak \in Int /\ context.candidates[j].preBreak \in Int
      /\ context.candidates[j].penalty \in Nat
  BY DEF Typed
<1>3. Slack(context, j, i) \in Int
  BY <1>1, <1>2 DEF Slack
<1> DEFINE d == Slack(context, j, i)
<1>4. 4 * d * d \in Nat /\ 4 * d * d * 4 \in Nat
  BY <1>3, SquaresGrow
<1>5. Stretch(context, j, i) \in Nat
  <2>1. SCORE_OVERFULL \in Nat
    BY ScoresAssumption
  <2>2. Stretch(context, j, i) \in {4 * d * d * 4, SCORE_OVERFULL, 0, 4 * d * d}
    BY DEF Stretch, WidthScore, SHRINK_PENALTY_MULTIPLIER
  <2> HIDE DEF d
  <2>. QED  BY <1>4, <2>1, <2>2
<1>6. Surcharge(context, j, i) \in Nat
  BY <1>2 DEF Surcharge, AdditionalPenalty, LAST_LINE_PENALTY_MULTIPLIER
<1>. QED  BY <1>3, <1>5, <1>6 DEF Cost

(* A line is not made longer by a later start, nor shorter by a later end. *)
LEMMA SlackGrows ==
  ASSUME IsParagraph(par), NEW context, Typed(context), Growing(context.candidates),
         NEW j \in 1..Len(context.candidates), NEW k \in 1..Len(context.candidates), j <= k,
         NEW i \in 1..Len(context.candidates)
  PROVE  /\ Slack(context, j, i) <= Slack(context, k, i)
         /\ Slack(context, i, k) <= Slack(context, i, j)
<1> DEFINE c == context.candidates
           pre == [x \in 1..Len(c) |-> c[x].preBreak]
           post == [x \in 1..Len(c) |-> c[x].postBreak]
<1>1. Len(c) \in Nat /\ \A x \in 1..Len(c) : c[x].preBreak \in Int /\ c[x].postBreak \in Int
  BY DEF Typed
<1>2. \A x \in 2..Len(c) : c[x - 1].preBreak <= c[x].preBreak /\ c[x - 1].postBreak <= c[x].postBreak
  BY DEF Growing
<1> HIDE DEF c
<1>3. \A x \in 1..Len(c) : pre[x] \in Int /\ post[x] \in Int
  BY <1>1
<1>4. \A x \in 2..Len(c) : x - 1 \in 1..Len(c) /\ x \in 1..Len(c)
  BY <1>1
<1>5. (\A x \in 2..Len(c) : pre[x - 1] <= pre[x]) /\ (\A x \in 2..Len(c) : post[x - 1] <= post[x])
  BY <1>2, <1>4
<1>6. j \in 1..Len(c) /\ k \in 1..Len(c) /\ i \in 1..Len(c)
  BY DEF c
<1>7. pre[j] = c[j].preBreak /\ pre[k] = c[k].preBreak /\ post[j] = c[j].postBreak /\ post[k] = c[k].postBreak
  BY <1>6
<1> HIDE DEF pre, post
<1>8. pre[j] <= pre[k]
  BY <1>1, <1>3, <1>5, <1>6, Rising
<1>9. post[j] <= post[k]
  BY <1>1, <1>3, <1>5, <1>6, Rising
<1>10. GetAt(0) \in Int
  BY LimitIsNat
<1>11. PICK g, a, b, d, e \in Int :
         /\ g = GetAt(0) /\ a = c[j].preBreak /\ b = c[k].preBreak /\ d = c[j].postBreak /\ e = c[k].postBreak
  BY <1>1, <1>6, <1>10
<1>12. PICK p, q \in Int : p = c[i].preBreak /\ q = c[i].postBreak
  BY <1>1, <1>6
<1>13. a <= b /\ d <= e
  BY <1>7, <1>8, <1>9, <1>11
<1>14. g - (q - a) <= g - (q - b) /\ g - (e - p) <= g - (d - p)
  BY <1>13
<1>15. /\ Slack(context, j, i) = g - (q - a) /\ Slack(context, k, i) = g - (q - b)
       /\ Slack(context, i, k) = g - (e - p) /\ Slack(context, i, j) = g - (d - p)
  BY <1>11, <1>12 DEF Slack, c
<1>. QED  BY <1>14, <1>15

(* bestHope: a later start of a line that is not too long costs no less.   *)
LEMMA StretchGrows ==
  ASSUME IsParagraph(par), NEW context, Typed(context), Growing(context.candidates),
         NEW i \in 1..Len(context.candidates),
         NEW j \in 1..Len(context.candidates), NEW k \in 1..Len(context.candidates), j <= k,
         Slack(context, j, i) >= 0
  PROVE  Stretch(context, j, i) <= Stretch(context, k, i)
<1> DEFINE a == Slack(context, j, i)  b == Slack(context, k, i)
<1>1. a \in Int /\ b \in Int /\ a <= b /\ 0 <= a
  BY CostFacts, SlackGrows
<1>2. 4 * a * a <= 4 * b * b
  BY <1>1, SquaresGrow
<1> DEFINE free == IsLast(context, i) /\ par.strategy # "balanced"
<1>3. Stretch(context, j, i) = IF free THEN 0 ELSE 4 * a * a
  BY <1>1 DEF Stretch, WidthScore
<1>4. Stretch(context, k, i) = IF free THEN 0 ELSE 4 * b * b
  BY <1>1 DEF Stretch, WidthScore
<1> HIDE DEF a, b, free
<1>. QED  BY <1>2, <1>3, <1>4

-----------------------------------------------------------------------------
(* computeBreaks: what is known of the candidates whose score is found.    *)
Data == [score : Nat, prev : Nat, lineNumber : Nat]
Tries == [active : Nat, best : Nat, bestPrev : Nat, lineNumberLast : Nat,
          width : Int, leftEdge : Int, bestHope : Nat]

(* What the search for the line that ends at candidate i knows when it has *)
(* seen the candidates from first to j.                                    *)
Searched(context, data, first, i, j, t) ==
  /\ t \in Tries
  /\ t.width = GetAt(0) /\ t.leftEdge = context.candidates[i].postBreak - GetAt(0)
  /\ t.best <= SCORE_INFTY
  /\ t.bestPrev \in 1..i - 1
  /\ \A k \in first..j : t.best <= data[k].score + Cost(context, k, i)
  /\ \/ t.bestHope = 0
     \/ \E k \in first..j : Slack(context, k, i) >= 0 /\ t.bestHope = Stretch(context, k, i)
  /\ t.best < SCORE_INFTY =>
       /\ t.bestPrev \in first..j
       /\ t.best = data[t.bestPrev].score + Cost(context, t.bestPrev, i)
  /\ \/ t.active = first
     \/ \E k \in first..j : Slack(context, k, i) < 0 /\ t.active = k + 1

(* The search for the start of the line that ends at i begins as it        *)
(* should.                                                                 *)
LEMMA SearchStarts ==
  ASSUME IsParagraph(par), NEW context, Typed(context), EqualWidths(context),
         NEW i \in 2..Len(context.candidates), NEW s,
         s.active \in 1..i - 1, s.data[s.active].lineNumber \in 0..i
  PROVE  Searched(context, s.data, s.active, i, s.active - 1, StartOf(context, s, i))
<1> DEFINE t == StartOf(context, s, i)  line == s.data[s.active].lineNumber
<1>1. line \in 0..Len(context.candidates) /\ line \in Nat
  BY DEF Typed
<1>2. GetAt(line) = GetAt(0) /\ GetAt(0) \in Nat
  BY <1>1, LimitIsNat DEF EqualWidths
<1>3. t = [active |-> s.active, best |-> SCORE_INFTY, bestPrev |-> 1, lineNumberLast |-> line,
           width |-> GetAt(0), leftEdge |-> context.candidates[i].postBreak - GetAt(0), bestHope |-> 0]
  BY <1>2 DEF StartOf
<1>4. SCORE_INFTY \in Nat /\ context.candidates[i].postBreak \in Int /\ i \in Int
  BY ScoresAssumption DEF Typed
<1> HIDE DEF line, t
<1>5. t \in Tries
  BY <1>1, <1>2, <1>3, <1>4 DEF Tries
<1>6. s.active..s.active - 1 = {}
  OBVIOUS
<1>7. /\ t.width = GetAt(0) /\ t.leftEdge = context.candidates[i].postBreak - GetAt(0)
      /\ t.best = SCORE_INFTY /\ t.bestPrev = 1 /\ t.bestHope = 0 /\ t.active = s.active
  BY <1>3
<1>8. Searched(context, s.data, s.active, i, s.active - 1, t)
  BY <1>4, <1>5, <1>6, <1>7 DEF Searched
<1>. QED  BY <1>8 DEF t

(* One candidate more, by whether it is tried. *)
LEMMA SearchSkips ==
  ASSUME IsParagraph(par), NEW context, Typed(context), Growing(context.candidates),
         NEW i \in 2..Len(context.candidates), NEW first \in 1..i - 1, NEW j \in first..i - 1,
         NEW data, \A k \in 1..i - 1 : data[k] \in Data,
         NEW t, Searched(context, data, first, i, j - 1, t),
         data[j].score + t.bestHope >= t.best
  PROVE  Searched(context, data, first, i, j, t)
<1>1. j \in 1..Len(context.candidates) /\ i \in 1..Len(context.candidates) /\ first..j = (first..j - 1) \cup {j}
  BY DEF Typed
<1>2. t \in Tries /\ data[j].score \in Nat /\ Cost(context, j, i) \in Nat
      /\ Stretch(context, j, i) \in Nat /\ Surcharge(context, j, i) \in Nat
  <2>1. t \in Tries
    BY DEF Searched
  <2>2. data[j].score \in Nat
    BY DEF Data
  <2>. QED  BY <1>1, <2>1, <2>2, CostFacts
<1>3. t.bestHope <= Stretch(context, j, i)
  <2>1. CASE t.bestHope = 0
    BY <1>2, <2>1
  <2>2. CASE \E k \in first..j - 1 : Slack(context, k, i) >= 0 /\ t.bestHope = Stretch(context, k, i)
    <3>1. PICK k \in first..j - 1 : Slack(context, k, i) >= 0 /\ t.bestHope = Stretch(context, k, i)
      BY <2>2
    <3>2. k \in 1..Len(context.candidates) /\ k <= j
      BY <1>1, <3>1
    <3>3. Stretch(context, k, i) <= Stretch(context, j, i)
      BY <1>1, <3>1, <3>2, StretchGrows
    <3>. QED  BY <3>1, <3>3
  <2>. QED  BY <2>1, <2>2 DEF Searched
<1>4. t.best <= data[j].score + Cost(context, j, i)
  <2>1. t.best \in Nat /\ t.bestHope \in Nat
    BY <1>2 DEF Tries
  <2>2. Cost(context, j, i) = Stretch(context, j, i) + Surcharge(context, j, i)
    BY DEF Cost
  <2>3. PICK b \in Nat, hope \in Nat : b = t.best /\ hope = t.bestHope
    BY <2>1
  <2>4. PICK x \in Nat, y \in Nat, z \in Nat : x = data[j].score /\ y = Stretch(context, j, i) /\ z = Surcharge(context, j, i)
    BY <1>2
  <2>5. hope <= y /\ x + hope >= b
    BY <1>3, <2>3, <2>4
  <2>6. b <= x + (y + z)
    BY <2>5
  <2>. QED  BY <2>2, <2>3, <2>4, <2>6
<1>5. first..j - 1 \subseteq first..j
  OBVIOUS
<1>6. \A k \in first..j : t.best <= data[k].score + Cost(context, k, i)
  BY <1>1, <1>4 DEF Searched
<1>. QED  BY <1>5, <1>6 DEF Searched

(* What Try makes of a candidate. *)
Tried(context, data, t, i, j) ==
  Try(t, j, data[j].score, Slack(context, j, i), Stretch(context, j, i), Surcharge(context, j, i))

(* A candidate that is tried becomes the best if its score is not larger.  *)
LEMMA SearchTries ==
  ASSUME IsParagraph(par), NEW context, Typed(context),
         NEW i \in 2..Len(context.candidates), NEW first \in 1..i - 1, NEW j \in first..i - 1,
         NEW data, \A k \in 1..i - 1 : data[k] \in Data,
         NEW t, Searched(context, data, first, i, j - 1, t)
  PROVE  Searched(context, data, first, i, j, Tried(context, data, t, i, j))
<1> DEFINE u == Tried(context, data, t, i, j)
           d == Slack(context, j, i)  ws == Stretch(context, j, i)  score == data[j].score + Cost(context, j, i)
<1>1. j \in 1..Len(context.candidates) /\ i \in 1..Len(context.candidates) /\ first..j = (first..j - 1) \cup {j}
      /\ j \in first..j /\ j \in Nat /\ i \in Nat /\ first \in Nat
  BY DEF Typed
<1> HIDE DEF u, d, ws, score
<1>2. /\ t \in Tries /\ data[j].score \in Nat /\ Cost(context, j, i) \in Nat
      /\ ws \in Nat /\ Surcharge(context, j, i) \in Nat /\ d \in Int
  <2>1. t \in Tries
    BY DEF Searched
  <2>2. data[j].score \in Nat
    BY DEF Data
  <2>. QED  BY <1>1, <2>1, <2>2, CostFacts DEF d, ws
<1>3. score \in Nat /\ score = data[j].score + ws + Surcharge(context, j, i)
  <2>1. Cost(context, j, i) = ws + Surcharge(context, j, i)
    BY DEF Cost, ws
  <2>2. score = data[j].score + Cost(context, j, i)
    BY DEF score
  <2>3. PICK a, b, c \in Nat : /\ a = data[j].score /\ b = ws /\ c = Surcharge(context, j, i)
    BY <1>2
  <2>4. score = a + (b + c)
    BY <2>1, <2>2, <2>3
  <2>5. a + (b + c) = a + b + c /\ a + (b + c) \in Nat
    OBVIOUS
  <2>. QED  BY <2>3, <2>4, <2>5
<1>4. /\ u.width = t.width /\ u.leftEdge = t.leftEdge /\ u.lineNumberLast = t.lineNumberLast
      /\ u.active = (IF d < 0 THEN j + 1 ELSE t.active)
      /\ u.bestHope = (IF d < 0 THEN t.bestHope ELSE ws)
      /\ u.best = (IF score <= t.best THEN score ELSE t.best)
      /\ u.bestPrev = (IF score <= t.best THEN j ELSE t.bestPrev)
      /\ u \in Tries
  <2>1. u = Try(t, j, data[j].score, d, ws, Surcharge(context, j, i))
    BY DEF u, Tried, d, ws
  <2>2. PICK tried : tried = IF d < 0 THEN [t EXCEPT !.active = j + 1] ELSE [t EXCEPT !.bestHope = ws]
    OBVIOUS
  <2>3. u = IF score <= t.best THEN [tried EXCEPT !.best = score, !.bestPrev = j] ELSE tried
    BY <1>3, <2>1, <2>2 DEF Try
  <2>4. /\ tried \in Tries
        /\ tried.width = t.width /\ tried.leftEdge = t.leftEdge /\ tried.lineNumberLast = t.lineNumberLast
        /\ tried.active = (IF d < 0 THEN j + 1 ELSE t.active)
        /\ tried.bestHope = (IF d < 0 THEN t.bestHope ELSE ws)
        /\ tried.best = t.best /\ tried.bestPrev = t.bestPrev
    <3>1. CASE d < 0
      <4>1. PICK next \in Nat : next = j + 1
        BY <1>1
      <4>2. tried = [t EXCEPT !.active = next]
        BY <2>2, <3>1, <4>1
      <4>3. t \in Tries
        BY <1>2
      <4>4. /\ tried \in Tries
            /\ tried.width = t.width /\ tried.leftEdge = t.leftEdge /\ tried.lineNumberLast = t.lineNumberLast
            /\ tried.active = next /\ tried.bestHope = t.bestHope
            /\ tried.best = t.best /\ tried.bestPrev = t.bestPrev
        BY <4>2, <4>3 DEF Tries
      <4>. QED  BY <3>1, <4>1, <4>4
    <3>2. CASE ~ (d < 0)
      <4>1. tried = [t EXCEPT !.bestHope = ws]
        BY <2>2, <3>2
      <4>. QED  BY <1>1, <1>2, <3>2, <4>1 DEF Tries
    <3>. QED  BY <3>1, <3>2
  <2>. QED  BY <1>1, <1>3, <2>3, <2>4 DEF Tries
<1>5. u.best <= t.best /\ u.best <= score
  <2>1. t.best \in Nat
    BY <1>2 DEF Tries
  <2>. QED  BY <1>3, <1>4, <2>1
<1>6. /\ u.width = GetAt(0) /\ u.leftEdge = context.candidates[i].postBreak - GetAt(0)
      /\ u.best <= SCORE_INFTY /\ u.bestPrev \in 1..i - 1
  <2>1. t.best <= SCORE_INFTY /\ t.best \in Nat /\ SCORE_INFTY \in Nat /\ u.best \in Nat
    BY <1>2, <1>4, ScoresAssumption DEF Searched, Tries
  <2>2. j \in 1..i - 1
    OBVIOUS
  <2>. QED  BY <1>4, <1>5, <2>1, <2>2 DEF Searched
<1>7. \A k \in first..j : u.best <= data[k].score + Cost(context, k, i)
  <2> SUFFICES ASSUME NEW k \in first..j PROVE u.best <= data[k].score + Cost(context, k, i)
    OBVIOUS
  <2>1. CASE k = j
    BY <1>5, <2>1 DEF score
  <2>2. CASE k # j
    <3>1. k \in first..j - 1 /\ k \in 1..i - 1 /\ k \in 1..Len(context.candidates)
      BY <1>1, <2>2
    <3>2. t.best <= data[k].score + Cost(context, k, i)
      BY <3>1 DEF Searched
    <3>3. data[k].score \in Nat /\ Cost(context, k, i) \in Nat
      BY <1>1, <3>1, CostFacts DEF Data
    <3>4. u.best \in Nat /\ t.best \in Nat
      BY <1>2, <1>4 DEF Tries
    <3>. QED  BY <1>5, <3>2, <3>3, <3>4
  <2>. QED  BY <2>1, <2>2
<1>8. \/ u.bestHope = 0
      \/ \E k \in first..j : Slack(context, k, i) >= 0 /\ u.bestHope = Stretch(context, k, i)
  <2>1. CASE d < 0
    <3>1. u.bestHope = t.bestHope
      BY <1>4, <2>1
    <3>. QED  BY <1>1, <3>1 DEF Searched
  <2>2. CASE ~ (d < 0)
    <3>1. u.bestHope = Stretch(context, j, i) /\ Slack(context, j, i) >= 0
      BY <1>2, <1>4, <2>2 DEF d, ws
    <3>. QED  BY <1>1, <3>1
  <2>. QED  BY <2>1, <2>2
<1>9. u.best < SCORE_INFTY =>
       /\ u.bestPrev \in first..j
       /\ u.best = data[u.bestPrev].score + Cost(context, u.bestPrev, i)
  <2>1. CASE score <= t.best
    BY <1>1, <1>4, <2>1 DEF score
  <2>2. CASE ~ (score <= t.best)
    <3>1. u.best = t.best /\ u.bestPrev = t.bestPrev
      BY <1>4, <2>2
    <3>. QED  BY <1>1, <3>1 DEF Searched
  <2>. QED  BY <2>1, <2>2
<1>10. \/ u.active = first
       \/ \E k \in first..j : Slack(context, k, i) < 0 /\ u.active = k + 1
  <2>1. CASE d < 0
    BY <1>1, <1>4, <2>1 DEF d
  <2>2. CASE ~ (d < 0)
    BY <1>1, <1>4, <2>2 DEF Searched
  <2>. QED  BY <2>1, <2>2
<1>11. u \in Tries
  BY <1>4
<1>12. Searched(context, data, first, i, j, u)
  BY <1>6, <1>7, <1>8, <1>9, <1>10, <1>11 DEF Searched
<1>. QED  BY <1>12 DEF u

(* Each turn of the loop over j keeps what is known of the search.         *)
LEMMA SearchGoesOn ==
  ASSUME IsParagraph(par), NEW context, Typed(context), Growing(context.candidates), EqualWidths(context),
         NEW i \in 2..Len(context.candidates), NEW first \in 1..i - 1, NEW j \in first..i - 1,
         NEW data, \A k \in 1..i - 1 : data[k] \in Data /\ data[k].lineNumber \in 0..i,
         NEW t, Searched(context, data, first, i, j - 1, t)
  PROVE  Searched(context, data, first, i, j, Begin(context, data, t, i, j))
<1> DEFINE line == data[j].lineNumber  u == [t EXCEPT !.lineNumberLast = line]
<1>0. j \in 1..i - 1
  OBVIOUS
<1>1. line \in 0..Len(context.candidates) /\ line \in Nat /\ GetAt(line) = GetAt(0)
  BY <1>0 DEF Typed, EqualWidths
<1>2. t \in Tries /\ t.width = GetAt(0)
  BY DEF Searched
<1>3. AtLine(t, line, IF line # t.lineNumberLast THEN GetAt(line) ELSE t.width, context.candidates[i].postBreak) = u
  BY <1>1, <1>2 DEF AtLine
<1> HIDE DEF line
<1>4. /\ u \in Tries /\ u.width = t.width /\ u.leftEdge = t.leftEdge /\ u.best = t.best
      /\ u.bestPrev = t.bestPrev /\ u.bestHope = t.bestHope /\ u.active = t.active
  BY <1>1, <1>2 DEF Tries
<1> HIDE DEF u
<1>5. Searched(context, data, first, i, j - 1, u)
  BY <1>4 DEF Searched
<1>6. Begin(context, data, t, i, j) = Consider(context, u, i, j, data[j].score)
  BY <1>3 DEF Begin, line
<1>7. CASE data[j].score + u.bestHope >= u.best
  <2>1. Begin(context, data, t, i, j) = u
    BY <1>6, <1>7 DEF Consider
  <2>. QED  BY <1>5, <1>7, <2>1, SearchSkips
<1>8. CASE ~ (data[j].score + u.bestHope >= u.best)
  <2>1. context.candidates[j].preBreak - u.leftEdge = Slack(context, j, i)
    <3>1. u.leftEdge = context.candidates[i].postBreak - GetAt(0)
      BY <1>5 DEF Searched
    <3>2. GetAt(0) \in Int /\ context.candidates[i].postBreak \in Int /\ context.candidates[j].preBreak \in Int
      <4>1. i \in 1..Len(context.candidates) /\ j \in 1..Len(context.candidates)
        BY <1>0 DEF Typed
      <4>2. GetAt(0) \in Int
        BY LimitIsNat
      <4>. QED  BY <4>1, <4>2 DEF Typed
    <3>. QED  BY <3>1, <3>2 DEF Slack
  <2>2. Consider(context, u, i, j, data[j].score) = Weigh(context, u, i, j, data[j].score, Slack(context, j, i))
    BY <1>8, <2>1 DEF Consider
  <2>3. Weigh(context, u, i, j, data[j].score, Slack(context, j, i)) = Tried(context, data, u, i, j)
    BY DEF Weigh, Tried, Stretch, Surcharge, IsLast
  <2>4. Searched(context, data, first, i, j, Tried(context, data, u, i, j))
    BY <1>5, SearchTries
  <2>. QED  BY <1>6, <2>2, <2>3, <2>4
<1>. QED  BY <1>7, <1>8

(* The search for one line, over all candidates it may begin at.           *)
IsTrying(context, s, i, m, f) ==
  f = [j \in s.active - 1..m |->
         IF j = s.active - 1 THEN StartOf(context, s, i) ELSE Begin(context, s.data, f[j - 1], i, j)]

(* The loop over j defines a function.                                     *)
LEMMA TryingExists ==
  ASSUME NEW context, NEW s, s.active - 1 \in Nat, NEW i, NEW n \in Nat, s.active - 1 <= n
  PROVE  \E f : IsTrying(context, s, i, n, f)
<1> DEFINE a == s.active - 1
           bad == {m \in Nat : a <= m /\ ~ \E f : IsTrying(context, s, i, m, f)}
           One(t, j) == Begin(context, s.data, t, i, j)
           first == StartOf(context, s, i)
<1>0. a \in Int /\ a = s.active - 1
  OBVIOUS
<1>00. a \in Nat
  OBVIOUS
<1>1. SUFFICES ASSUME bad # {} PROVE FALSE
  OBVIOUS
<1>2. PICK m \in bad : \A y \in bad : m <= y
  BY <1>1, SmallestExists, bad \in SUBSET Nat
<1>3. m \in Nat /\ a <= m /\ ~ \E f : IsTrying(context, s, i, m, f)
  BY <1>2
<1> HIDE DEF a, One, first
<1>4. CASE m = a
  <2> DEFINE f == [j \in a..a |-> first]
  <2>1. IsTrying(context, s, i, a, f)
    <3>1. \A j \in a..a : j = a
      BY <1>0
    <3>2. f = [j \in a..a |-> IF j = a THEN first ELSE One(f[j - 1], j)]
      BY <3>1
    <3> HIDE DEF f
    <3>. QED  BY <3>2 DEF IsTrying, a, first, One
  <2>. QED  BY <1>3, <1>4, <2>1
<1>5. CASE m # a
  <2>0. m - 1 \in Nat
    BY <1>00, <1>3, <1>5
  <2>1. m - 1 \in Int /\ a <= m - 1
    BY <1>0, <1>3, <1>5
  <2>2. PICK f : IsTrying(context, s, i, m - 1, f)
    <3>1. CASE m - 1 \in Nat
      <4>1. m - 1 \notin bad
        BY <1>2, <1>3
      <4>. QED  BY <3>1, <4>1, <2>1
    <3>. QED  BY <3>1, <2>0
  <2> DEFINE g == [j \in a..m |-> IF j = m THEN One(f[m - 1], m) ELSE f[j]]
  <2>3. \A j \in a..m - 1 : f[j] = IF j = a THEN first ELSE One(f[j - 1], j)
    BY <2>2 DEF IsTrying, a, first, One
  <2>4. \A j \in a..m : g[j] = IF j = a THEN first ELSE One(g[j - 1], j)
    <3>1. \A j \in a..m - 1 : g[j] = f[j]
      BY <1>0, <1>3
    <3>2. g[m] = One(f[m - 1], m) /\ m - 1 \in a..m - 1
      BY <1>0, <1>3, <2>1
    <3>3. \A j \in a..m : j = m \/ (j \in a..m - 1 /\ (j # a => j - 1 \in a..m - 1))
      BY <1>0, <1>3
    <3> HIDE DEF g
    <3>. QED  BY <1>5, <2>3, <3>1, <3>2, <3>3
  <2>5. IsTrying(context, s, i, m, g)
    <3>1. g = [j \in a..m |-> g[j]]
      OBVIOUS
    <3> HIDE DEF g
    <3>. QED  BY <2>4, <3>1 DEF IsTrying, a, first, One
  <2>. QED  BY <1>3, <2>5
<1>. QED  BY <1>4, <1>5

(* After the last j the best start of all candidates is known.             *)
LEMMA SearchEnds ==
  ASSUME IsParagraph(par), NEW context, Typed(context), Growing(context.candidates), EqualWidths(context),
         NEW i \in 2..Len(context.candidates), NEW s, s.active \in 1..i - 1,
         \A k \in 1..i - 1 : s.data[k] \in Data /\ s.data[k].lineNumber \in 0..i
  PROVE  Searched(context, s.data, s.active, i, i - 1, TryAll(context, s, i))
<1> DEFINE a == s.active - 1
           f == CHOOSE f : f = [j \in s.active - 1..i - 1 |->
                  IF j = s.active - 1 THEN StartOf(context, s, i) ELSE Begin(context, s.data, f[j - 1], i, j)]
<1>0. i \in Nat /\ s.active \in Nat /\ a \in Nat /\ i - 1 \in Nat /\ a <= i - 1 /\ a + 1 = s.active
  BY DEF Typed
<1>1. IsTrying(context, s, i, i - 1, f)
  <2>1. \E g : IsTrying(context, s, i, i - 1, g)
    BY <1>0, TryingExists
  <2>. QED  BY <2>1 DEF IsTrying
<1>2. TryAll(context, s, i) = f[i - 1]
  BY DEF TryAll
<1> HIDE DEF f
<1>3. /\ f[a] = StartOf(context, s, i)
      /\ \A j \in a + 1..i - 1 : f[j] = Begin(context, s.data, f[j - 1], i, j)
  <2>1. f = [j \in a..i - 1 |-> IF j = a THEN StartOf(context, s, i) ELSE Begin(context, s.data, f[j - 1], i, j)]
    BY <1>1 DEF IsTrying
  <2>2. a \in a..i - 1 /\ \A j \in a + 1..i - 1 : j \in a..i - 1 /\ j # a
    BY <1>0
  <2> HIDE DEF a
  <2>. QED  BY <2>1, <2>2
<1> DEFINE bad == {j \in a..i - 1 : ~Searched(context, s.data, s.active, i, j, f[j])}
<1>4. bad = {}
  <2>1. SUFFICES ASSUME bad # {} PROVE FALSE
    OBVIOUS
  <2>2. PICK j \in bad : \A y \in bad : j <= y
    <3>1. bad \in SUBSET Nat
      BY <1>0
    <3>. QED  BY <2>1, <3>1, SmallestExists
  <2>3. j \in a..i - 1 /\ ~Searched(context, s.data, s.active, i, j, f[j]) /\ j \in Nat
    BY <1>0, <2>2
  <2>4. CASE j = a
    <3>1. s.data[s.active].lineNumber \in 0..i
      OBVIOUS
    <3>2. Searched(context, s.data, s.active, i, s.active - 1, StartOf(context, s, i))
      BY <3>1, SearchStarts
    <3>. QED  BY <1>3, <2>3, <2>4, <3>2
  <2>5. CASE j # a
    <3>1. j \in a + 1..i - 1 /\ j \in s.active..i - 1 /\ j - 1 \in a..i - 1 /\ j - 1 \notin bad
      BY <1>0, <2>2, <2>3, <2>5
    <3>2. Searched(context, s.data, s.active, i, j - 1, f[j - 1])
      BY <3>1
    <3>3. Searched(context, s.data, s.active, i, j, Begin(context, s.data, f[j - 1], i, j))
      BY <3>1, <3>2, SearchGoesOn
    <3>. QED  BY <1>3, <2>3, <3>1, <3>3
  <2>. QED  BY <2>4, <2>5
<1>5. Searched(context, s.data, s.active, i, i - 1, f[i - 1])
  BY <1>0, <1>4
<1>. QED  BY <1>2, <1>5

-----------------------------------------------------------------------------
(* Penalties are not negative. *)
LEMMA BoundExists ==
  ASSUME NEW n \in Nat, NEW f, \A r \in 1..n : f[r] \in Nat
  PROVE  \E b \in Nat : \A r \in 1..n : f[r] <= b
<1> DEFINE bad == {m \in 0..n : ~ \E b \in Nat : \A r \in 1..m : f[r] <= b}
<1>1. SUFFICES ASSUME bad # {} PROVE FALSE
  <2>1. n \in 0..n
    OBVIOUS
  <2>. QED  BY <2>1
<1>2. PICK m \in bad : \A y \in bad : m <= y
  BY <1>1, SmallestExists, bad \in SUBSET Nat
<1>3. m \in 0..n /\ ~ \E b \in Nat : \A r \in 1..m : f[r] <= b
  BY <1>2
<1>4. CASE m = 0
  BY <1>3, <1>4
<1>5. CASE m # 0
  <2>1. m - 1 \in 0..n /\ m \in 1..n /\ ~ (m <= m - 1)
    BY <1>3, <1>5
  <2>5. m - 1 \notin bad
    BY <1>2, <2>1
  <2>2. PICK b \in Nat : \A r \in 1..m - 1 : f[r] <= b
    BY <2>1, <2>5
  <2>3. f[m] \in Nat
    BY <2>1
  <2>4. PICK c \in Nat : c = b + f[m]
    BY <2>3
  <2>6. \A r \in 1..m : f[r] <= c
    <3> SUFFICES ASSUME NEW r \in 1..m PROVE f[r] <= c
      OBVIOUS
    <3>1. CASE r = m
      BY <2>3, <2>4, <3>1
    <3>2. CASE r # m
      <4>1. r \in 1..m - 1 /\ r \in 1..n
        BY <2>1, <3>2
      <4>2. f[r] <= b /\ f[r] \in Nat
        BY <2>2, <4>1
      <4>. QED  BY <2>3, <2>4, <4>2
    <3>. QED  BY <3>1, <3>2
  <2>. QED  BY <1>3, <2>6
<1>. QED  BY <1>4, <1>5

(* A paragraph has runs, and their sizes are natural numbers.              *)
LEMMA RunsAre ==
  ASSUME IsParagraph(par)
  PROVE  /\ Len(par.runs) \in Nat /\ Len(par.runs) >= 1 /\ DOMAIN par.runs = 1..Len(par.runs)
         /\ \A r \in DOMAIN par.runs :
              /\ par.runs[r].size \in Nat /\ par.runs[r].end \in 1..Size
              /\ par.runs[r].localeListId \in Nat
<1> DEFINE runs == par.runs  Run == [end : 1..Size, canBreak : BOOLEAN, localeListId : Nat, size : Nat]
<1>1. runs \in Seq(Run) /\ runs # << >>
  BY DEF IsParagraph, Size
<1> HIDE DEF runs, Run
<1>2. Len(runs) \in Nat /\ Len(runs) >= 1 /\ DOMAIN runs = 1..Len(runs) /\ \A r \in DOMAIN runs : runs[r] \in Run
  BY <1>1
<1>3. \A r \in DOMAIN runs :
        runs[r].size \in Nat /\ runs[r].end \in 1..Size /\ runs[r].localeListId \in Nat
  BY <1>2 DEF Run
<1>. QED  BY <1>2, <1>3 DEF runs

(* The penalty for a hyphen is a natural number.                           *)
LEMMA HyphenPenaltyIsNat ==
  ASSUME IsParagraph(par), NEW r \in DOMAIN par.runs
  PROVE  HyphenPenalty(r) \in Nat
<1>1. par.runs[r].size \in Nat /\ GetAt(0) \in Nat
  BY RunsAre, LimitIsNat
<1> DEFINE a == par.runs[r].size  b == GetAt(0)  p == 2 * a * b
<1>2. p \in Nat
  <2>1. a \in Nat /\ b \in Nat
    BY <1>1
  <2> HIDE DEF a, b
  <2>. QED  BY <2>1, SMT
<1> HIDE DEF p
<1>3. p * 4 \in Nat /\ p * 1 \in Nat /\ (p * 4) \div 4 \in Nat /\ (p * 4) \div 1 \in Nat
      /\ (p * 1) \div 4 \in Nat /\ (p * 1) \div 1 \in Nat
  BY <1>2
<1>. QED  BY <1>3 DEF HyphenPenalty, p

(* The penalty for a line is a natural number.                             *)
LEMMA LinePenaltyIsNat ==
  ASSUME IsParagraph(par)
  PROVE  LinePenalty \in Nat
<1> DEFINE n == Len(par.runs)  f == [r \in 1..n |-> HyphenPenalty(r)]
           all == {HyphenPenalty(r) : r \in DOMAIN par.runs}
<1>1. n \in Nat /\ n >= 1 /\ DOMAIN par.runs = 1..n
  BY RunsAre
<1>2. \A r \in 1..n : HyphenPenalty(r) \in Nat /\ f[r] = HyphenPenalty(r)
  BY <1>1, HyphenPenaltyIsNat
<1> HIDE DEF n, f
<1>3. PICK b \in Nat : \A r \in 1..n : f[r] <= b
  BY <1>1, <1>2, BoundExists
<1>4. all \in SUBSET (0..b) /\ all # {}
  BY <1>1, <1>2, <1>3
<1>5. Largest(all) \in all
  BY <1>4, LargestExists
<1>6. Largest(all) \in Nat
  BY <1>4, <1>5
<1>. QED  BY <1>6 DEF LinePenalty, LINE_PENALTY_MULTIPLIER

-----------------------------------------------------------------------------
(* The scores are the least for lines that fit but for their last          *)
(* candidate, and they are those of the lines noted with them.             *)
Least(context, data, k) ==
  \A j \in 1..k - 1 : j = k - 1 \/ Slack(context, j, k - 1) >= 0 =>
    data[k].score <= data[j].score + Cost(context, j, k) + EndPenalty(context, k)
Exact(context, data, k) ==
  data[k].score < SCORE_INFTY =>
    data[k].score = data[data[k].prev].score + Cost(context, data[k].prev, k) + EndPenalty(context, k)
ScoreKnown(context, data, k) ==
  /\ data[k] \in Data /\ data[k].lineNumber \in 0..k - 1
  /\ k = 1 => data[k].score = 0
  /\ k # 1 => data[k].prev \in 1..k - 1 /\ Least(context, data, k) /\ Exact(context, data, k)

Known(context, i, s) ==
  /\ s.active \in 1..i /\ s.data \in Seq(Data) /\ Len(s.data) = i
  /\ \A j \in 1..s.active - 1 : Slack(context, j, i) < 0
  /\ \A k \in 1..i : ScoreKnown(context, s.data, k)

(* What is known of a candidate depends on those up to it only. *)
LEMMA SameScore ==
  ASSUME NEW context, NEW k \in Nat, k >= 1, NEW d, NEW e, ScoreKnown(context, d, k), \A j \in 1..k : d[j] = e[j]
  PROVE  ScoreKnown(context, e, k)
<1>1. d[k] = e[k] /\ \A j \in 1..k - 1 : d[j] = e[j]
  OBVIOUS
<1>2. ASSUME k # 1 PROVE e[k].prev \in 1..k - 1 /\ d[e[k].prev] = e[e[k].prev]
  BY <1>1, <1>2 DEF ScoreKnown
<1>. QED  BY <1>1, <1>2 DEF ScoreKnown, Least, Exact

(* The first candidate costs nothing.                                      *)
LEMMA KnownAtFirst ==
  ASSUME NEW context, NEW s, s = [active |-> 1, data |-> <<[score |-> 0, prev |-> 1, lineNumber |-> 0]>>]
  PROVE  Known(context, 1, s)
<1> DEFINE d == [score |-> 0, prev |-> 1, lineNumber |-> 0]
<1>1. d \in Data
  BY DEF Data
<1>2. s.active = 1 /\ s.data = <<d>>
  OBVIOUS
<1>3. d.score = 0 /\ d.lineNumber = 0
  OBVIOUS
<1> HIDE DEF d
<1>4. s.data \in Seq(Data) /\ Len(s.data) = 1 /\ s.data[1] = d
  BY <1>1, <1>2
<1>5. \A k \in 1..1 : ScoreKnown(context, s.data, k)
  <2> SUFFICES ASSUME NEW k \in 1..1 PROVE ScoreKnown(context, s.data, k)
    OBVIOUS
  <2>1. k = 1
    OBVIOUS
  <2>. QED  BY <1>1, <1>3, <1>4, <2>1 DEF ScoreKnown
<1>. QED  BY <1>2, <1>4, <1>5 DEF Known

(* Each turn of the loop over i keeps what is known of the scores.         *)
LEMMA KnownNext ==
  ASSUME IsParagraph(par), NEW context, Typed(context), Growing(context.candidates), EqualWidths(context),
         NEW i \in 2..Len(context.candidates), NEW s, Known(context, i - 1, s)
  PROVE  Known(context, i, End(context, s, i))
<1> DEFINE n == Len(context.candidates)
           t == TryAll(context, s, i)
           d == s.data
           last == [score |-> t.best + context.candidates[i].penalty + LinePenalty, prev |-> t.bestPrev,
                    lineNumber |-> d[t.bestPrev].lineNumber + 1]
           e == Append(d, last)
<1>1. n \in Nat /\ i \in 1..n /\ i - 1 \in 1..n /\ i \in Nat
  BY DEF Typed
<1>2. /\ s.active \in 1..i - 1 /\ d \in Seq(Data) /\ Len(d) = i - 1
      /\ \A k \in 1..i - 1 : d[k] \in Data /\ d[k].lineNumber \in 0..k - 1 /\ d[k].lineNumber \in 0..i
  <2>1. s.active \in 1..i - 1 /\ d \in Seq(Data) /\ Len(d) = i - 1
    BY DEF Known
  <2>2. \A k \in 1..i - 1 : d[k] \in Data /\ d[k].lineNumber \in 0..k - 1
    BY DEF Known, ScoreKnown
  <2>. QED  BY <1>1, <2>1, <2>2
<1>3. Searched(context, d, s.active, i, i - 1, t)
  BY <1>2, SearchEnds
<1>4. End(context, s, i) = [active |-> t.active, data |-> e]
  BY DEF End, Decide
<1> HIDE DEF t, d
<1>5. /\ t \in Tries /\ t.bestPrev \in 1..i - 1 /\ t.best \in Nat /\ t.active \in Nat
  BY <1>3 DEF Searched, Tries
<1>6. EndPenalty(context, i) = context.candidates[i].penalty + LinePenalty /\ EndPenalty(context, i) \in Nat
      /\ context.candidates[i].penalty \in Nat /\ LinePenalty \in Nat
  <2>1. context.candidates[i].penalty \in Nat /\ LinePenalty \in Nat
    BY <1>1, LinePenaltyIsNat DEF Typed
  <2>. QED  BY <2>1 DEF EndPenalty
<1>7. /\ last.score = t.best + EndPenalty(context, i) /\ last.prev = t.bestPrev
      /\ last.lineNumber \in 0..i - 1 /\ last \in Data
  <2>1. d[t.bestPrev].lineNumber \in 0..i - 2
    BY <1>1, <1>2, <1>5
  <2>2. last.score = t.best + EndPenalty(context, i) /\ last.score \in Nat /\ last.prev = t.bestPrev
    BY <1>5, <1>6
  <2>3. last.lineNumber \in 0..i - 1 /\ last.lineNumber \in Nat
    BY <1>1, <2>1
  <2>4. last = [score |-> last.score, prev |-> last.prev, lineNumber |-> last.lineNumber]
    OBVIOUS
  <2> HIDE DEF last
  <2>5. last.prev \in Nat
    BY <1>5, <2>2
  <2>6. last \in Data
    BY <2>2, <2>3, <2>4, <2>5 DEF Data
  <2>. QED  BY <2>2, <2>3, <2>6
<1> HIDE DEF last
<1>8. e \in Seq(Data) /\ Len(e) = i /\ e[i] = last /\ \A k \in 1..i - 1 : e[k] = d[k]
  BY <1>1, <1>2, <1>7
<1> HIDE DEF e
<1>9. \A k \in 1..i - 1 : ScoreKnown(context, e, k)
  <2> SUFFICES ASSUME NEW k \in 1..i - 1 PROVE ScoreKnown(context, e, k)
    OBVIOUS
  <2>1. ScoreKnown(context, d, k)
    BY DEF Known, d
  <2>2. \A j \in 1..k : d[j] = e[j]
    BY <1>1, <1>8
  <2>3. k \in Nat /\ k >= 1
    BY <1>1
  <2>. QED  BY <2>1, <2>2, <2>3, SameScore
<1>10. Least(context, e, i)
  <2> SUFFICES ASSUME NEW j \in 1..i - 1, j = i - 1 \/ Slack(context, j, i - 1) >= 0
               PROVE  e[i].score <= e[j].score + Cost(context, j, i) + EndPenalty(context, i)
    BY DEF Least
  <2>1. j \in s.active..i - 1
    <3>1. CASE j = i - 1
      BY <1>1, <1>2, <3>1
    <3>2. CASE Slack(context, j, i - 1) >= 0
      <4>1. Slack(context, j, i - 1) \in Int
        BY <1>1, CostFacts
      <4>2. j \notin 1..s.active - 1
        BY <3>2, <4>1 DEF Known
      <4>. QED  BY <1>1, <1>2, <4>2
    <3>. QED  BY <3>1, <3>2
  <2>2. t.best <= d[j].score + Cost(context, j, i)
    BY <1>3, <2>1 DEF Searched
  <2>3. d[j].score \in Nat /\ Cost(context, j, i) \in Nat
    <3>1. j \in 1..n
      BY <1>1
    <3>2. Cost(context, j, i) \in Nat
      BY <1>1, <3>1, CostFacts
    <3>. QED  BY <1>2, <3>2 DEF Data
  <2>4. e[i].score = t.best + EndPenalty(context, i) /\ e[j] = d[j]
    BY <1>7, <1>8
  <2>5. PICK x \in Nat, y \in Nat : x = d[j].score /\ y = Cost(context, j, i)
    BY <2>3
  <2>6. t.best <= x + y
    BY <2>2, <2>5
  <2>7. e[i].score <= x + y + EndPenalty(context, i)
    BY <1>5, <1>6, <2>4, <2>6
  <2>. QED  BY <2>4, <2>5, <2>7
<1>11. Exact(context, e, i)
  <2> SUFFICES ASSUME e[i].score < SCORE_INFTY
               PROVE  e[i].score = e[e[i].prev].score + Cost(context, e[i].prev, i) + EndPenalty(context, i)
    BY DEF Exact
  <2>1. t.best < SCORE_INFTY
    BY <1>5, <1>6, <1>7, <1>8, ScoresAssumption
  <2>2. t.best = d[t.bestPrev].score + Cost(context, t.bestPrev, i)
    BY <1>3, <2>1 DEF Searched
  <2>3. e[i].prev = t.bestPrev /\ e[t.bestPrev] = d[t.bestPrev]
    BY <1>5, <1>7, <1>8
  <2>. QED  BY <1>7, <1>8, <2>2, <2>3
<1>12. ScoreKnown(context, e, i)
  <2>1. e[i].prev \in 1..i - 1
    BY <1>5, <1>7, <1>8
  <2>2. i # 1
    BY <1>1
  <2>. QED  BY <1>7, <1>8, <1>10, <1>11, <2>1, <2>2 DEF ScoreKnown
<1>13. \A k \in 1..i : ScoreKnown(context, e, k)
  <2>1. \A k \in 1..i : k \in 1..i - 1 \/ k = i
    BY <1>1
  <2>. QED  BY <1>9, <1>12, <2>1
<1>14. t.active \in 1..i /\ \A j \in 1..t.active - 1 : Slack(context, j, i) < 0
  <2>1. CASE t.active = s.active
    <3> SUFFICES ASSUME NEW j \in 1..t.active - 1 PROVE Slack(context, j, i) < 0
      BY <1>1, <1>2, <2>1
    <3>1. j \in 1..n /\ j \in 1..s.active - 1
      BY <1>1, <1>2, <2>1
    <3>2. Slack(context, j, i - 1) < 0
      BY <3>1 DEF Known
    <3>3. Slack(context, j, i) <= Slack(context, j, i - 1)
      <4>1. i - 1 <= i
        BY <1>1
      <4>. QED  BY <1>1, <3>1, <4>1, SlackGrows
    <3>4. Slack(context, j, i) \in Int /\ Slack(context, j, i - 1) \in Int
      BY <1>1, <3>1, CostFacts
    <3>. QED  BY <3>2, <3>3, <3>4
  <2>2. CASE \E k \in s.active..i - 1 : Slack(context, k, i) < 0 /\ t.active = k + 1
    <3>1. PICK k \in s.active..i - 1 : Slack(context, k, i) < 0 /\ t.active = k + 1
      BY <2>2
    <3>2. k \in 1..n /\ t.active \in 1..i
      BY <1>1, <1>2, <3>1
    <3>3. ASSUME NEW j \in 1..t.active - 1 PROVE Slack(context, j, i) < 0
      <4>1. j \in 1..n /\ j <= k
        BY <1>1, <3>1, <3>2
      <4>2. Slack(context, j, i) <= Slack(context, k, i)
        BY <1>1, <3>2, <4>1, SlackGrows
      <4>3. Slack(context, j, i) \in Int /\ Slack(context, k, i) \in Int
        BY <1>1, <3>2, <4>1, CostFacts
      <4>. QED  BY <3>1, <4>2, <4>3
    <3>. QED  BY <3>2, <3>3
  <2>. QED  BY <1>3, <2>1, <2>2 DEF Searched
<1>15. Known(context, i, [active |-> t.active, data |-> e])
  BY <1>8, <1>13, <1>14 DEF Known
<1>. QED  BY <1>4, <1>15

(* The first state of the loop over i, and its states up to candidate n.   *)
FirstScores == [active |-> 1, data |-> <<[score |-> 0, prev |-> 1, lineNumber |-> 0]>>]
IsComputing(context, n, f) ==
  f = [i \in 1..n |-> IF i = 1 THEN FirstScores ELSE End(context, f[i - 1], i)]

(* The loop over i defines a function.                                     *)
LEMMA ComputingExists ==
  ASSUME NEW context, NEW n \in Nat, n >= 1
  PROVE  \E f : IsComputing(context, n, f)
<1> DEFINE bad == {m \in Nat : m >= 1 /\ ~ \E f : IsComputing(context, m, f)}
           One(t, j) == End(context, t, j)
<1>1. SUFFICES ASSUME bad # {} PROVE FALSE
  OBVIOUS
<1>2. PICK m \in bad : \A y \in bad : m <= y
  BY <1>1, SmallestExists, bad \in SUBSET Nat
<1>3. m \in Nat /\ m >= 1 /\ ~ \E f : IsComputing(context, m, f)
  BY <1>2
<1> HIDE DEF One
<1>4. CASE m = 1
  <2> DEFINE f == [j \in 1..1 |-> FirstScores]
  <2>1. IsComputing(context, 1, f)
    <3>1. f = [j \in 1..1 |-> IF j = 1 THEN FirstScores ELSE One(f[j - 1], j)]
      <4>1. \A j \in 1..1 : j = 1
        OBVIOUS
      <4> HIDE DEF FirstScores
      <4>. QED  BY <4>1
    <3> HIDE DEF f
    <3>. QED  BY <3>1 DEF IsComputing, One
  <2>. QED  BY <1>3, <1>4, <2>1
<1>5. CASE m # 1
  <2>1. m - 1 \in Nat /\ m - 1 >= 1 /\ ~ (m <= m - 1)
    BY <1>3, <1>5
  <2>2. PICK f : IsComputing(context, m - 1, f)
    <3>1. m - 1 \notin bad
      BY <1>2, <2>1
    <3>. QED  BY <2>1, <3>1
  <2> DEFINE g == [j \in 1..m |-> IF j = m THEN One(f[m - 1], m) ELSE f[j]]
  <2>3. \A j \in 1..m - 1 : f[j] = IF j = 1 THEN FirstScores ELSE One(f[j - 1], j)
    BY <2>2 DEF IsComputing, One
  <2>4. \A j \in 1..m : g[j] = IF j = 1 THEN FirstScores ELSE One(g[j - 1], j)
    <3>1. \A j \in 1..m - 1 : g[j] = f[j]
      BY <1>3
    <3>2. g[m] = One(f[m - 1], m) /\ m - 1 \in 1..m - 1
      BY <1>3, <2>1
    <3>3. \A j \in 1..m : j = m \/ (j \in 1..m - 1 /\ (j # 1 => j - 1 \in 1..m - 1))
      BY <1>3
    <3> HIDE DEF g, FirstScores
    <3>. QED  BY <1>5, <2>3, <3>1, <3>2, <3>3
  <2>5. IsComputing(context, m, g)
    <3>1. g = [j \in 1..m |-> g[j]]
      OBVIOUS
    <3> HIDE DEF g, FirstScores
    <3>. QED  BY <2>4, <3>1 DEF IsComputing, One
  <2>. QED  BY <1>3, <2>5
<1>. QED  BY <1>4, <1>5

(* When computeBreaks ends, what is noted of every candidate is known.     *)
LEMMA ScoresAreLeast ==
  ASSUME IsParagraph(par), NEW context, Typed(context), Growing(context.candidates), EqualWidths(context)
  PROVE  /\ Len(ComputeBreaks(context)) = Len(context.candidates)
         /\ \A k \in 1..Len(context.candidates) : ScoreKnown(context, ComputeBreaks(context), k)
<1> DEFINE n == Len(context.candidates)
           f == CHOOSE f : f = [i \in 1..n |->
                  IF i = 1 THEN [active |-> 1, data |-> <<[score |-> 0, prev |-> 1, lineNumber |-> 0]>>]
                  ELSE End(context, f[i - 1], i)]
<1>0. n \in Nat /\ n >= 1
  BY DEF Typed
<1>1. IsComputing(context, n, f)
  <2>1. \E g : IsComputing(context, n, g)
    BY <1>0, ComputingExists
  <2>. QED  BY <2>1 DEF IsComputing, FirstScores
<1>2. ComputeBreaks(context) = f[n].data
  BY DEF ComputeBreaks
<1> HIDE DEF f
<1>3. /\ f[1] = FirstScores
      /\ \A i \in 2..n : f[i] = End(context, f[i - 1], i)
  <2>1. \A i \in 1..n : f[i] = IF i = 1 THEN FirstScores ELSE End(context, f[i - 1], i)
    BY <1>1 DEF IsComputing
  <2>2. 1 \in 1..n /\ \A i \in 2..n : i \in 1..n /\ i # 1
    BY <1>0
  <2> HIDE DEF n, FirstScores
  <2>. QED  BY <2>1, <2>2
<1> DEFINE bad == {i \in 1..n : ~Known(context, i, f[i])}
<1>4. bad = {}
  <2>1. SUFFICES ASSUME bad # {} PROVE FALSE
    OBVIOUS
  <2>2. PICK i \in bad : \A y \in bad : i <= y
    BY <2>1, SmallestExists, bad \in SUBSET Nat
  <2>3. i \in 1..n /\ ~Known(context, i, f[i])
    BY <2>2
  <2>4. CASE i = 1
    BY <1>3, <2>3, <2>4, KnownAtFirst DEF FirstScores
  <2>5. CASE i # 1
    <3>1. i \in 2..n /\ i - 1 \in 1..n /\ ~ (i <= i - 1)
      BY <1>0, <2>3, <2>5
    <3>2. Known(context, i - 1, f[i - 1])
      BY <2>2, <3>1
    <3>3. Known(context, i, End(context, f[i - 1], i))
      BY <3>1, <3>2, KnownNext
    <3>. QED  BY <1>3, <2>3, <3>1, <3>3
  <2>. QED  BY <2>4, <2>5
<1>5. Known(context, n, f[n])
  BY <1>0, <1>4
<1>. QED  BY <1>2, <1>5 DEF Known

-----------------------------------------------------------------------------
(* The score of a way to break, line by line. *)
IsScore(context, path, n, f) ==
  f = [k \in 0..n |-> IF k = 0 THEN 0 ELSE f[k - 1] + LineScore(context, k - 1, From(path, k), path[k])]

(* The score of a way to break defines a function of its lines.            *)
LEMMA ScoreExists ==
  ASSUME NEW context, NEW path, NEW n \in Nat
  PROVE  \E f : IsScore(context, path, n, f)
<1> DEFINE bad == {m \in Nat : ~ \E f : IsScore(context, path, m, f)}
           L(k) == LineScore(context, k - 1, From(path, k), path[k])
<1>1. SUFFICES ASSUME bad # {} PROVE FALSE
  OBVIOUS
<1>2. PICK m \in bad : \A y \in bad : m <= y
  BY <1>1, SmallestExists, bad \in SUBSET Nat
<1>3. m \in Nat /\ ~ \E f : IsScore(context, path, m, f)
  BY <1>2
<1> HIDE DEF L
<1>4. CASE m = 0
  <2> DEFINE f == [k \in 0..0 |-> 0]
  <2>1. f = [k \in 0..0 |-> IF k = 0 THEN 0 ELSE f[k - 1] + L(k)]
    OBVIOUS
  <2> HIDE DEF f
  <2>2. IsScore(context, path, 0, f)
    BY <2>1 DEF IsScore, L
  <2>. QED  BY <1>3, <1>4, <2>2
<1>5. CASE m # 0
  <2>1. m - 1 \in Nat /\ ~ (m <= m - 1)
    BY <1>3, <1>5
  <2>2. PICK f : IsScore(context, path, m - 1, f)
    <3>1. m - 1 \notin bad
      BY <1>2, <2>1
    <3>. QED  BY <2>1, <3>1
  <2> DEFINE g == [k \in 0..m |-> IF k = m THEN f[m - 1] + L(m) ELSE f[k]]
  <2>3. \A k \in 0..m - 1 : f[k] = IF k = 0 THEN 0 ELSE f[k - 1] + L(k)
    BY <2>2 DEF IsScore, L
  <2>4. \A k \in 0..m : g[k] = IF k = 0 THEN 0 ELSE g[k - 1] + L(k)
    <3>1. \A k \in 0..m - 1 : g[k] = f[k]
      BY <1>3
    <3>2. g[m] = f[m - 1] + L(m) /\ m - 1 \in 0..m - 1
      BY <1>3, <2>1
    <3>3. \A k \in 0..m : k = m \/ (k \in 0..m - 1 /\ (k # 0 => k - 1 \in 0..m - 1))
      BY <1>3
    <3> HIDE DEF g
    <3>. QED  BY <1>5, <2>3, <3>1, <3>2, <3>3
  <2>5. IsScore(context, path, m, g)
    <3>1. g = [k \in 0..m |-> g[k]]
      OBVIOUS
    <3> HIDE DEF g
    <3>. QED  BY <2>4, <3>1 DEF IsScore, L
  <2>. QED  BY <1>3, <2>5
<1>. QED  BY <1>4, <1>5

(* The score of a way to break is that of all of its lines.                *)
LEMMA ScoreFrom ==
  ASSUME NEW context, NEW path, Len(path) \in Nat
  PROVE  \E f : IsScore(context, path, Len(path), f) /\ Score(context, path) = f[Len(path)]
<1> DEFINE n == Len(path)
           f == CHOOSE f : f = [k \in 0..n |->
                  IF k = 0 THEN 0 ELSE f[k - 1] + LineScore(context, k - 1, From(path, k), path[k])]
<1>1. IsScore(context, path, n, f)
  <2>1. \E g : IsScore(context, path, n, g)
    BY ScoreExists
  <2>. QED  BY <2>1 DEF IsScore
<1>2. Score(context, path) = f[n]
  BY DEF Score
<1> HIDE DEF f
<1>. QED  BY <1>1, <1>2

(* Two ways that begin alike have the same score so far. *)
LEMMA ScoresAgree ==
  ASSUME NEW context, NEW p, NEW q, NEW m \in Nat, NEW n \in Nat, m <= n,
         \A k \in 1..m : p[k] = q[k],
         NEW f, NEW g, IsScore(context, p, m, f), IsScore(context, q, n, g)
  PROVE  f[m] = g[m]
<1> DEFINE L(path, k) == LineScore(context, k - 1, From(path, k), path[k])
           bad == {k \in 0..m : f[k] # g[k]}
<1>1. \A k \in 1..m : L(p, k) = L(q, k)
  <2> SUFFICES ASSUME NEW k \in 1..m PROVE L(p, k) = L(q, k)
    OBVIOUS
  <2>1. p[k] = q[k] /\ (k # 1 => p[k - 1] = q[k - 1])
    OBVIOUS
  <2>. QED  BY <2>1 DEF From
<1>2. \A k \in 0..m : f[k] = IF k = 0 THEN 0 ELSE f[k - 1] + L(p, k)
  BY DEF IsScore
<1>3. \A k \in 0..m : g[k] = IF k = 0 THEN 0 ELSE g[k - 1] + L(q, k)
  <2>1. \A k \in 0..n : g[k] = IF k = 0 THEN 0 ELSE g[k - 1] + L(q, k)
    BY DEF IsScore
  <2>2. 0..m \subseteq 0..n
    OBVIOUS
  <2> HIDE DEF L
  <2>. QED  BY <2>1, <2>2
<1> HIDE DEF L
<1>4. bad = {}
  <2>1. SUFFICES ASSUME bad # {} PROVE FALSE
    OBVIOUS
  <2>2. PICK k \in bad : \A y \in bad : k <= y
    BY <2>1, SmallestExists, bad \in SUBSET Nat
  <2>3. k \in 0..m /\ f[k] # g[k]
    BY <2>2
  <2>4. CASE k = 0
    BY <1>2, <1>3, <2>3, <2>4
  <2>5. CASE k # 0
    <3>1. k \in 1..m /\ k - 1 \in 0..m /\ ~ (k <= k - 1)
      BY <2>3, <2>5
    <3>2. f[k - 1] = g[k - 1]
      BY <2>2, <3>1
    <3>. QED  BY <1>1, <1>2, <1>3, <2>3, <2>5, <3>1, <3>2
  <2>. QED  BY <2>4, <2>5
<1>5. m \in 0..m
  OBVIOUS
<1>. QED  BY <1>4, <1>5

(* One line more. *)
LEMMA ScoreOfMore ==
  ASSUME NEW context, NEW m \in Nat, NEW p \in Seq(Int), Len(p) = m, NEW i \in Int
  PROVE  Score(context, Append(p, i)) =
           Score(context, p) + LineScore(context, m, IF m = 0 THEN 1 ELSE p[m], i)
<1> DEFINE q == Append(p, i)
<1>1. Len(q) = m + 1 /\ q[m + 1] = i /\ \A k \in 1..m : p[k] = q[k]
  OBVIOUS
<1> HIDE DEF q
<1>2. PICK f : IsScore(context, p, m, f) /\ Score(context, p) = f[m]
  BY ScoreFrom
<1>3. PICK g : IsScore(context, q, m + 1, g) /\ Score(context, q) = g[m + 1]
  <2>1. Len(q) \in Nat
    BY <1>1
  <2>. QED  BY <1>1, <2>1, ScoreFrom
<1>4. f[m] = g[m]
  <2>1. m <= m + 1 /\ m + 1 \in Nat
    OBVIOUS
  <2>. QED  BY <1>1, <1>2, <1>3, <2>1, ScoresAgree
<1>5. g[m + 1] = g[m] + LineScore(context, m, From(q, m + 1), q[m + 1])
  <2>1. m + 1 \in 0..m + 1 /\ m + 1 # 0 /\ m + 1 - 1 = m
    OBVIOUS
  <2>. QED  BY <1>3, <2>1 DEF IsScore
<1>6. From(q, m + 1) = IF m = 0 THEN 1 ELSE p[m]
  <2>1. m + 1 = 1 <=> m = 0
    OBVIOUS
  <2>2. m + 1 - 1 = m /\ (m # 0 => q[m] = p[m])
    BY <1>1
  <2>. QED  BY <2>1, <2>2 DEF From
<1>. QED  BY <1>1, <1>2, <1>3, <1>4, <1>5, <1>6 DEF q

(* The score of a line, where lines have one width, is that of its ends.   *)
LEMMA LineScoreIs ==
  ASSUME IsParagraph(par), NEW context, Typed(context), EqualWidths(context),
         NEW line \in 0..Len(context.candidates),
         NEW j \in 1..Len(context.candidates), NEW i \in 1..Len(context.candidates)
  PROVE  /\ DeltaOf(context, line, j, i) = Slack(context, j, i)
         /\ LineScore(context, line, j, i) = Cost(context, j, i) + EndPenalty(context, i)
         /\ LineScore(context, line, j, i) \in Nat
<1>1. DeltaOf(context, line, j, i) = Slack(context, j, i)
  BY DEF EqualWidths, DeltaOf, Slack
<1>2. LineScore(context, line, j, i) =
        Stretch(context, j, i) + context.candidates[i].penalty + LinePenalty + Surcharge(context, j, i)
  BY <1>1 DEF LineScore, WidthScoreOf, Stretch, Surcharge
<1>3. Stretch(context, j, i) \in Nat /\ Surcharge(context, j, i) \in Nat
  BY CostFacts
<1>4. context.candidates[i].penalty \in Nat /\ LinePenalty \in Nat
  BY LinePenaltyIsNat DEF Typed
<1>5. LineScore(context, line, j, i) = Cost(context, j, i) + EndPenalty(context, i)
  BY <1>2, <1>3, <1>4 DEF Cost, EndPenalty
<1>6. LineScore(context, line, j, i) \in Nat
  BY <1>2, <1>3, <1>4
<1>. QED  BY <1>1, <1>5, <1>6

(* The way that the links make, back from a candidate.                     *)
IsTraced(data, n, f) ==
  f = [i \in 1..n |-> IF i = 1 THEN << >> ELSE Append(f[data[i].prev], i)]

(* Following the links back defines a function, as they go back.           *)
LEMMA TracedExists ==
  ASSUME NEW n \in Nat, NEW data, \A i \in 2..n : data[i].prev \in 1..i - 1
  PROVE  \E f : IsTraced(data, n, f)
<1> DEFINE bad == {m \in 0..n : ~ \E f : IsTraced(data, m, f)}
<1>1. SUFFICES ASSUME bad # {} PROVE FALSE
  <2>1. n \in 0..n
    OBVIOUS
  <2>. QED  BY <2>1
<1>2. PICK m \in bad : \A y \in bad : m <= y
  BY <1>1, SmallestExists, bad \in SUBSET Nat
<1>3. m \in 0..n /\ ~ \E f : IsTraced(data, m, f)
  BY <1>2
<1>4. CASE m = 0
  <2> DEFINE f == [i \in 1..0 |-> << >>]
  <2>1. f = [i \in 1..0 |-> IF i = 1 THEN << >> ELSE Append(f[data[i].prev], i)]
    <3>1. 1..0 = {}
      OBVIOUS
    <3>. QED  BY <3>1
  <2> HIDE DEF f
  <2>2. IsTraced(data, 0, f)
    BY <2>1 DEF IsTraced
  <2>. QED  BY <1>3, <1>4, <2>2
<1>5. CASE m # 0
  <2>1. m - 1 \in 0..n /\ ~ (m <= m - 1) /\ m \in Nat
    BY <1>3, <1>5
  <2>2. PICK f : IsTraced(data, m - 1, f)
    <3>1. m - 1 \notin bad
      BY <1>2, <2>1
    <3>. QED  BY <2>1, <3>1
  <2> DEFINE One(h, i) == IF i = 1 THEN << >> ELSE Append(h[data[i].prev], i)
             g == [i \in 1..m |-> IF i = m THEN One(f, m) ELSE f[i]]
  <2>3. \A i \in 1..m - 1 : f[i] = One(f, i)
    BY <2>2 DEF IsTraced
  <2>4. \A i \in 1..m : One(g, i) = One(f, i)
    <3> SUFFICES ASSUME NEW i \in 1..m PROVE One(g, i) = One(f, i)
      OBVIOUS
    <3>1. CASE i = 1
      BY <3>1
    <3>2. CASE i # 1
      <4>1. i \in 2..n
        BY <1>3, <3>2
      <4>2. data[i].prev \in 1..i - 1
        BY <4>1
      <4>3. data[i].prev \in 1..m /\ data[i].prev # m
        BY <4>2
      <4>4. g[data[i].prev] = f[data[i].prev]
        BY <4>3
      <4> HIDE DEF g
      <4>. QED  BY <4>4
    <3>. QED  BY <3>1, <3>2
  <2>5. \A i \in 1..m : g[i] = One(f, i)
    <3>1. \A i \in 1..m : i = m \/ i \in 1..m - 1
      BY <1>3
    <3> HIDE DEF One
    <3>. QED  BY <2>3, <3>1
  <2>6. IsTraced(data, m, g)
    <3>1. g = [i \in 1..m |-> g[i]]
      OBVIOUS
    <3>2. \A i \in 1..m : g[i] = One(g, i)
      BY <2>4, <2>5
    <3> HIDE DEF g
    <3>. QED  BY <3>1, <3>2 DEF IsTraced
  <2>. QED  BY <1>3, <2>6
<1>. QED  BY <1>4, <1>5

(* The way to a candidate has the score that is noted with it.             *)
Traced(context, data, i, p) ==
  /\ p \in Seq(Int) /\ Len(p) <= i - 1
  /\ IF i = 1 THEN Len(p) = 0 ELSE Len(p) >= 1 /\ p[Len(p)] = i
  /\ data[i].score < SCORE_INFTY => Score(context, p) = data[i].score

(* One line more, to the candidate whose link is followed.                 *)
LEMMA TracedMore ==
  ASSUME IsParagraph(par), NEW context, Typed(context), EqualWidths(context),
         NEW data, NEW i \in 2..Len(context.candidates),
         \A k \in 1..Len(context.candidates) : ScoreKnown(context, data, k),
         NEW p, Traced(context, data, data[i].prev, p)
  PROVE  Traced(context, data, i, Append(p, i))
<1> DEFINE n == Len(context.candidates)  j == data[i].prev
<1>1. n \in Nat /\ i \in 1..n /\ i # 1 /\ i \in Nat
  BY DEF Typed
<1>2. j \in 1..i - 1 /\ j \in 1..n
  <2>1. j \in 1..i - 1
    BY <1>1 DEF ScoreKnown
  <2>. QED  BY <1>1, <2>1
<1>3. p \in Seq(Int) /\ Len(p) <= j - 1 /\ (IF j = 1 THEN Len(p) = 0 ELSE Len(p) >= 1 /\ p[Len(p)] = j)
  BY DEF Traced
<1>4. PICK m \in Nat : m = Len(p)
  BY <1>3
<1>5. (IF m = 0 THEN 1 ELSE p[m]) = j /\ m \in 0..n /\ m <= i - 2
  BY <1>1, <1>2, <1>3, <1>4
<1>6. data[i].score < SCORE_INFTY => Score(context, Append(p, i)) = data[i].score
  <2> SUFFICES ASSUME data[i].score < SCORE_INFTY PROVE Score(context, Append(p, i)) = data[i].score
    OBVIOUS
  <2>1. data[i].score = data[j].score + Cost(context, j, i) + EndPenalty(context, i)
    BY <1>1 DEF ScoreKnown, Exact
  <2>2. LineScore(context, m, j, i) = Cost(context, j, i) + EndPenalty(context, i)
        /\ LineScore(context, m, j, i) \in Nat
    BY <1>1, <1>2, <1>5, LineScoreIs
  <2>3. data[j].score \in Nat /\ data[i].score \in Nat
    BY <1>1, <1>2 DEF ScoreKnown, Data
  <2>4. Cost(context, j, i) \in Nat /\ EndPenalty(context, i) \in Nat
    <3>1. Cost(context, j, i) \in Nat
      BY <1>1, <1>2, CostFacts
    <3>2. EndPenalty(context, i) \in Nat
      BY <1>1, LinePenaltyIsNat DEF EndPenalty, Typed
    <3>. QED  BY <3>1, <3>2
  <2>5. data[j].score < SCORE_INFTY
    BY <2>1, <2>3, <2>4, ScoresAssumption
  <2>6. Score(context, p) = data[j].score
    BY <2>5 DEF Traced
  <2>7. Score(context, Append(p, i)) = Score(context, p) + LineScore(context, m, IF m = 0 THEN 1 ELSE p[m], i)
    BY <1>1, <1>3, <1>4, ScoreOfMore
  <2>8. Score(context, Append(p, i)) = data[j].score + LineScore(context, m, j, i)
    BY <1>5, <2>6, <2>7
  <2>. QED  BY <2>1, <2>2, <2>3, <2>4, <2>8
<1>7. Append(p, i) \in Seq(Int) /\ Len(Append(p, i)) = m + 1 /\ Append(p, i)[m + 1] = i
  BY <1>1, <1>3, <1>4
<1>. QED  BY <1>1, <1>5, <1>6, <1>7 DEF Traced

(* The breaks that are chosen have the score noted for the last one.       *)
LEMMA ChosenHasItsScore ==
  ASSUME IsParagraph(par), NEW context, Typed(context), EqualWidths(context), NEW data,
         Len(data) = Len(context.candidates),
         \A k \in 1..Len(context.candidates) : ScoreKnown(context, data, k)
  PROVE  data[Len(context.candidates)].score < SCORE_INFTY =>
           Score(context, Chosen(data)) = data[Len(context.candidates)].score
<1>1. PICK n \in Nat : n = Len(context.candidates) /\ n >= 1
  BY DEF Typed
<1> DEFINE f == CHOOSE f : f = [i \in 1..n |-> IF i = 1 THEN << >> ELSE Append(f[data[i].prev], i)]
<1>2. \A i \in 2..n : data[i].prev \in 1..i - 1
  <2>1. \A i \in 2..n : i \in 1..n /\ i # 1
    OBVIOUS
  <2>. QED  BY <1>1, <2>1 DEF ScoreKnown
<1>3. IsTraced(data, n, f)
  <2>1. \E g : IsTraced(data, n, g)
    BY <1>2, TracedExists
  <2>. QED  BY <2>1 DEF IsTraced
<1>4. Chosen(data) = f[n]
  BY <1>1 DEF Chosen
<1> HIDE DEF f
<1>5. \A i \in 1..n : f[i] = IF i = 1 THEN << >> ELSE Append(f[data[i].prev], i)
  BY <1>3 DEF IsTraced
<1> DEFINE bad == {i \in 1..n : ~Traced(context, data, i, f[i])}
<1>6. bad = {}
  <2>1. SUFFICES ASSUME bad # {} PROVE FALSE
    OBVIOUS
  <2>2. PICK i \in bad : \A y \in bad : i <= y
    BY <2>1, SmallestExists, bad \in SUBSET Nat
  <2>3. i \in 1..n /\ ~Traced(context, data, i, f[i])
    BY <2>2
  <2>4. CASE i = 1
    <3>1. f[i] = << >> /\ data[i].score = 0
      BY <1>1, <1>5, <2>3, <2>4 DEF ScoreKnown
    <3>2. Score(context, << >>) = 0
      <4>1. Len(<< >>) = 0
        OBVIOUS
      <4>2. PICK g : IsScore(context, << >>, 0, g) /\ Score(context, << >>) = g[0]
        BY <4>1, ScoreFrom
      <4>. QED  BY <4>2 DEF IsScore
    <3>3. f[i] \in Seq(Int) /\ Len(f[i]) = 0
      BY <3>1
    <3>. QED  BY <2>3, <2>4, <3>1, <3>2, <3>3 DEF Traced
  <2>5. CASE i # 1
    <3>1. i \in 2..n
      BY <2>3, <2>5
    <3>2. data[i].prev \in 1..i - 1
      BY <1>2, <3>1
    <3>3. data[i].prev \in 1..n /\ ~ (i <= data[i].prev)
      BY <2>3, <3>2
    <3>4. Traced(context, data, data[i].prev, f[data[i].prev])
      BY <2>2, <3>3
    <3>5. Traced(context, data, i, Append(f[data[i].prev], i))
      BY <1>1, <3>1, <3>4, TracedMore
    <3>. QED  BY <1>5, <2>3, <2>5, <3>5
  <2>. QED  BY <2>4, <2>5
<1>7. Traced(context, data, n, f[n])
  BY <1>1, <1>6
<1>. QED  BY <1>1, <1>4, <1>7 DEF Traced

-----------------------------------------------------------------------------
(* The members of a set in order. *)
IsAscending(set, a, m, f) ==
  f = [k \in a - 1..m |-> IF k = a - 1 THEN << >> ELSE IF k \in set THEN Append(f[k - 1], k) ELSE f[k - 1]]

(* Collecting the members of a set in order defines a function.            *)
LEMMA AscendingExists ==
  ASSUME NEW set, NEW a \in Nat, a >= 1, NEW n \in Nat, a - 1 <= n
  PROVE  \E f : IsAscending(set, a, n, f)
<1> DEFINE z == a - 1
           bad == {m \in Nat : z <= m /\ ~ \E f : IsAscending(set, a, m, f)}
           One(t, k) == IF k \in set THEN Append(t, k) ELSE t
<1>0. z \in Nat
  OBVIOUS
<1>1. SUFFICES ASSUME bad # {} PROVE FALSE
  OBVIOUS
<1>2. PICK m \in bad : \A y \in bad : m <= y
  BY <1>1, SmallestExists, bad \in SUBSET Nat
<1>3. m \in Nat /\ z <= m /\ ~ \E f : IsAscending(set, a, m, f)
  BY <1>2
<1> HIDE DEF One
<1>4. CASE m = z
  <2> DEFINE f == [k \in z..z |-> << >>]
  <2>1. \A k \in z..z : k = z
    BY <1>0
  <2>2. f = [k \in z..z |-> IF k = z THEN << >> ELSE One(f[k - 1], k)]
    BY <2>1
  <2> HIDE DEF f
  <2>3. IsAscending(set, a, z, f)
    BY <2>2 DEF IsAscending, One
  <2>. QED  BY <1>3, <1>4, <2>3
<1>5. CASE m # z
  <2>1. m - 1 \in Nat /\ z <= m - 1 /\ ~ (m <= m - 1)
    BY <1>0, <1>3, <1>5
  <2>2. PICK f : IsAscending(set, a, m - 1, f)
    <3>1. m - 1 \notin bad
      BY <1>2, <2>1
    <3>. QED  BY <2>1, <3>1
  <2> DEFINE g == [k \in z..m |-> IF k = m THEN One(f[m - 1], m) ELSE f[k]]
  <2>3. \A k \in z..m - 1 : f[k] = IF k = z THEN << >> ELSE One(f[k - 1], k)
    BY <2>2 DEF IsAscending, One
  <2>4. \A k \in z..m : g[k] = IF k = z THEN << >> ELSE One(g[k - 1], k)
    <3>1. \A k \in z..m - 1 : g[k] = f[k]
      BY <1>0, <1>3
    <3>2. g[m] = One(f[m - 1], m) /\ m - 1 \in z..m - 1
      BY <1>0, <1>3, <2>1
    <3>3. \A k \in z..m : k = m \/ (k \in z..m - 1 /\ (k # z => k - 1 \in z..m - 1))
      BY <1>0, <1>3
    <3> HIDE DEF g
    <3>. QED  BY <1>5, <2>3, <3>1, <3>2, <3>3
  <2>5. IsAscending(set, a, m, g)
    <3>1. g = [k \in z..m |-> g[k]]
      OBVIOUS
    <3> HIDE DEF g
    <3>. QED  BY <2>4, <3>1 DEF IsAscending, One
  <2>. QED  BY <1>3, <2>5
<1>. QED  BY <1>4, <1>5

(* A sequence of members of a set that ascends from a to b. *)
Rises(set, a, b, p) ==
  /\ p \in Seq(Nat) /\ Len(p) <= b - a + 1
  /\ \A x \in 1..Len(p) : p[x] \in set /\ p[x] \in a..b
  /\ \A x \in 2..Len(p) : p[x - 1] < p[x]

(* One member more, if the next number is one.                             *)
LEMMA RisesMore ==
  ASSUME NEW set, NEW a \in Nat, NEW k \in Nat, a <= k, NEW p, Rises(set, a, k - 1, p)
  PROVE  /\ Rises(set, a, k, p)
         /\ k \in set => Rises(set, a, k, Append(p, k))
<1>1. PICK m \in Nat : m = Len(p)
  BY DEF Rises
<1>2. /\ p \in Seq(Nat) /\ m <= k - 1 - a + 1
      /\ \A x \in 1..m : p[x] \in set /\ p[x] \in a..k - 1
      /\ \A x \in 2..m : p[x - 1] < p[x]
  BY <1>1 DEF Rises
<1>3. m <= k - a + 1 /\ m + 1 <= k - a + 1 /\ \A x \in 1..m : p[x] \in set /\ p[x] \in a..k
  BY <1>2
<1>4. Rises(set, a, k, p)
  BY <1>1, <1>2, <1>3 DEF Rises
<1> DEFINE q == Append(p, k)
<1>5. q \in Seq(Nat) /\ Len(q) = m + 1 /\ q[m + 1] = k /\ \A x \in 1..m : q[x] = p[x]
  BY <1>1, <1>2
<1> HIDE DEF q
<1>6. ASSUME k \in set PROVE Rises(set, a, k, q)
  <2>1. \A x \in 1..m + 1 : q[x] \in set /\ q[x] \in a..k
    <3>1. \A x \in 1..m + 1 : x = m + 1 \/ x \in 1..m
      OBVIOUS
    <3>. QED  BY <1>3, <1>5, <1>6, <3>1
  <2>2. \A x \in 2..m + 1 : q[x - 1] < q[x]
    <3> SUFFICES ASSUME NEW x \in 2..m + 1 PROVE q[x - 1] < q[x]
      OBVIOUS
    <3>1. CASE x = m + 1
      <4>1. x - 1 = m /\ m \in 1..m
        BY <3>1
      <4>2. q[m] = p[m] /\ p[m] \in a..k - 1
        BY <1>2, <1>5, <4>1
      <4>. QED  BY <1>5, <3>1, <4>1, <4>2
    <3>2. CASE x # m + 1
      <4>1. x \in 2..m /\ x \in 1..m /\ x - 1 \in 1..m
        BY <3>2
      <4>. QED  BY <1>2, <1>5, <4>1
    <3>. QED  BY <3>1, <3>2
  <2>. QED  BY <1>3, <1>5, <2>1, <2>2 DEF Rises
<1>. QED  BY <1>4, <1>6 DEF q

(* The members are collected in ascending order, a last one at the end.    *)
LEMMA AscendingRises ==
  ASSUME NEW set, NEW a \in Nat, a >= 1, NEW n \in Nat, a - 1 <= n
  PROVE  /\ Rises(set, a, n, Ascending(set, a, n))
         /\ n \in set /\ a <= n => \E p : Rises(set, a, n - 1, p) /\ Ascending(set, a, n) = Append(p, n)
<1> DEFINE z == a - 1
           f == CHOOSE f : f = [k \in a - 1..n |-> IF k = a - 1 THEN << >>
                                                   ELSE IF k \in set THEN Append(f[k - 1], k) ELSE f[k - 1]]
           bad == {k \in z..n : ~Rises(set, a, k, f[k])}
<1>0. z \in Nat /\ z <= n /\ a = z + 1
  OBVIOUS
<1>1. IsAscending(set, a, n, f)
  <2>1. \E g : IsAscending(set, a, n, g)
    BY AscendingExists
  <2>. QED  BY <2>1 DEF IsAscending
<1>2. Ascending(set, a, n) = f[n]
  BY DEF Ascending
<1> HIDE DEF f
<1>3. \A k \in z..n : f[k] = IF k = z THEN << >> ELSE IF k \in set THEN Append(f[k - 1], k) ELSE f[k - 1]
  BY <1>1 DEF IsAscending
<1>4. bad = {}
  <2>1. SUFFICES ASSUME bad # {} PROVE FALSE
    OBVIOUS
  <2>2. PICK k \in bad : \A y \in bad : k <= y
    <3>1. bad \in SUBSET Nat
      BY <1>0
    <3>. QED  BY <2>1, <3>1, SmallestExists
  <2>3. k \in z..n /\ ~Rises(set, a, k, f[k])
    BY <2>2
  <2>4. CASE k = z
    <3>1. f[k] = << >>
      BY <1>3, <2>3, <2>4
    <3>2. f[k] \in Seq(Nat) /\ Len(f[k]) = 0
      BY <3>1
    <3>. QED  BY <1>0, <2>3, <2>4, <3>2 DEF Rises
  <2>5. CASE k # z
    <3>1. k - 1 \in z..n /\ ~ (k <= k - 1) /\ k \in Nat /\ a <= k
      BY <1>0, <2>3, <2>5
    <3>2. Rises(set, a, k - 1, f[k - 1])
      BY <2>2, <3>1
    <3>. QED  BY <1>3, <2>3, <2>5, <3>1, <3>2, RisesMore
  <2>. QED  BY <2>4, <2>5
<1>5. \A k \in z..n : Rises(set, a, k, f[k])
  BY <1>4
<1>6. n \in z..n
  BY <1>0
<1>7. ASSUME n \in set, a <= n
      PROVE  Rises(set, a, n - 1, f[n - 1]) /\ f[n] = Append(f[n - 1], n)
  <2>1. n - 1 \in z..n /\ n # z
    BY <1>0, <1>7
  <2>. QED  BY <1>3, <1>5, <1>6, <1>7, <2>1
<1>. QED  BY <1>2, <1>5, <1>6, <1>7

(* A way to break goes from candidate to later candidate, up to the last.  *)
IsPath(n, p) ==
  /\ p \in Seq(Nat) /\ Len(p) <= n - 1
  /\ \A k \in 1..Len(p) : p[k] \in 2..n /\ From(p, k) \in 1..p[k] - 1
  /\ IF n = 1 THEN Len(p) = 0 ELSE Len(p) >= 1 /\ p[Len(p)] = n

(* Candidates in ascending order, up to the last, are a way to break.      *)
LEMMA AscendingIsPath ==
  ASSUME NEW n \in Nat, n >= 1, NEW all, n \in all, NEW p, p = Ascending(all, 2, n)
  PROVE  IsPath(n, p)
<1>1. 2 \in Nat /\ 2 >= 1 /\ 2 - 1 <= n
  OBVIOUS
<1>10. Rises(all, 2, n, p)
  <2>1. Rises(all, 2, n, Ascending(all, 2, n))
    BY <1>1, AscendingRises
  <2>. QED  BY <2>1
<1>4. PICK m \in Nat : m = Len(p)
  BY <1>10 DEF Rises
<1>5. /\ p \in Seq(Nat) /\ m <= n - 1
      /\ \A k \in 1..m : p[k] \in 2..n
      /\ \A k \in 2..m : p[k - 1] < p[k]
  BY <1>10, <1>4 DEF Rises
<1>6. \A k \in 1..m : From(p, k) \in 1..p[k] - 1
  <2> SUFFICES ASSUME NEW k \in 1..m PROVE From(p, k) \in 1..p[k] - 1
    OBVIOUS
  <2>1. CASE k = 1
    <3>1. p[k] \in 2..n
      BY <1>5
    <3>. QED  BY <2>1, <3>1 DEF From
  <2>2. CASE k # 1
    <3>1. k \in 2..m /\ k - 1 \in 1..m
      BY <2>2
    <3>2. p[k - 1] \in 2..n /\ p[k] \in 2..n /\ p[k - 1] < p[k]
      BY <1>5, <3>1
    <3>. QED  BY <2>2, <3>2 DEF From
  <2>. QED  BY <2>1, <2>2
<1>7. IF n = 1 THEN m = 0 ELSE m >= 1 /\ p[m] = n
  <2>1. CASE n = 1
    BY <1>5, <2>1
  <2>2. CASE n # 1
    <3>0. 2 <= n
      BY <2>2
    <3>1. n \in all
      OBVIOUS
    <3>5. \E q : Rises(all, 2, n - 1, q) /\ Ascending(all, 2, n) = Append(q, n)
      BY <1>1, <3>0, <3>1, AscendingRises
    <3>2. PICK q : Rises(all, 2, n - 1, q) /\ p = Append(q, n)
      BY <3>5
    <3>3. q \in Seq(Nat)
      BY <3>2 DEF Rises
    <3>. QED  BY <1>4, <2>2, <3>2, <3>3
  <2>. QED  BY <2>1, <2>2
<1>. QED  BY <1>4, <1>5, <1>6, <1>7 DEF IsPath

(* All ways to break that are compared go from candidate to candidate.     *)
LEMMA PathsArePaths ==
  ASSUME NEW context, NEW n \in Nat, n = Len(context.candidates), n >= 1, NEW p \in Paths(context)
  PROVE  IsPath(n, p)
<1>1. PICK set \in SUBSET (2..n - 1) : p = Ascending(set \cup {n}, 2, n)
  BY DEF Paths
<1>2. PICK all : all = set \cup {n}
  OBVIOUS
<1>3. n \in all /\ p = Ascending(all, 2, n)
  BY <1>1, <1>2
<1>. QED  BY <1>3, AscendingIsPath

-----------------------------------------------------------------------------
(* No way to break that computeBreaks compares has a smaller score than    *)
(* the one it notes: each of the lines adds at least what the noted score  *)
(* of its end is larger by.                                                *)
LEMMA NoneIsBetter ==
  ASSUME IsParagraph(par), NEW context, Typed(context), EqualWidths(context),
         NEW n \in Nat, n = Len(context.candidates), n >= 1,
         NEW data, \A k \in 1..n : ScoreKnown(context, data, k),
         NEW p, IsPath(n, p), FitsButForTheLast(context, p)
  PROVE  Score(context, p) \in Nat /\ data[n].score <= Score(context, p)
<1>1. PICK m \in Nat : m = Len(p)
  BY DEF IsPath
<1>2. /\ m <= n - 1 /\ DOMAIN p = 1..m /\ p \in Seq(Nat)
      /\ \A k \in 1..m : p[k] \in 2..n /\ From(p, k) \in 1..p[k] - 1
      /\ IF n = 1 THEN m = 0 ELSE m >= 1 /\ p[m] = n
  BY <1>1 DEF IsPath
<1>3. PICK f : IsScore(context, p, m, f) /\ Score(context, p) = f[m]
  BY <1>1, ScoreFrom
<1>4. \A k \in 0..m : f[k] = IF k = 0 THEN 0 ELSE f[k - 1] + LineScore(context, k - 1, From(p, k), p[k])
  BY <1>3 DEF IsScore
<1> DEFINE at(k) == IF k = 0 THEN 1 ELSE p[k]
           Holds(k) == f[k] \in Nat /\ data[at(k)].score <= f[k]
           bad == {k \in 0..m : ~Holds(k)}
<1>5. \A k \in 1..m : From(p, k) = at(k - 1)
  BY DEF From
<1>6. bad = {}
  <2>1. SUFFICES ASSUME bad # {} PROVE FALSE
    OBVIOUS
  <2>2. PICK k \in bad : \A y \in bad : k <= y
    BY <2>1, SmallestExists, bad \in SUBSET Nat
  <2>3. k \in 0..m /\ ~Holds(k)
    BY <2>2
  <2>4. CASE k = 0
    <3>1. data[1].score = 0
      BY DEF ScoreKnown
    <3>. QED  BY <1>4, <2>3, <2>4, <3>1
  <2>5. CASE k # 0
    <3>1. k \in 1..m /\ k - 1 \in 0..m /\ ~ (k <= k - 1) /\ k - 1 \in 0..n
      BY <1>2, <2>3, <2>5
    <3>2. Holds(k - 1)
      BY <2>2, <3>1
    <3> DEFINE i == p[k]  j == From(p, k)
    <3>3. i \in 2..n /\ i \in 1..n /\ i # 1 /\ j \in 1..i - 1 /\ j \in 1..n
      <4>1. i \in 2..n /\ j \in 1..i - 1
        BY <1>2, <3>1
      <4> HIDE DEF i, j
      <4>. QED  BY <4>1
    <3>4. f[k - 1] \in Nat /\ data[j].score <= f[k - 1]
      BY <1>5, <3>1, <3>2
    <3>5. f[k] = f[k - 1] + LineScore(context, k - 1, j, i)
      BY <1>4, <2>5, <3>1
    <3>6. \A x \in j + 1..i - 1 : DeltaOf(context, k - 1, j, x) >= 0
      BY <1>2, <3>1 DEF FitsButForTheLast
    <3> HIDE DEF i, j
    <3>7. /\ LineScore(context, k - 1, j, i) = Cost(context, j, i) + EndPenalty(context, i)
          /\ LineScore(context, k - 1, j, i) \in Nat
      BY <3>1, <3>3, LineScoreIs
    <3>8. j = i - 1 \/ Slack(context, j, i - 1) >= 0
      <4> SUFFICES ASSUME j # i - 1 PROVE Slack(context, j, i - 1) >= 0
        OBVIOUS
      <4>1. i - 1 \in j + 1..i - 1 /\ i - 1 \in 1..n
        BY <3>3
      <4>2. DeltaOf(context, k - 1, j, i - 1) = Slack(context, j, i - 1)
        BY <3>1, <3>3, <4>1, LineScoreIs
      <4>. QED  BY <3>6, <4>1, <4>2
    <3>9. data[i].score <= data[j].score + Cost(context, j, i) + EndPenalty(context, i)
      BY <3>3, <3>8 DEF ScoreKnown, Least
    <3>10. /\ data[i].score \in Nat /\ data[j].score \in Nat /\ Cost(context, j, i) \in Nat
           /\ EndPenalty(context, i) \in Nat
      <4>1. data[i].score \in Nat /\ data[j].score \in Nat
        BY <3>3 DEF ScoreKnown, Data
      <4>2. Cost(context, j, i) \in Nat
        BY <3>3, CostFacts
      <4>3. EndPenalty(context, i) \in Nat
        BY <3>3, LinePenaltyIsNat DEF EndPenalty, Typed
      <4>. QED  BY <4>1, <4>2, <4>3
    <3>11. f[k] \in Nat /\ data[i].score <= f[k]
      BY <3>4, <3>5, <3>7, <3>9, <3>10
    <3>. QED  BY <2>3, <2>5, <3>11 DEF i
  <2>. QED  BY <2>4, <2>5
<1>7. at(m) = n
  <2>1. CASE m = 0
    BY <1>2, <2>1
  <2>2. CASE m # 0
    BY <1>2, <2>2
  <2>. QED  BY <2>1, <2>2
<1>8. Holds(m)
  <2>1. m \in 0..m
    OBVIOUS
  <2>. QED  BY <1>6, <2>1
<1> HIDE DEF at
<1>9. f[m] \in Nat /\ data[n].score <= f[m]
  BY <1>7, <1>8
<1>. QED  BY <1>3, <1>9

(* For any candidates made of numbers the chosen breaks are the best.      *)
LEMMA ChosenIsBestOf ==
  ASSUME IsParagraph(par), NEW context, Typed(context)
  PROVE  ChosenIsBest(context)
<1> SUFFICES ASSUME Growing(context.candidates), EqualWidths(context),
                    NEW path \in Paths(context), FitsButForTheLast(context, path),
                    Score(context, path) < SCORE_INFTY
             PROVE  Score(context, Chosen(ComputeBreaks(context))) <= Score(context, path)
  BY DEF ChosenIsBest, NoBetter
<1>1. PICK n \in Nat : n = Len(context.candidates) /\ n >= 1
  BY DEF Typed
<1>2. PICK data : data = ComputeBreaks(context)
  OBVIOUS
<1>3. Len(data) = n /\ \A k \in 1..n : ScoreKnown(context, data, k)
  BY <1>1, <1>2, ScoresAreLeast
<1>4. IsPath(n, path)
  BY <1>1, PathsArePaths
<1>5. Score(context, path) \in Nat /\ data[n].score <= Score(context, path)
  BY <1>1, <1>3, <1>4, NoneIsBetter
<1>6. data[n].score \in Nat /\ SCORE_INFTY \in Nat
  <2>1. n \in 1..n
    BY <1>1
  <2>. QED  BY <1>3, <2>1, ScoresAssumption DEF ScoreKnown, Data
<1>7. data[n].score < SCORE_INFTY
  BY <1>5, <1>6
<1>8. data[n].score < SCORE_INFTY => Score(context, Chosen(data)) = data[n].score
  BY <1>1, <1>3, ChosenHasItsScore
<1>. QED  BY <1>2, <1>5, <1>7, <1>8

-----------------------------------------------------------------------------
(* What is found by going on from state to state, each of the states in    *)
(* the set of its number.                                                  *)
IsIteration(a, n, first, step, kinds, g) ==
  /\ g = [k \in a..n |-> IF k = a THEN first ELSE step[k][g[k - 1]]]
  /\ \A k \in a..n : g[k] \in kinds[k]

(* There is such a function, where each step leads into the next set.      *)
LEMMA IterationExists ==
  ASSUME NEW a \in Nat, NEW n \in Nat, a <= n, NEW kinds, NEW first \in kinds[a], NEW step,
         \A k \in a..n : k # a => \A x \in kinds[k - 1] : step[k][x] \in kinds[k]
  PROVE  \E g : IsIteration(a, n, first, step, kinds, g)
<1> DEFINE bad == {m \in a..n : ~ \E g : IsIteration(a, m, first, step, kinds, g)}
<1>1. SUFFICES ASSUME bad # {} PROVE FALSE
  <2>1. n \in a..n
    OBVIOUS
  <2>. QED  BY <2>1
<1>2. PICK m \in bad : \A y \in bad : m <= y
  BY <1>1, SmallestExists, bad \in SUBSET Nat
<1>3. m \in a..n /\ m \in Nat /\ ~ \E g : IsIteration(a, m, first, step, kinds, g)
  BY <1>2
<1>4. CASE m = a
  <2> DEFINE g == [k \in a..a |-> first]
  <2>1. \A k \in a..a : k = a
    OBVIOUS
  <2>2. g = [k \in a..a |-> IF k = a THEN first ELSE step[k][g[k - 1]]]
    BY <2>1
  <2>3. \A k \in a..a : g[k] \in kinds[k]
    BY <2>1
  <2> HIDE DEF g
  <2>4. IsIteration(a, a, first, step, kinds, g)
    BY <2>2, <2>3 DEF IsIteration
  <2>. QED  BY <1>3, <1>4, <2>4
<1>5. CASE m # a
  <2>1. m - 1 \in a..n /\ m - 1 \in a..m - 1 /\ ~ (m <= m - 1)
    BY <1>3, <1>5
  <2>2. PICK f : IsIteration(a, m - 1, first, step, kinds, f)
    <3>1. m - 1 \notin bad
      BY <1>2, <2>1
    <3>. QED  BY <2>1, <3>1
  <2>3. \A k \in a..m - 1 : f[k] = (IF k = a THEN first ELSE step[k][f[k - 1]]) /\ f[k] \in kinds[k]
    BY <2>2 DEF IsIteration
  <2> DEFINE g == [k \in a..m |-> IF k = m THEN step[m][f[m - 1]] ELSE f[k]]
  <2>4. \A k \in a..m - 1 : g[k] = f[k]
    BY <1>3
  <2>5. g[m] = step[m][f[m - 1]] /\ g[m - 1] = f[m - 1]
    BY <1>3, <2>1
  <2>6. \A k \in a..m : k = m \/ (k \in a..m - 1 /\ (k # a => k - 1 \in a..m - 1))
    BY <1>3
  <2>7. g = [k \in a..m |-> g[k]]
    OBVIOUS
  <2> HIDE DEF g
  <2>8. step[m][f[m - 1]] \in kinds[m]
    BY <1>3, <1>5, <2>1, <2>3
  <2>9. \A k \in a..m : g[k] = (IF k = a THEN first ELSE step[k][g[k - 1]]) /\ g[k] \in kinds[k]
    <3> SUFFICES ASSUME NEW k \in a..m
                 PROVE  g[k] = (IF k = a THEN first ELSE step[k][g[k - 1]]) /\ g[k] \in kinds[k]
      OBVIOUS
    <3>1. CASE k = m
      BY <1>5, <2>5, <2>8, <3>1
    <3>2. CASE k # m
      <4>1. k \in a..m - 1 /\ (k # a => k - 1 \in a..m - 1)
        BY <2>6, <3>2
      <4>. QED  BY <2>3, <2>4, <4>1
    <3>. QED  BY <3>1, <3>2
  <2>10. IsIteration(a, m, first, step, kinds, g)
    BY <2>7, <2>9 DEF IsIteration
  <2>. QED  BY <1>3, <2>10
<1>. QED  BY <1>4, <1>5

-----------------------------------------------------------------------------
(* The candidates are made of numbers.                                     *)
Types == {"bare"} \cup {par.hyphen[o] : o \in DOMAIN par.hyphen}
HyphenBreaks == [offset : Nat, type : Types, first : Nat, second : Nat]
Desperates == [offset : Nat, sumOfChars : Nat]
Candidates == [offset : Nat, preBreak : Int, postBreak : Int, penalty : Nat,
               preSpaceCount : Nat, postSpaceCount : Nat, hyphenType : Types]
Procs(o) ==
  [rawSpaceCount : Nat, effectiveSpaceCount : Nat, sumOfCharWidths : Nat, effectiveWidth : Nat,
   sumOfCharWidthsAtPrevWordBreak : Nat, nextWordBreak : {0} \cup DOMAIN par.words,
   prevWordBreak : 0..o, spaceWidth : Nat, localeListId : Int]

(* Each character is in a run. *)
LEMMA RunAtIs ==
  ASSUME IsParagraph(par), NEW o \in 0..Size - 1
  PROVE  RunAt(o) \in DOMAIN par.runs /\ RunStart(RunAt(o)) <= o /\ o < par.runs[RunAt(o)].end
<1> DEFINE after == {r \in DOMAIN par.runs : o < par.runs[r].end}
<1>1. PICK n \in Nat : n = Len(par.runs) /\ n >= 1 /\ DOMAIN par.runs = 1..n
  BY RunsAre
<1>2. Size \in Nat /\ \A r \in 1..n : par.runs[r].end \in 1..Size
  BY <1>1, ParagraphShape
<1>3. PICK r \in after : \A q \in after : r <= q
  <2>1. PICK q \in DOMAIN par.runs : Size - 1 < par.runs[q].end
    BY ParagraphShape
  <2>2. par.runs[q].end \in 1..Size
    BY <1>1, <1>2, <2>1
  <2>3. o < par.runs[q].end
    BY <1>2, <2>1, <2>2
  <2>4. q \in after
    BY <2>1, <2>3
  <2>5. after \in SUBSET Nat
    BY <1>1
  <2>. QED  BY <2>4, <2>5, SmallestExists
<1>4. r \in 1..n /\ o < par.runs[r].end
  BY <1>1, <1>3
<1>5. RunStart(r) <= o
  <2>1. CASE r = 1
    BY <2>1 DEF RunStart
  <2>2. CASE r # 1
    <3>1. r - 1 \in 1..n /\ ~ (r <= r - 1)
      BY <1>4, <2>2
    <3>2. r - 1 \notin after
      BY <1>3, <3>1
    <3>3. ~ (o < par.runs[r - 1].end) /\ par.runs[r - 1].end \in 1..Size
      BY <1>1, <1>2, <3>1, <3>2
    <3>. QED  BY <1>2, <2>2, <3>3 DEF RunStart
  <2>. QED  BY <2>1, <2>2
<1>6. \E q \in DOMAIN par.runs : RunStart(q) <= o /\ o < par.runs[q].end
  BY <1>1, <1>4, <1>5
<1>. QED  BY <1>6 DEF RunAt

(* There is a word boundary behind each character.                         *)
LEMMA NextBoundaryIs ==
  ASSUME IsParagraph(par), NEW o \in 0..Size - 1
  PROVE  NextBoundary(o) \in DOMAIN par.words /\ NextBoundary(o) > o
<1> DEFINE s == {b \in DOMAIN par.words : b > o} \cup {Size}
<1>1. Size \in Nat /\ Size \in DOMAIN par.words /\ DOMAIN par.words \subseteq 1..Size
  BY ParagraphShape
<1>2. s \in SUBSET Nat /\ s # {} /\ \A b \in s : b \in DOMAIN par.words /\ b > o
  BY <1>1
<1>3. NextBoundary(o) = Smallest(s)
  BY DEF NextBoundary
<1> HIDE DEF s
<1>. QED  BY <1>2, <1>3, SmallestExists

(* The processor starts with numbers and remains so with each character.   *)
LEMMA FirstProc == IsParagraph(par) => Proc \in Procs(0)
BY DEF Proc, Procs, kInvalidListId

LEMMA Feeds ==
  ASSUME IsParagraph(par), NEW o \in 0..Size - 1, NEW proc \in Procs(o)
  PROVE  Feed(proc, o) \in Procs(o) /\ Feed(proc, o) \in Procs(o + 1)
<1>0. Size \in Nat /\ o \in Nat
  BY ParagraphShape
<1> DEFINE run == RunAt(o)
           p == IF o = RunStart(run) THEN UpdateLocaleIfNecessary(proc, run) ELSE proc
           may == par.runs[run].canBreak \/ o + 1 = par.runs[run].end
<1>1. run \in DOMAIN par.runs /\ RunStart(run) \in Nat /\ RunStart(run) <= o
  BY RunAtIs, ParagraphShape
<1>2. p \in Procs(o)
  <2>1. CASE o = RunStart(run) /\ UpdateLocaleIfNecessary(proc, run) # proc
    <3>1. NextBoundary(RunStart(run)) \in DOMAIN par.words /\ proc.nextWordBreak \in {0} \cup DOMAIN par.words
      BY <2>1, NextBoundaryIs DEF Procs
    <3>2. PICK b \in {0} \cup DOMAIN par.words, id \in Int :
            UpdateLocaleIfNecessary(proc, run) = [proc EXCEPT !.nextWordBreak = b, !.localeListId = id]
      <4>1. par.runs[run].localeListId \in Int
        BY <1>1, RunsAre
      <4> DEFINE old == proc.nextWordBreak
                 mail == old \in DOMAIN par.words /\ par.words[old] # "word"
                 b == IF mail THEN old ELSE NextBoundary(RunStart(run))
      <4>2. UpdateLocaleIfNecessary(proc, run)
              = [proc EXCEPT !.nextWordBreak = b, !.localeListId = par.runs[run].localeListId]
        BY <2>1 DEF UpdateLocaleIfNecessary
      <4>3. b \in {0} \cup DOMAIN par.words
        BY <3>1
      <4> HIDE DEF b
      <4>. QED  BY <4>1, <4>2, <4>3
    <3> HIDE DEF run
    <3>3. [proc EXCEPT !.nextWordBreak = b, !.localeListId = id] \in Procs(o)
      BY DEF Procs
    <3>. QED  BY <2>1, <3>2, <3>3
  <2>2. CASE ~(o = RunStart(run) /\ UpdateLocaleIfNecessary(proc, run) # proc)
    BY <2>2
  <2>. QED  BY <2>1, <2>2
<1>3. Feed(proc, o) = FeedChar(p, o, may)
  BY DEF Feed
<1> HIDE DEF p, may
<1>4. Width(o) \in Nat /\ NextBoundary(o) \in DOMAIN par.words
  BY WidthsAreNat, NextBoundaryIs
<1>5. o \in 0..o /\ o \in 0..o + 1 /\ 0..o \subseteq 0..o + 1
  BY <1>0
<1>6. FeedChar(p, o, may) \in Procs(o)
  BY <1>0, <1>2, <1>4, <1>5 DEF FeedChar, Procs
<1>7. Procs(o) \subseteq Procs(o + 1)
  BY <1>5 DEF Procs
<1>. QED  BY <1>3, <1>6, <1>7

(* The members of a set in order are members of it within the range.       *)
LEMMA AscendingIn ==
  ASSUME NEW set, NEW a \in Nat, a >= 1, NEW n \in Nat, a - 1 <= n
  PROVE  \E m \in Nat : /\ DOMAIN Ascending(set, a, n) = 1..m
                        /\ \A k \in 1..m : Ascending(set, a, n)[k] \in set /\ Ascending(set, a, n)[k] \in a..n
<1> DEFINE p == Ascending(set, a, n)
<1>1. Rises(set, a, n, p)
  BY AscendingRises
<1> HIDE DEF p
<1>2. p \in Seq(Nat) /\ \A k \in 1..Len(p) : p[k] \in set /\ p[k] \in a..n
  BY <1>1 DEF Rises
<1>3. Len(p) \in Nat /\ DOMAIN p = 1..Len(p)
  BY <1>2
<1>. QED  BY <1>2, <1>3 DEF p

(* The hyphenation points of a word have numbers for widths.               *)
LEMMA PointsAre ==
  ASSUME IsParagraph(par), NEW o \in 0..Size - 1, NEW proc \in Procs(o), proc.nextWordBreak = o + 1
  PROVE  PopulateHyphenationPoints(RunAt(o), proc) \in Seq(HyphenBreaks)
<1> DEFINE from == proc.prevWordBreak  to == o + 1  word == WordRange(to)
           inside == /\ word.start < word.end
                     /\ RunStart(RunAt(o)) <= from /\ to <= par.runs[RunAt(o)].end
                     /\ from <= word.start /\ word.end <= to
           points == Ascending(DOMAIN par.hyphen, word.start + 1, word.end - 1)
           Break(p) == [offset |-> p, type |-> par.hyphen[p],
                        first |-> MeasureHyphenPiece(from, p, FALSE, EditForThisLine(par.hyphen[p])),
                        second |-> MeasureHyphenPiece(p, to, EditForNextLine(par.hyphen[p]), FALSE)]
<1>0. Size \in Nat /\ o \in Nat /\ to <= Size /\ to \in Nat /\ HyphenWidth \in Nat
  BY ParagraphShape, ParagraphAssumption
<1>1. PopulateHyphenationPoints(RunAt(o), proc) = IF inside THEN [k \in DOMAIN points |-> Break(points[k])] ELSE << >>
  BY DEF PopulateHyphenationPoints
<1>2. from \in Nat /\ to \in DOMAIN par.words
  BY <1>0 DEF Procs
<1>3. word.start \in Nat /\ word.end \in 0..to
  BY <1>2, WordRangeBounds
<1>4. CASE ~inside
  BY <1>1, <1>4
<1>5. CASE inside
  <2>1. PICK a \in Nat : a = word.start
    BY <1>3
  <2>2. PICK b \in Nat : b = word.end
    BY <1>3
  <2>3. a < b /\ from <= a /\ b <= to
    BY <1>5, <2>1, <2>2
  <2>4. a + 1 \in Nat /\ a + 1 >= 1 /\ b - 1 \in Nat /\ a + 1 - 1 <= b - 1
    BY <2>3
  <2>5. points = Ascending(DOMAIN par.hyphen, a + 1, b - 1)
    BY <2>1, <2>2
  <2> HIDE DEF word, inside
  <2>6. PICK m \in Nat : DOMAIN points = 1..m /\ \A k \in 1..m : points[k] \in DOMAIN par.hyphen /\ points[k] \in a + 1..b - 1
    BY <2>4, <2>5, AscendingIn
  <2> HIDE DEF points
  <2>7. \A p \in DOMAIN par.hyphen : p \in a + 1..b - 1 => Break(p) \in HyphenBreaks
    <3> SUFFICES ASSUME NEW p \in DOMAIN par.hyphen, p \in a + 1..b - 1 PROVE Break(p) \in HyphenBreaks
      OBVIOUS
    <3>1. p \in Nat /\ from <= p /\ p <= to /\ p <= Size
      BY <1>0, <1>2, <2>3
    <3>2. SumOfWidths(from, p) \in Nat /\ SumOfWidths(p, to) \in Nat
      BY <1>0, <1>2, <3>1, SumIsNat
    <3>3. \A x, y : MeasureHyphenPiece(from, p, x, y) \in Nat /\ MeasureHyphenPiece(p, to, x, y) \in Nat
      BY <1>0, <3>2 DEF MeasureHyphenPiece
    <3>4. par.hyphen[p] \in Types
      BY DEF Types
    <3>. QED  BY <3>1, <3>3, <3>4 DEF HyphenBreaks
  <2>8. \A k \in 1..m : Break(points[k]) \in HyphenBreaks
    BY <2>6, <2>7
  <2>9. PopulateHyphenationPoints(RunAt(o), proc) = [k \in 1..m |-> Break(points[k])]
    BY <1>1, <1>5, <2>6
  <2> HIDE DEF Break
  <2>10. [k \in 1..m |-> Break(points[k])] \in Seq(HyphenBreaks)
    BY <2>8
  <2>. QED  BY <2>9, <2>10
<1>. QED  BY <1>4, <1>5

(* What has been found when o characters have been measured.               *)
Measures(o) == [proc : Procs(o), breaks : Seq(HyphenBreaks)]

(* MeasuredText::measure keeps to numbers, character by character.         *)
LEMMA MeasuresMore ==
  ASSUME IsParagraph(par), NEW o \in 0..Size - 1, NEW s \in Measures(o)
  PROVE  MeasureChar(s, o) \in Measures(o + 1)
<1>1. s.proc \in Procs(o) /\ s.breaks \in Seq(HyphenBreaks)
  BY DEF Measures
<1>2. Feed(s.proc, o) \in Procs(o) /\ Feed(s.proc, o) \in Procs(o + 1)
  BY <1>1, Feeds
<1>3. CASE par.runs[RunAt(o)].canBreak
  <2> DEFINE proc == Feed(s.proc, o)
  <2> HIDE DEF proc
  <2> DEFINE breaks == IF o + 1 # proc.nextWordBreak THEN s.breaks
                       ELSE s.breaks \o PopulateHyphenationPoints(RunAt(o), proc)
  <2>1. breaks \in Seq(HyphenBreaks)
    <3>1. CASE o + 1 # proc.nextWordBreak
      BY <1>1, <3>1
    <3>2. CASE o + 1 = proc.nextWordBreak
      <4>1. PopulateHyphenationPoints(RunAt(o), proc) \in Seq(HyphenBreaks)
        BY <1>2, <3>2, PointsAre DEF proc
      <4>. QED  BY <1>1, <3>2, <4>1
    <3>. QED  BY <3>1, <3>2
  <2>2. MeasureStep(s, o, proc) = [proc |-> proc, breaks |-> breaks]
    BY DEF MeasureStep
  <2> HIDE DEF breaks
  <2>3. MeasureStep(s, o, proc) \in Measures(o + 1)
    BY <1>2, <2>1, <2>2 DEF Measures, proc
  <2>. QED  BY <1>3, <2>3 DEF MeasureChar, proc
<1>4. CASE ~par.runs[RunAt(o)].canBreak
  <2>1. Procs(o) \subseteq Procs(o + 1)
    <3>1. 0..o \subseteq 0..o + 1
      BY ParagraphShape
    <3>. QED  BY <3>1 DEF Procs
  <2>. QED  BY <1>1, <1>4, <2>1 DEF MeasureChar, Measures
<1>. QED  BY <1>3, <1>4

(* All that is found, character by character.                              *)
IsMeasuring(f) ==
  /\ f[0] = [proc |-> Proc, breaks |-> << >>]
  /\ \A o \in 0..Size - 1 : f[o + 1] = MeasureChar(f[o], o)
  /\ \A o \in 0..Size : f[o] \in Measures(o)

LEMMA Measuring ==
  ASSUME IsParagraph(par)
  PROVE  \E f : IsMeasuring(f) /\ MeasuredHyphenBreaks = f[Size].breaks
<1> DEFINE n == Size
           first == [proc |-> Proc, breaks |-> << >>]
           kinds == [o \in 0..n |-> Measures(o)]
           step == [o \in 0..n |-> [s \in Measures(o - 1) |-> MeasureChar(s, o - 1)]]
           f == CHOOSE f : f = [o \in 0..n |-> IF o = 0 THEN first ELSE MeasureChar(f[o - 1], o - 1)]
<1>0. n \in Nat
  BY ParagraphShape
<1>1. first \in kinds[0]
  BY <1>0, FirstProc DEF Measures
<1>2. \A o \in 1..n : \A s \in kinds[o - 1] : step[o][s] \in kinds[o] /\ step[o][s] = MeasureChar(s, o - 1)
  <2> SUFFICES ASSUME NEW o \in 1..n, NEW s \in kinds[o - 1]
               PROVE  step[o][s] \in kinds[o] /\ step[o][s] = MeasureChar(s, o - 1)
    OBVIOUS
  <2>1. o - 1 \in 0..Size - 1 /\ o - 1 \in 0..n /\ o \in 0..n /\ o - 1 + 1 = o
    BY <1>0
  <2>2. s \in Measures(o - 1)
    BY <2>1
  <2>3. MeasureChar(s, o - 1) \in Measures(o)
    BY <2>1, <2>2, MeasuresMore
  <2>. QED  BY <2>1, <2>2, <2>3
<1> HIDE DEF step, kinds
<1>3. PICK g : IsIteration(0, n, first, step, kinds, g)
  <2>1. \A k \in 0..n : k # 0 => k \in 1..n
    BY <1>0
  <2> HIDE DEF n, first
  <2>2. \A k \in 0..n : k # 0 => \A x \in kinds[k - 1] : step[k][x] \in kinds[k]
    BY <1>2, <2>1
  <2>3. 0 \in Nat /\ 0 <= n
    BY <1>0
  <2>. QED  BY <1>0, <1>1, <2>2, <2>3, IterationExists
<1>4. \A k \in 0..n : k # 0 => k \in 1..n /\ k - 1 \in 0..n
  BY <1>0
<1>5. g = [o \in 0..n |-> IF o = 0 THEN first ELSE MeasureChar(g[o - 1], o - 1)]
  BY <1>2, <1>3, <1>4 DEF IsIteration
<1>6. f = [o \in 0..n |-> IF o = 0 THEN first ELSE MeasureChar(f[o - 1], o - 1)]
  BY <1>5
<1>7. MeasuredHyphenBreaks = f[Size].breaks
  BY DEF MeasuredHyphenBreaks
<1>10. first = [proc |-> Proc, breaks |-> << >>] /\ n = Size
  OBVIOUS
<1> HIDE DEF f, first, n
<1> DEFINE bad == {k \in 0..n : f[k] \notin kinds[k]}
<1>8. bad = {}
  <2>1. SUFFICES ASSUME bad # {} PROVE FALSE
    OBVIOUS
  <2>2. PICK k \in bad : \A y \in bad : k <= y
    BY <2>1, SmallestExists, bad \in SUBSET Nat
  <2>3. k \in 0..n /\ f[k] \notin kinds[k]
    BY <2>2
  <2>4. CASE k = 0
    BY <1>1, <1>6, <2>3, <2>4
  <2>5. CASE k # 0
    <3>1. k \in 1..n /\ k - 1 \in 0..n /\ ~ (k <= k - 1)
      BY <1>4, <2>3, <2>5
    <3>2. f[k - 1] \in kinds[k - 1]
      BY <2>2, <3>1
    <3>3. f[k] = MeasureChar(f[k - 1], k - 1)
      BY <1>6, <2>3, <2>5
    <3>. QED  BY <1>2, <2>3, <3>1, <3>2, <3>3
  <2>. QED  BY <2>4, <2>5
<1>9. \A o \in 0..n : f[o] \in Measures(o)
  BY <1>8 DEF kinds
<1>11. \A o \in 0..n - 1 : o + 1 \in 0..n /\ o + 1 # 0 /\ o + 1 - 1 = o
  BY <1>0
<1>12. f[0] = first /\ \A o \in 0..n - 1 : f[o + 1] = MeasureChar(f[o], o)
  <2>1. 0 \in 0..n
    BY <1>0
  <2>2. f[0] = first
    BY <1>6, <2>1
  <2>3. ASSUME NEW o \in 0..n - 1 PROVE f[o + 1] = MeasureChar(f[o], o)
    <3>1. PICK p \in 0..n : p = o + 1 /\ p # 0 /\ p - 1 = o
      BY <1>11
    <3>2. f[p] = MeasureChar(f[p - 1], p - 1)
      BY <1>6, <3>1
    <3>. QED  BY <3>1, <3>2
  <2>. QED  BY <2>2, <2>3
<1>. QED  BY <1>7, <1>9, <1>10, <1>12 DEF IsMeasuring

(* All hyphenation points that are measured.                               *)
LEMMA MeasuredAre ==
  ASSUME IsParagraph(par)
  PROVE  MeasuredHyphenBreaks \in Seq(HyphenBreaks)
<1>1. PICK f : IsMeasuring(f) /\ MeasuredHyphenBreaks = f[Size].breaks
  BY Measuring
<1>2. Size \in 0..Size
  BY ParagraphShape
<1>. QED  BY <1>1, <1>2 DEF IsMeasuring, Measures

(* The desperate breaks within a word.                                     *)
LEMMA DesperatesAre ==
  ASSUME IsParagraph(par), NEW from \in Nat, NEW to \in Nat, from < to, to <= Size
  PROVE  PopulateDesperatePoints(from, to) \in Seq(Desperates)
<1> DEFINE all == {o \in from + 1..to - 1 : Width(o) # 0}
           points == Ascending(all, from + 1, to - 1)
           Point(o) == [offset |-> o, sumOfChars |-> SumOfWidths(from, o)]
<1>1. from + 1 \in Nat /\ from + 1 >= 1 /\ to - 1 \in Nat /\ from + 1 - 1 <= to - 1 /\ Size \in Nat
  BY ParagraphShape
<1>2. PopulateDesperatePoints(from, to) = [k \in DOMAIN points |-> Point(points[k])]
  BY DEF PopulateDesperatePoints
<1> HIDE DEF all
<1>3. PICK m \in Nat : DOMAIN points = 1..m /\ \A k \in 1..m : points[k] \in all /\ points[k] \in from + 1..to - 1
  BY <1>1, AscendingIn
<1> HIDE DEF points
<1>4. \A o \in from + 1..to - 1 : Point(o) \in Desperates
  <2> SUFFICES ASSUME NEW o \in from + 1..to - 1 PROVE Point(o) \in Desperates
    OBVIOUS
  <2>1. o \in Nat /\ from <= o /\ o <= Size
    BY <1>1
  <2>2. SumOfWidths(from, o) \in Nat
    BY <2>1, SumIsNat
  <2>. QED  BY <2>1, <2>2 DEF Desperates
<1>5. \A k \in 1..m : Point(points[k]) \in Desperates
  BY <1>3, <1>4
<1> HIDE DEF Point
<1>6. [k \in 1..m |-> Point(points[k])] \in Seq(Desperates)
  BY <1>5
<1>. QED  BY <1>2, <1>3, <1>6

(* What has been merged when k of the breaks have been taken. *)
Merges(hyphens, desperates, k) ==
  {m \in [d : 1..Len(desperates) + 1, h : 1..Len(hyphens) + 1, out : Seq(Candidates)] : m.d + m.h = k + 2}

(* Each turn of appendWithMerging takes one break of one of the lists.     *)
LEMMA MergesMore ==
  ASSUME NEW hyphens \in Seq(HyphenBreaks), NEW desperates \in Seq(Desperates), NEW o \in Nat,
         NEW proc \in Procs(o), NEW penalty \in Nat,
         NEW k \in 1..Len(hyphens) + Len(desperates), NEW m \in Merges(hyphens, desperates, k - 1)
  PROVE  Take(m, hyphens, desperates, proc, penalty) \in Merges(hyphens, desperates, k)
<1>1. PICK nd \in Nat : nd = Len(desperates)
  OBVIOUS
<1>2. PICK nh \in Nat : nh = Len(hyphens)
  OBVIOUS
<1>3. m \in [d : 1..nd + 1, h : 1..nh + 1, out : Seq(Candidates)] /\ m.d + m.h = k - 1 + 2 /\ k \in 1..nh + nd
  BY <1>1, <1>2 DEF Merges
<1>4. PICK d \in 1..nd + 1 : d = m.d
  BY <1>3
<1>5. PICK h \in 1..nh + 1 : h = m.h
  BY <1>3
<1>6. PICK out \in Seq(Candidates) : out = m.out
  BY <1>3
<1>12. k \in Nat
  BY <1>3
<1>7. d + h = k - 1 + 2 /\ m = [d |-> d, h |-> h, out |-> out]
  BY <1>3, <1>4, <1>5, <1>6
<1>8. /\ proc.sumOfCharWidths \in Nat /\ proc.sumOfCharWidthsAtPrevWordBreak \in Nat
      /\ proc.effectiveSpaceCount \in Nat
  BY DEF Procs
<1>9. \A dd \in 1..nd + 1, hh \in 1..nh + 1, oo \in Seq(Candidates) :
        dd + hh = k + 2 => [d |-> dd, h |-> hh, out |-> oo] \in Merges(hyphens, desperates, k)
  BY <1>1, <1>2 DEF Merges
<1>10. CASE DesperateIsNext(m, hyphens, desperates)
  <2>1. d <= nd
    BY <1>1, <1>4, <1>10 DEF DesperateIsNext
  <2>2. d + 1 \in 1..nd + 1 /\ d \in 1..nd /\ d + 1 + h = k + 2
    BY <1>7, <1>12, <2>1
  <2>3. desperates[d] \in Desperates
    BY <1>1, <2>2
  <2>4. PushDesperate(desperates[d], proc) \in Candidates
    BY <1>8, <2>3, ScoresAssumption DEF PushDesperate, Desperates, Candidates, Types
  <2>5. Append(out, PushDesperate(desperates[d], proc)) \in Seq(Candidates)
    BY <2>4
  <2>6. Take(m, hyphens, desperates, proc, penalty)
          = [d |-> d + 1, h |-> h, out |-> Append(out, PushDesperate(desperates[d], proc))]
    BY <1>7, <1>10 DEF Take, TakeDesperate
  <2>. QED  BY <1>9, <2>2, <2>5, <2>6
<1>11. CASE ~DesperateIsNext(m, hyphens, desperates)
  <2>1. ~ (d <= nd) \/ ~ (h > nh)
    BY <1>1, <1>2, <1>4, <1>5, <1>11 DEF DesperateIsNext
  <2>2. h <= nh
    BY <1>3, <1>7, <2>1
  <2>3. h + 1 \in 1..nh + 1 /\ h \in 1..nh /\ d + (h + 1) = k + 2
    BY <1>7, <1>12, <2>2
  <2>4. hyphens[h] \in HyphenBreaks
    BY <1>2, <2>3
  <2>5. PushHyphenation(hyphens[h], proc, penalty) \in Candidates
    <3>1. PICK b \in HyphenBreaks : b = hyphens[h]
      BY <2>4
    <3>2. b.offset \in Nat /\ b.type \in Types /\ b.first \in Nat /\ b.second \in Nat
      BY DEF HyphenBreaks
    <3>3. /\ proc.sumOfCharWidths - b.second \in Int
          /\ proc.sumOfCharWidthsAtPrevWordBreak + b.first \in Int
      BY <1>8, <3>2
    <3>. QED  BY <1>8, <3>1, <3>2, <3>3 DEF PushHyphenation, Candidates
  <2>6. Append(out, PushHyphenation(hyphens[h], proc, penalty)) \in Seq(Candidates)
    BY <2>5
  <2>7. Take(m, hyphens, desperates, proc, penalty)
          = [d |-> d, h |-> h + 1, out |-> Append(out, PushHyphenation(hyphens[h], proc, penalty))]
    BY <1>7, <1>11 DEF Take, TakeHyphen
  <2>. QED  BY <1>9, <2>3, <2>6, <2>7
<1>. QED  BY <1>10, <1>11

(* All its turns.                                                          *)
IsMerging(hyphens, desperates, proc, penalty, n, f) ==
  /\ f[0] = [d |-> 1, h |-> 1, out |-> << >>]
  /\ \A k \in 0..n - 1 : f[k + 1] = Take(f[k], hyphens, desperates, proc, penalty)
  /\ \A k \in 0..n : f[k] \in Merges(hyphens, desperates, k)

LEMMA Merging ==
  ASSUME NEW hyphens \in Seq(HyphenBreaks), NEW desperates \in Seq(Desperates), NEW o \in Nat,
         NEW proc \in Procs(o), NEW penalty \in Nat
  PROVE  LET n == Len(hyphens) + Len(desperates)
         IN \E f : /\ IsMerging(hyphens, desperates, proc, penalty, n, f)
                   /\ AppendWithMerging(hyphens, desperates, proc, penalty) = f[n].out
<1> DEFINE n == Len(hyphens) + Len(desperates)
           first == [d |-> 1, h |-> 1, out |-> << >>]
           kinds == [k \in 0..n |-> Merges(hyphens, desperates, k)]
           step == [k \in 0..n |-> [m \in Merges(hyphens, desperates, k - 1) |->
                                      Take(m, hyphens, desperates, proc, penalty)]]
           f == CHOOSE f : f = [k \in 0..n |-> IF k = 0 THEN first
                                               ELSE Take(f[k - 1], hyphens, desperates, proc, penalty)]
<1>0. n \in Nat /\ 0 \in Nat /\ 0 <= n
  OBVIOUS
<1>1. first \in kinds[0]
  <2>1. Len(hyphens) \in Nat /\ Len(desperates) \in Nat /\ 0 \in 0..n
    BY <1>0
  <2>2. first \in Merges(hyphens, desperates, 0)
    BY <2>1 DEF Merges
  <2>. QED  BY <2>1, <2>2
<1>2. \A k \in 0..n : k # 0 => k \in 1..n /\ k - 1 \in 0..n /\ ~ (k <= k - 1)
  BY <1>0
<1>3. \A k \in 0..n : k # 0 => \A m \in kinds[k - 1] :
        step[k][m] \in kinds[k] /\ step[k][m] = Take(m, hyphens, desperates, proc, penalty)
  <2> SUFFICES ASSUME NEW k \in 0..n, k # 0, NEW m \in kinds[k - 1]
               PROVE  step[k][m] \in kinds[k] /\ step[k][m] = Take(m, hyphens, desperates, proc, penalty)
    OBVIOUS
  <2>1. k \in 1..n /\ k - 1 \in 0..n
    BY <1>2
  <2>2. m \in Merges(hyphens, desperates, k - 1)
    BY <2>1
  <2>3. Take(m, hyphens, desperates, proc, penalty) \in Merges(hyphens, desperates, k)
    BY <2>1, <2>2, MergesMore
  <2>. QED  BY <2>1, <2>2, <2>3
<1> HIDE DEF step, kinds, n, first
<1>4. PICK g : IsIteration(0, n, first, step, kinds, g)
  BY <1>0, <1>1, <1>3, IterationExists
<1>5. g = [k \in 0..n |-> IF k = 0 THEN first ELSE Take(g[k - 1], hyphens, desperates, proc, penalty)]
  BY <1>2, <1>3, <1>4 DEF IsIteration
<1>6. f = [k \in 0..n |-> IF k = 0 THEN first ELSE Take(f[k - 1], hyphens, desperates, proc, penalty)]
  BY <1>5
<1>7. AppendWithMerging(hyphens, desperates, proc, penalty) = f[n].out
  BY DEF AppendWithMerging, n, first
<1> HIDE DEF f
<1> DEFINE bad == {k \in 0..n : f[k] \notin kinds[k]}
<1>8. bad = {}
  <2>1. SUFFICES ASSUME bad # {} PROVE FALSE
    OBVIOUS
  <2>2. PICK k \in bad : \A y \in bad : k <= y
    BY <2>1, SmallestExists, bad \in SUBSET Nat
  <2>3. k \in 0..n /\ f[k] \notin kinds[k]
    BY <2>2
  <2>4. CASE k = 0
    BY <1>1, <1>6, <2>3, <2>4
  <2>5. CASE k # 0
    <3>1. k - 1 \in 0..n /\ ~ (k <= k - 1)
      BY <1>2, <2>3, <2>5
    <3>2. f[k - 1] \in kinds[k - 1]
      BY <2>2, <3>1
    <3>3. f[k] = Take(f[k - 1], hyphens, desperates, proc, penalty)
      BY <1>6, <2>3, <2>5
    <3>. QED  BY <1>3, <2>3, <2>5, <3>2, <3>3
  <2>. QED  BY <2>4, <2>5
<1>9. \A k \in 0..n : f[k] \in Merges(hyphens, desperates, k)
  BY <1>8 DEF kinds
<1>10. \A k \in 0..n - 1 : k + 1 \in 0..n /\ k + 1 # 0 /\ k + 1 - 1 = k
  BY <1>0
<1>11. f[0] = first /\ \A k \in 0..n - 1 : f[k + 1] = Take(f[k], hyphens, desperates, proc, penalty)
  <2>1. 0 \in 0..n
    BY <1>0
  <2>2. f[0] = first
    BY <1>6, <2>1
  <2>3. ASSUME NEW k \in 0..n - 1 PROVE f[k + 1] = Take(f[k], hyphens, desperates, proc, penalty)
    <3>1. PICK p \in 0..n : p = k + 1 /\ p # 0 /\ p - 1 = k
      BY <1>10
    <3>2. f[p] = Take(f[p - 1], hyphens, desperates, proc, penalty)
      BY <1>6, <3>1
    <3>. QED  BY <3>1, <3>2
  <2>. QED  BY <2>2, <2>3
<1>12. IsMerging(hyphens, desperates, proc, penalty, n, f)
  BY <1>9, <1>11 DEF IsMerging, first
<1>. QED  BY <1>7, <1>12 DEF n

(* What is merged are candidates.                                          *)
LEMMA MergedAre ==
  ASSUME NEW hyphens \in Seq(HyphenBreaks), NEW desperates \in Seq(Desperates), NEW o \in Nat,
         NEW proc \in Procs(o), NEW penalty \in Nat
  PROVE  AppendWithMerging(hyphens, desperates, proc, penalty) \in Seq(Candidates)
<1>1. PICK n \in Nat : n = Len(hyphens) + Len(desperates)
  OBVIOUS
<1>2. PICK f : /\ IsMerging(hyphens, desperates, proc, penalty, n, f)
              /\ AppendWithMerging(hyphens, desperates, proc, penalty) = f[n].out
  BY <1>1, Merging
<1>. QED  BY <1>1, <1>2 DEF IsMerging, Merges

(* So is what a word boundary adds.                                        *)
LEMMA PushedWord ==
  ASSUME NEW end \in Nat, NEW o \in Nat, NEW proc \in Procs(o), NEW penalty \in Nat
  PROVE  PushWordBreak(end, proc, penalty) \in Candidates
BY DEF PushWordBreak, Procs, Candidates, Types

(* What populateCandidates has when it has passed o characters.            *)
Passes(breaks, o) ==
  {s \in [proc : Procs(o), hyIter : 1..Len(breaks) + 1, candidates : Seq(Candidates)] :
     Len(s.candidates) >= 1}

(* What passing a boundary adds: the points before it and the boundary.    *)
LEMMA PartsAre ==
  ASSUME IsParagraph(par), NEW breaks \in Seq(HyphenBreaks), NEW o \in 0..Size - 1,
         NEW proc \in Procs(o), NEW from \in 1..Len(breaks) + 1
  PROVE  LET run == RunAt(o)
             next == HyphensUpTo(breaks, from, o + 1)
             hyphens == SubSeq(breaks, from, next - 1)
         IN /\ next \in from..Len(breaks) + 1 /\ hyphens \in Seq(HyphenBreaks)
            /\ Mergeable(hyphens, proc, o + 1, HyphenPenalty(run)) \in Seq(Candidates)
            /\ WordCandidate(run, o + 1, proc, HyphenPenalty(run)) \in Seq(Candidates)
<1>0. Size \in Nat /\ o \in Nat /\ o + 1 \in Nat
  BY ParagraphShape
<1>1. PICK run : run = RunAt(o)
  OBVIOUS
<1>2. PICK end \in Nat : end = o + 1 /\ end <= Size
  BY <1>0
<1>3. PICK penalty \in Nat : penalty = HyphenPenalty(run)
  BY <1>1, RunAtIs, HyphenPenaltyIsNat
<1>4. PICK nb \in Nat : nb = Len(breaks)
  OBVIOUS
<1> DEFINE all == {h \in from..nb : breaks[h].offset >= end} \cup {nb + 1}
           next == HyphensUpTo(breaks, from, end)
           hyphens == SubSeq(breaks, from, next - 1)
           desperates == PopulateDesperatePoints(proc.prevWordBreak, end)
           merged == Mergeable(hyphens, proc, end, penalty)
           word == WordCandidate(run, end, proc, penalty)
<1>5. next \in from..nb + 1
  <2>1. next = Smallest(all)
    BY <1>4 DEF HyphensUpTo
  <2>2. all \in SUBSET Nat /\ all # {} /\ all \subseteq from..nb + 1
    BY <1>4
  <2> HIDE DEF all, next
  <2>. QED  BY <2>1, <2>2, SmallestExists
<1> HIDE DEF next
<1>6. hyphens \in Seq(HyphenBreaks)
  <2>1. PICK n \in from..nb + 1 : n = next
    BY <1>5
  <2>2. from \in 1..nb + 1 /\ n - 1 \in 0..nb
    BY <1>4, <2>1
  <2>3. SubSeq(breaks, from, n - 1) \in Seq(HyphenBreaks)
    BY <1>4, <2>2
  <2>. QED  BY <2>1, <2>3
<1>7. desperates \in Seq(Desperates)
  <2>1. PICK p \in 0..o : p = proc.prevWordBreak
    BY DEF Procs
  <2>2. p \in Nat /\ p < end
    BY <1>0, <1>2, <2>1
  <2>. QED  BY <1>2, <2>1, <2>2, DesperatesAre
<1> HIDE DEF hyphens, desperates
<1>8. merged \in Seq(Candidates)
  <2> DEFINE h == IF MEnableHyphenation THEN hyphens ELSE << >>
             d == IF proc.effectiveWidth - proc.sumOfCharWidthsAtPrevWordBreak > GetMin
                  THEN desperates ELSE << >>
  <2>1. h \in Seq(HyphenBreaks)
    BY <1>6
  <2>2. d \in Seq(Desperates)
    BY <1>7
  <2>3. merged = AppendWithMerging(h, d, proc, penalty)
    BY DEF Mergeable, desperates
  <2> HIDE DEF h, d, merged
  <2>. QED  BY <1>0, <2>1, <2>2, <2>3, MergedAre
<1>9. word \in Seq(Candidates)
  <2>1. \A x \in Nat : PushWordBreak(end, proc, x) \in Candidates
    BY <1>0, PushedWord
  <2>2. PushWordBreak(end, proc, IF IsInEmailOrUrl(end) THEN penalty ELSE 0) \in Candidates
    BY <2>1
  <2>. QED  BY <2>2 DEF WordCandidate
<1>. QED  BY <1>1, <1>2, <1>3, <1>4, <1>5, <1>6, <1>8, <1>9 DEF next, hyphens

(* populateCandidates keeps to candidates, character by character.         *)
LEMMA PassesMore ==
  ASSUME IsParagraph(par), NEW breaks \in Seq(HyphenBreaks), NEW o \in 0..Size - 1, NEW s \in Passes(breaks, o)
  PROVE  PopulateChar(breaks, s, o) \in Passes(breaks, o + 1)
<1>1. s.proc \in Procs(o) /\ s.hyIter \in 1..Len(breaks) + 1 /\ s.candidates \in Seq(Candidates) /\ Len(s.candidates) >= 1
  BY DEF Passes
<1>2. PICK proc : proc = Feed(s.proc, o)
  OBVIOUS
<1>3. proc \in Procs(o) /\ proc \in Procs(o + 1)
  BY <1>1, <1>2, Feeds
<1>4. PICK run, end : run = RunAt(o) /\ end = o + 1
  OBVIOUS
<1>5. PopulateChar(breaks, s, o) = AddCandidates(breaks, s, run, end, proc)
  BY <1>2, <1>4 DEF PopulateChar
<1>6. CASE end # proc.nextWordBreak
  <2>1. AddCandidates(breaks, s, run, end, proc) = [s EXCEPT !.proc = proc]
    BY <1>6 DEF AddCandidates
  <2>2. [s EXCEPT !.proc = proc] \in Passes(breaks, end)
    BY <1>3, <1>4 DEF Passes
  <2>. QED  BY <1>4, <1>5, <2>1, <2>2
<1>7. CASE end = proc.nextWordBreak
  <2> DEFINE next == HyphensUpTo(breaks, s.hyIter, end)
             hyphens == SubSeq(breaks, s.hyIter, next - 1)
             merged == Mergeable(hyphens, proc, end, HyphenPenalty(run))
             word == WordCandidate(run, end, proc, HyphenPenalty(run))
  <2>1. next \in s.hyIter..Len(breaks) + 1 /\ merged \in Seq(Candidates) /\ word \in Seq(Candidates)
    BY <1>1, <1>3, <1>4, PartsAre
  <2>2. AddCandidates(breaks, s, run, end, proc)
          = [proc |-> proc, hyIter |-> next, candidates |-> s.candidates \o merged \o word]
    BY <1>7 DEF AddCandidates, PassBoundary
  <2> HIDE DEF next, merged, word
  <2>3. PICK all1 \in Seq(Candidates) : all1 = s.candidates \o merged /\ Len(all1) >= 1
    <3>1. PICK c \in Seq(Candidates) : c = s.candidates /\ Len(c) >= 1
      BY <1>1
    <3>2. PICK m \in Seq(Candidates) : m = merged
      BY <2>1
    <3>3. c \o m \in Seq(Candidates) /\ Len(c \o m) >= 1
      BY <3>1
    <3>. QED  BY <3>1, <3>2, <3>3
  <2>4. all1 \o word \in Seq(Candidates) /\ Len(all1 \o word) >= 1
    BY <2>1, <2>3
  <2>5. PICK all2 \in Seq(Candidates) : all2 = s.candidates \o merged \o word /\ Len(all2) >= 1
    BY <2>3, <2>4
  <2>6. next \in 1..Len(breaks) + 1
    BY <1>1, <2>1
  <2>7. [proc |-> proc, hyIter |-> next, candidates |-> all2] \in Passes(breaks, end)
    BY <1>3, <1>4, <2>5, <2>6 DEF Passes
  <2>. QED  BY <1>4, <1>5, <2>2, <2>5, <2>7
<1>. QED  BY <1>6, <1>7

(* All it passes.                                                          *)
IsPopulating(breaks, f) ==
  /\ f[0] = [proc |-> Proc, hyIter |-> 1, candidates |-> <<FirstCandidate>>]
  /\ \A o \in 0..Size - 1 : f[o + 1] = PopulateChar(breaks, f[o], o)
  /\ \A o \in 0..Size : f[o] \in Passes(breaks, o)

LEMMA Populating ==
  ASSUME IsParagraph(par), NEW breaks \in Seq(HyphenBreaks)
  PROVE  \E f : IsPopulating(breaks, f) /\ Populated(breaks) = f[Size]
<1> DEFINE n == Size
           first == [proc |-> Proc, hyIter |-> 1, candidates |-> <<FirstCandidate>>]
           kinds == [o \in 0..n |-> Passes(breaks, o)]
           step == [o \in 0..n |-> [s \in Passes(breaks, o - 1) |-> PopulateChar(breaks, s, o - 1)]]
           f == CHOOSE f : f = [o \in 0..n |-> IF o = 0 THEN first ELSE PopulateChar(breaks, f[o - 1], o - 1)]
<1>0. n \in Nat /\ 0 \in Nat /\ 0 <= n
  BY ParagraphShape
<1>1. first \in kinds[0]
  <2>1. FirstCandidate \in Candidates
    BY DEF FirstCandidate, Candidates, Types
  <2>2. <<FirstCandidate>> \in Seq(Candidates) /\ Len(<<FirstCandidate>>) >= 1
    BY <2>1
  <2>3. 0 \in 0..n /\ 1 \in 1..Len(breaks) + 1
    BY <1>0
  <2>4. first \in Passes(breaks, 0)
    BY <2>2, <2>3, FirstProc DEF Passes
  <2>. QED  BY <2>3, <2>4
<1>2. \A k \in 0..n : k # 0 => k \in 1..n /\ k - 1 \in 0..n /\ ~ (k <= k - 1)
  BY <1>0
<1>3. \A k \in 0..n : k # 0 => \A s \in kinds[k - 1] :
        step[k][s] \in kinds[k] /\ step[k][s] = PopulateChar(breaks, s, k - 1)
  <2> SUFFICES ASSUME NEW k \in 0..n, k # 0, NEW s \in kinds[k - 1]
               PROVE  step[k][s] \in kinds[k] /\ step[k][s] = PopulateChar(breaks, s, k - 1)
    OBVIOUS
  <2>1. k - 1 \in 0..Size - 1 /\ k - 1 \in 0..n /\ k - 1 + 1 = k
    BY <1>0
  <2>2. s \in Passes(breaks, k - 1)
    BY <2>1
  <2>3. PopulateChar(breaks, s, k - 1) \in Passes(breaks, k)
    BY <2>1, <2>2, PassesMore
  <2>. QED  BY <2>1, <2>2, <2>3
<1> HIDE DEF step, kinds, n, first
<1>4. PICK g : IsIteration(0, n, first, step, kinds, g)
  BY <1>0, <1>1, <1>3, IterationExists
<1>5. g = [o \in 0..n |-> IF o = 0 THEN first ELSE PopulateChar(breaks, g[o - 1], o - 1)]
  BY <1>2, <1>3, <1>4 DEF IsIteration
<1>6. f = [o \in 0..n |-> IF o = 0 THEN first ELSE PopulateChar(breaks, f[o - 1], o - 1)]
  BY <1>5
<1>7. Populated(breaks) = f[n]
  BY DEF Populated, n, first
<1> HIDE DEF f
<1> DEFINE bad == {k \in 0..n : f[k] \notin kinds[k]}
<1>8. bad = {}
  <2>1. SUFFICES ASSUME bad # {} PROVE FALSE
    OBVIOUS
  <2>2. PICK k \in bad : \A y \in bad : k <= y
    BY <2>1, SmallestExists, bad \in SUBSET Nat
  <2>3. k \in 0..n /\ f[k] \notin kinds[k]
    BY <2>2
  <2>4. CASE k = 0
    BY <1>1, <1>6, <2>3, <2>4
  <2>5. CASE k # 0
    <3>1. k - 1 \in 0..n /\ ~ (k <= k - 1)
      BY <1>2, <2>3, <2>5
    <3>2. f[k - 1] \in kinds[k - 1]
      BY <2>2, <3>1
    <3>3. f[k] = PopulateChar(breaks, f[k - 1], k - 1)
      BY <1>6, <2>3, <2>5
    <3>. QED  BY <1>3, <2>3, <2>5, <3>2, <3>3
  <2>. QED  BY <2>4, <2>5
<1>9. \A o \in 0..n : f[o] \in Passes(breaks, o)
  BY <1>8 DEF kinds
<1>10. \A o \in 0..n - 1 : o + 1 \in 0..n /\ o + 1 # 0 /\ o + 1 - 1 = o
  BY <1>0
<1>11. f[0] = first /\ \A o \in 0..n - 1 : f[o + 1] = PopulateChar(breaks, f[o], o)
  <2>1. 0 \in 0..n
    BY <1>0
  <2>2. f[0] = first
    BY <1>6, <2>1
  <2>3. ASSUME NEW o \in 0..n - 1 PROVE f[o + 1] = PopulateChar(breaks, f[o], o)
    <3>1. PICK p \in 0..n : p = o + 1 /\ p # 0 /\ p - 1 = o
      BY <1>10
    <3>2. f[p] = PopulateChar(breaks, f[p - 1], p - 1)
      BY <1>6, <3>1
    <3>. QED  BY <3>1, <3>2
  <2>. QED  BY <2>2, <2>3
<1>. QED  BY <1>7, <1>9, <1>11 DEF IsPopulating, n, first

(* All candidates.                                                         *)
LEMMA PopulatedIs ==
  ASSUME IsParagraph(par), NEW breaks \in Seq(HyphenBreaks)
  PROVE  Populated(breaks) \in Passes(breaks, Size)
<1>1. PICK f : IsPopulating(breaks, f) /\ Populated(breaks) = f[Size]
  BY Populating
<1>2. Size \in 0..Size
  BY ParagraphShape
<1>. QED  BY <1>1, <1>2 DEF IsPopulating

(* Every paragraph has candidates made of numbers, one at least.           *)
LEMMA PopulatedIsTyped ==
  ASSUME IsParagraph(par)
  PROVE  Typed(PopulateCandidates)
<1>1. PICK all : all = Populated(MeasuredHyphenBreaks)
  OBVIOUS
<1>2. all.candidates \in Seq(Candidates) /\ Len(all.candidates) >= 1
  <2>1. MeasuredHyphenBreaks \in Seq(HyphenBreaks)
    BY MeasuredAre
  <2>2. all \in Passes(MeasuredHyphenBreaks, Size)
    BY <1>1, <2>1, PopulatedIs
  <2>. QED  BY <2>2 DEF Passes
<1>3. PICK cands \in Seq(Candidates) : cands = all.candidates /\ Len(cands) >= 1
  BY <1>2
<1>4. Len(cands) \in Nat /\ \A i \in 1..Len(cands) : cands[i] \in Candidates
  BY <1>3
<1>5. \A i \in 1..Len(cands) : cands[i].preBreak \in Int /\ cands[i].postBreak \in Int /\ cands[i].penalty \in Nat
  BY <1>4 DEF Candidates
<1>6. PopulateCandidates.candidates = cands
  BY <1>1, <1>3 DEF PopulateCandidates, Context
<1>. QED  BY <1>3, <1>4, <1>5, <1>6 DEF Typed

-----------------------------------------------------------------------------
(* The paragraph remains the one given.                                    *)
LEMMA ParKept == IsParagraph(par) /\ [BreakIntoLines]_vars => IsParagraph(par)'
<1> SUFFICES ASSUME IsParagraph(par), [BreakIntoLines]_vars PROVE IsParagraph(par)'
  OBVIOUS
<1>1. par' = par
  BY DEF BreakIntoLines, BreakGreedily, BreakOptimally, Next, vars, Scan, BreakAtWord, StartHyphenating,
         KeepPiece, BreakInWord, BreakLastPiece, ReadOutside, BreakAtGrapheme, RememberWord, Finish
<1>. QED  BY <1>1

(* The breaks computeBreaks chooses have the smallest score of all ways to *)
(* break that it compares.                                                 *)
THEOREM OptimalBreaksAreBest == LinesSpec => []OptimalIsBest
<1>1. Init => IsParagraph(par)
  BY ParagraphAssumption DEF Init
<1>2. IsParagraph(par) => OptimalIsBest
  BY PopulatedIsTyped, ChosenIsBestOf DEF OptimalIsBest
<1>. QED  BY <1>1, <1>2, ParKept, PTL DEF LinesSpec

-----------------------------------------------------------------------------
(* The hyphenation points of a word, through both passes: each feeds a     *)
(* processor of its own, which waits for the next word boundary (Follows)  *)
(* and has been at the one before (GoesThrough).                           *)

(* Runs follow each other.                                                 *)
LEMMA RunsInOrder ==
  ASSUME IsParagraph(par), NEW r \in DOMAIN par.runs, NEW q \in DOMAIN par.runs, q < r
  PROVE  par.runs[q].end <= RunStart(r)
<1>1. PICK n \in Nat : n = Len(par.runs) /\ n >= 1 /\ DOMAIN par.runs = 1..n
  BY RunsAre
<1>2. \A x \in 1..n : par.runs[x].end \in Nat /\ RunStart(x) \in Nat
  <2>1. Size \in Nat /\ \A x \in 1..n : par.runs[x].end \in 1..Size /\ RunStart(x) \in Nat
    BY <1>1, ParagraphShape
  <2>. QED  BY <2>1
<1>3. \A x \in 1..n : RunStart(x) < par.runs[x].end
  BY <1>1 DEF IsParagraph, RunStart
<1> DEFINE bad == {x \in 1..n : q < x /\ ~ (par.runs[q].end <= RunStart(x))}
<1>4. SUFFICES ASSUME bad # {} PROVE FALSE
  BY <1>1
<1>5. PICK x \in bad : \A y \in bad : x <= y
  BY <1>4, SmallestExists, bad \in SUBSET Nat
<1>6. x \in 1..n /\ q \in 1..n /\ q < x /\ x - 1 \in 1..n /\ x # 1
  BY <1>1, <1>5
<1>7. RunStart(x) = par.runs[x - 1].end
  BY <1>6 DEF RunStart
<1>8. CASE q = x - 1
  BY <1>2, <1>5, <1>6, <1>7, <1>8
<1>9. CASE q # x - 1
  <2>1. q < x - 1 /\ ~ (x <= x - 1)
    BY <1>6, <1>9
  <2>2. x - 1 \notin bad
    BY <1>5, <2>1
  <2>3. par.runs[q].end <= RunStart(x - 1)
    BY <1>6, <2>1, <2>2
  <2>4. RunStart(x - 1) < par.runs[x - 1].end
    BY <1>3, <1>6
  <2>5. par.runs[q].end \in Nat /\ RunStart(x - 1) \in Nat /\ par.runs[x - 1].end \in Nat
    BY <1>2, <1>6
  <2>6. par.runs[q].end <= RunStart(x)
    BY <1>7, <2>3, <2>4, <2>5
  <2>. QED  BY <1>5, <2>6
<1>. QED  BY <1>8, <1>9

(* A character of a run is in that one only.                               *)
LEMMA RunAtIt ==
  ASSUME IsParagraph(par), NEW r \in DOMAIN par.runs, NEW o \in 0..Size - 1,
         RunStart(r) <= o, o < par.runs[r].end
  PROVE  RunAt(o) = r
<1>1. PICK n \in Nat : n = Len(par.runs) /\ n >= 1 /\ DOMAIN par.runs = 1..n
  BY RunsAre
<1>2. PICK q \in 1..n : q = RunAt(o) /\ RunStart(q) <= o /\ o < par.runs[q].end
  BY <1>1, RunAtIs
<1>3. o \in Nat /\ \A x \in 1..n : par.runs[x].end \in Nat /\ RunStart(x) \in Nat
  <2>1. Size \in Nat /\ \A x \in 1..n : par.runs[x].end \in 1..Size /\ RunStart(x) \in Nat
    BY <1>1, ParagraphShape
  <2>. QED  BY <2>1
<1>4. CASE q < r
  <2>1. par.runs[q].end <= RunStart(r)
    BY <1>1, <1>4, RunsInOrder
  <2>. QED  BY <1>1, <1>2, <1>3, <2>1
<1>5. CASE r < q
  <2>1. par.runs[r].end <= RunStart(q)
    BY <1>1, <1>5, RunsInOrder
  <2>. QED  BY <1>1, <1>2, <1>3, <2>1
<1>. QED  BY <1>1, <1>2, <1>4, <1>5

(* The next boundary is the first one behind a character.                  *)
LEMMA NextBoundaryFirst ==
  ASSUME IsParagraph(par), NEW o \in 0..Size - 1
  PROVE  \A b \in DOMAIN par.words : b > o => NextBoundary(o) <= b
<1> DEFINE s == {b \in DOMAIN par.words : b > o} \cup {Size}
<1>1. s \in SUBSET Nat /\ s # {}
  BY ParagraphShape
<1>2. NextBoundary(o) = Smallest(s)
  BY DEF NextBoundary
<1>3. \A b \in DOMAIN par.words : b > o => b \in s
  OBVIOUS
<1> HIDE DEF s
<1>4. \A b \in s : Smallest(s) <= b
  BY <1>1, SmallestExists
<1>. QED  BY <1>2, <1>3, <1>4

(* Before and behind a character the next boundary is the same, unless it  *)
(* begins at one.                                                          *)
LEMMA SameBoundary ==
  ASSUME IsParagraph(par), NEW o \in 1..Size - 1
  PROVE  /\ NextBoundary(o - 1) = o \/ NextBoundary(o - 1) = NextBoundary(o)
         /\ o \in DOMAIN par.words => NextBoundary(o - 1) = o
<1>0. Size \in Nat /\ o - 1 \in 0..Size - 1 /\ o \in 0..Size - 1 /\ o \in Nat
  BY ParagraphShape
<1>1. PICK a \in Nat : a = NextBoundary(o - 1) /\ a \in DOMAIN par.words /\ a > o - 1
  BY <1>0, NextBoundaryIs, ParagraphShape
<1>2. PICK b \in Nat : b = NextBoundary(o) /\ b \in DOMAIN par.words /\ b > o
  BY <1>0, NextBoundaryIs, ParagraphShape
<1>3. \A c \in DOMAIN par.words : c > o - 1 => a <= c
  BY <1>0, <1>1, NextBoundaryFirst
<1>4. \A c \in DOMAIN par.words : c > o => b <= c
  BY <1>0, <1>2, NextBoundaryFirst
<1>5. a <= b
  BY <1>0, <1>2, <1>3
<1>6. a # o => b <= a
  BY <1>0, <1>1, <1>4
<1>7. o \in DOMAIN par.words => a <= o
  BY <1>0, <1>3
<1>. QED  BY <1>0, <1>1, <1>2, <1>5, <1>6, <1>7

(* The processor waits for the next boundary behind the character before.  *)
Follows(proc, o) == proc.nextWordBreak = IF o = 0 THEN 0 ELSE NextBoundary(o - 1)

BeginsAnew(proc, o) ==
  /\ o = RunStart(RunAt(o)) /\ proc.localeListId # par.runs[RunAt(o)].localeListId
  /\ proc.nextWordBreak \in DOMAIN par.words => par.words[proc.nextWordBreak] = "word"

(* What the processor makes of a character: where the locale changes it    *)
(* waits for the boundary behind, else it goes on at the one it waited for. *)
LEMMA FedWith ==
  ASSUME IsParagraph(par), NEW o \in 0..Size - 1, NEW proc \in Procs(o)
  PROVE  LET run == par.runs[RunAt(o)]
             fed == Feed(proc, o)
         IN /\ BeginsAnew(proc, o) => fed.nextWordBreak = NextBoundary(o) /\ fed.prevWordBreak = proc.prevWordBreak
            /\ ~BeginsAnew(proc, o) =>
                 /\ fed.nextWordBreak = IF o = proc.nextWordBreak THEN NextBoundary(o) ELSE proc.nextWordBreak
                 /\ fed.prevWordBreak = IF o = proc.nextWordBreak /\ (run.canBreak \/ o + 1 = run.end)
                                        THEN o ELSE proc.prevWordBreak
            /\ fed.localeListId = IF o = RunStart(RunAt(o)) THEN run.localeListId ELSE proc.localeListId
<1> DEFINE r == RunAt(o)
           p == IF o = RunStart(r) THEN UpdateLocaleIfNecessary(proc, r) ELSE proc
           may == par.runs[r].canBreak \/ o + 1 = par.runs[r].end
           fed == FeedChar(p, o, may)
<1>1. Feed(proc, o) = fed
  BY DEF Feed
<1>2. /\ fed.nextWordBreak = IF o = p.nextWordBreak THEN NextBoundary(o) ELSE p.nextWordBreak
      /\ fed.prevWordBreak = IF o = p.nextWordBreak /\ may THEN o ELSE p.prevWordBreak
      /\ fed.localeListId = p.localeListId
  BY DEF FeedChar
<1>5. p.localeListId = IF o = RunStart(r) THEN par.runs[r].localeListId ELSE proc.localeListId
  <2> DEFINE id == par.runs[r].localeListId
             old == proc.nextWordBreak
             mail == old \in DOMAIN par.words /\ par.words[old] # "word"
             b == IF mail THEN old ELSE NextBoundary(RunStart(r))
  <2>1. CASE o = RunStart(r) /\ proc.localeListId # id
    <3>1. p = [proc EXCEPT !.nextWordBreak = b, !.localeListId = id]
      BY <2>1 DEF UpdateLocaleIfNecessary
    <3> HIDE DEF p, b, id
    <3>2. p.localeListId = id
      BY <3>1 DEF Procs
    <3>. QED  BY <2>1, <3>2 DEF id
  <2>2. CASE o = RunStart(r) /\ proc.localeListId = id
    <3>1. p = proc
      BY <2>2 DEF UpdateLocaleIfNecessary
    <3>. QED  BY <2>2, <3>1
  <2>3. CASE o # RunStart(r)
    BY <2>3
  <2>. QED  BY <2>1, <2>2, <2>3
<1>3. CASE BeginsAnew(proc, o)
  <2>1. o = RunStart(r) /\ p = [proc EXCEPT !.nextWordBreak = NextBoundary(o),
                                            !.localeListId = par.runs[r].localeListId]
    BY <1>3 DEF BeginsAnew, UpdateLocaleIfNecessary
  <2> HIDE DEF p
  <2>2. p.nextWordBreak = NextBoundary(o) /\ p.prevWordBreak = proc.prevWordBreak
    BY <2>1 DEF Procs
  <2>3. NextBoundary(o) \in Nat /\ NextBoundary(o) > o /\ o \in Nat
    BY NextBoundaryIs, ParagraphShape
  <2>4. o # p.nextWordBreak
    BY <2>2, <2>3
  <2>. QED  BY <1>1, <1>2, <1>3, <1>5, <2>2, <2>4
<1>4. CASE ~BeginsAnew(proc, o)
  <2>1. p.nextWordBreak = proc.nextWordBreak /\ p.prevWordBreak = proc.prevWordBreak
    <3>1. CASE o = RunStart(r) /\ proc.localeListId # par.runs[r].localeListId
      <4>1. p = [proc EXCEPT !.nextWordBreak = proc.nextWordBreak, !.localeListId = par.runs[r].localeListId]
        BY <1>4, <3>1 DEF BeginsAnew, UpdateLocaleIfNecessary
      <4> HIDE DEF p
      <4>. QED  BY <4>1 DEF Procs
    <3>2. CASE ~(o = RunStart(r) /\ proc.localeListId # par.runs[r].localeListId)
      <4>1. p = proc
        BY <3>2 DEF UpdateLocaleIfNecessary
      <4>. QED  BY <4>1
    <3>. QED  BY <3>1, <3>2
  <2> HIDE DEF p
  <2>. QED  BY <1>1, <1>2, <1>4, <1>5, <2>1
<1>. QED  BY <1>3, <1>4

(* A processor that follows does so with each character.                   *)
LEMMA FollowsOn ==
  ASSUME IsParagraph(par), NEW o \in 0..Size - 1, NEW proc \in Procs(o), Follows(proc, o)
  PROVE  Follows(Feed(proc, o), o + 1)
<1>1. o \in Nat /\ o + 1 # 0 /\ o + 1 - 1 = o
  BY ParagraphShape
<1>2. proc.nextWordBreak = o \/ proc.nextWordBreak = NextBoundary(o)
  <2>1. CASE o = 0
    BY <2>1 DEF Follows
  <2>2. CASE o # 0
    <3>1. o \in 1..Size - 1
      BY <2>2, ParagraphShape
    <3>. QED  BY <2>2, <3>1, SameBoundary DEF Follows
  <2>. QED  BY <2>1, <2>2
<1>3. Feed(proc, o).nextWordBreak = NextBoundary(o)
  BY <1>2, FedWith
<1>. QED  BY <1>1, <1>3 DEF Follows

(* A word of a run that can be broken, from one boundary to the next, that *)
(* the measuring pass does not take another locale behind the start of.    *)
IsWordOf(r, from, end) ==
  /\ r \in DOMAIN par.runs /\ par.runs[r].canBreak
  /\ end \in DOMAIN par.words /\ from \in {0} \cup DOMAIN par.words /\ from < end
  /\ \A b \in DOMAIN par.words : b < end => b <= from
  /\ RunStart(r) <= from /\ end <= par.runs[r].end
  /\ \A q \in 2..r : MeasuredAnew(q) => RunStart(q) < from

(* The processor goes through it: behind its start, that is the boundary   *)
(* it came from.                                                           *)
GoesThrough(proc, o, from) ==
  Follows(proc, o) /\ (from < o \/ from = 0 => proc.prevWordBreak = from)

(* It goes through the word from the start, character by character, if it  *)
(* does not begin anew there.                                              *)
LEMMA GoesOn ==
  ASSUME IsParagraph(par), NEW r, NEW from, NEW end, IsWordOf(r, from, end),
         NEW o \in 0..end - 1, NEW proc \in Procs(o), GoesThrough(proc, o, from),
         o = from /\ o # 0 => ~BeginsAnew(proc, o)
  PROVE  GoesThrough(Feed(proc, o), o + 1, from)
<1>1. PICK n \in Nat : n = Len(par.runs) /\ n >= 1 /\ DOMAIN par.runs = 1..n
  BY RunsAre
<1>2. Size \in Nat /\ end \in Nat /\ end <= Size /\ from \in Nat /\ from < end
  BY ParagraphShape DEF IsWordOf
<1>3. o \in Nat /\ o < end /\ o \in 0..Size - 1
  BY <1>2
<1>4. Follows(proc, o) /\ (from < o \/ from = 0 => proc.prevWordBreak = from)
  BY DEF GoesThrough
<1>5. Follows(Feed(proc, o), o + 1)
  BY <1>3, <1>4, FollowsOn
<1>6. CASE o < from
  BY <1>2, <1>3, <1>5, <1>6 DEF GoesThrough
<1>7. CASE o = from /\ o # 0
  <2>1. o \in DOMAIN par.words /\ o \in 1..Size - 1
    BY <1>3, <1>7 DEF IsWordOf
  <2>2. proc.nextWordBreak = o
    BY <1>4, <1>7, <2>1, SameBoundary DEF Follows
  <2>3. r \in 1..n /\ RunStart(r) <= o /\ o < par.runs[r].end
    <3>1. r \in 1..n /\ RunStart(r) <= from /\ end <= par.runs[r].end
      BY <1>1 DEF IsWordOf
    <3>2. par.runs[r].end \in 1..Size
      BY <1>1, <3>1, ParagraphShape
    <3>. QED  BY <1>2, <1>3, <1>7, <3>1, <3>2
  <2>4. RunAt(o) = r
    BY <1>1, <1>3, <2>3, RunAtIt
  <2>5. ~BeginsAnew(proc, o)
    BY <1>7
  <2>6. Feed(proc, o).prevWordBreak = o
    BY <1>3, <2>2, <2>4, <2>5, FedWith DEF IsWordOf
  <2>. QED  BY <1>5, <1>7, <2>6 DEF GoesThrough
<1>8. CASE from < o \/ o = 0
  <2>1. CASE o = 0
    <3>1. from = 0 => proc.prevWordBreak = 0
      BY <1>4
    <3>2. from = 0 => Feed(proc, o).prevWordBreak = 0
      BY <1>3, <2>1, <3>1, FedWith
    <3>3. from < o + 1 => from = 0
      BY <1>2, <2>1
    <3>. QED  BY <1>5, <3>2, <3>3 DEF GoesThrough
  <2>2. CASE o # 0
    <3>1. from < o
      BY <1>8, <2>2
    <3>2. o \notin DOMAIN par.words
      BY <1>2, <1>3, <3>1 DEF IsWordOf
    <3>6. o - 1 \in 0..Size - 1
      BY <1>2, <1>3, <2>2
    <3>3. o - 1 \in 0..Size - 1 /\ proc.nextWordBreak = NextBoundary(o - 1)
      BY <1>4, <2>2, <3>6 DEF Follows
    <3>4. proc.nextWordBreak # o
      BY <3>2, <3>3, NextBoundaryIs
    <3>5. Feed(proc, o).prevWordBreak = proc.prevWordBreak
      BY <1>3, <3>4, FedWith
    <3>. QED  BY <1>4, <1>5, <3>1, <3>5 DEF GoesThrough
  <2>. QED  BY <2>1, <2>2
<1>9. o < from \/ o = from \/ from < o
  BY <1>2, <1>3
<1>. QED  BY <1>6, <1>7, <1>8, <1>9

(* A processor begins so.                                                  *)
LEMMA GoesFromTheFirst ==
  ASSUME NEW from \in Nat PROVE GoesThrough(Proc, 0, from)
BY DEF GoesThrough, Follows, Proc

(* Runs that cannot be broken are skipped.  Then the processor waits for a *)
(* boundary it has passed, but begins again where the locale changes,      *)
(* unless that boundary is of an address or URL.                           *)
Skips(o) ==
  LET r == RunAt(o)
  IN par.runs[r].canBreak \/ r = 1 \/ par.words[NextBoundary(RunStart(r) - 1)] = "word"
Waits(proc, o) ==
  \/ proc.nextWordBreak = 0
  \/ proc.nextWordBreak \in DOMAIN par.words /\ par.words[proc.nextWordBreak] = "word"
  \/ o # 0 /\ Follows(proc, o) /\ par.runs[RunAt(o - 1)].canBreak

(* Either is kept by the characters that are fed and those that are not.   *)
LEMMA WaitsWhenFed ==
  ASSUME IsParagraph(par), NEW o \in 0..Size - 1, NEW proc \in Procs(o), Waits(proc, o),
         par.runs[RunAt(o)].canBreak
  PROVE  Waits(Feed(proc, o), o + 1)
<1>0. o \in Nat /\ o + 1 # 0 /\ o + 1 - 1 = o /\ 0 \notin DOMAIN par.words
  BY ParagraphShape
<1>1. CASE Feed(proc, o).nextWordBreak = NextBoundary(o)
  BY <1>0, <1>1 DEF Waits, Follows
<1>2. CASE Feed(proc, o).nextWordBreak # NextBoundary(o)
  <2>1. ~BeginsAnew(proc, o) /\ o # proc.nextWordBreak /\ Feed(proc, o).nextWordBreak = proc.nextWordBreak
    BY <1>2, FedWith
  <2>2. CASE o # 0 /\ Follows(proc, o)
    <3>1. proc.nextWordBreak = NextBoundary(o - 1) /\ o \in 1..Size - 1
      BY <2>2, ParagraphShape DEF Follows
    <3>2. NextBoundary(o - 1) = o \/ NextBoundary(o - 1) = NextBoundary(o)
      BY <3>1, SameBoundary
    <3>. QED  BY <1>2, <2>1, <3>1, <3>2
  <2>3. CASE ~(o # 0 /\ Follows(proc, o))
    BY <2>1, <2>3 DEF Waits
  <2>. QED  BY <2>2, <2>3
<1>. QED  BY <1>1, <1>2

LEMMA WaitsWhenSkipped ==
  ASSUME IsParagraph(par), NEW o \in 0..Size - 1, NEW proc \in Procs(o), Waits(proc, o),
         ~par.runs[RunAt(o)].canBreak, Skips(o)
  PROVE  Waits(proc, o + 1)
<1>0. o \in Nat /\ o \in 0..Size - 1 /\ Size \in Nat
  BY ParagraphShape
<1>1. CASE o # 0 /\ Follows(proc, o) /\ par.runs[RunAt(o - 1)].canBreak
  <2>1. o - 1 \in 0..Size - 1 /\ o - 1 \in Nat
    BY <1>0, <1>1
  <2> DEFINE r == RunAt(o)
  <2>2. r \in DOMAIN par.runs /\ RunStart(r) <= o /\ o < par.runs[r].end
    BY RunAtIs
  <2>3. PICK a \in Nat : a = RunStart(r)
    BY <2>2, ParagraphShape
  <2>4. PICK z \in Nat : z = par.runs[r].end
    <3>1. par.runs[r].end \in 1..Size
      BY <2>2, ParagraphShape
    <3>. QED  BY <1>0, <3>1
  <2>5. a = o
    <3> SUFFICES ASSUME a # o PROVE FALSE
      OBVIOUS
    <3>1. a <= o - 1 /\ o - 1 < z
      BY <1>0, <2>2, <2>3, <2>4
    <3>2. RunAt(o - 1) = r
      BY <2>1, <2>2, <2>3, <2>4, <3>1, RunAtIt
    <3>. QED  BY <1>1, <3>2
  <2>6. r # 1
    BY <1>1, <2>3, <2>5 DEF RunStart
  <2>7. par.words[NextBoundary(o - 1)] = "word"
    BY <2>3, <2>5, <2>6 DEF Skips
  <2>8. NextBoundary(o - 1) \in DOMAIN par.words
    BY <2>1, NextBoundaryIs
  <2>. QED  BY <1>1, <2>7, <2>8 DEF Waits, Follows
<1>2. CASE ~(o # 0 /\ Follows(proc, o) /\ par.runs[RunAt(o - 1)].canBreak)
  BY <1>2 DEF Waits
<1>. QED  BY <1>1, <1>2

(* The members of a set in order are all of them.                          *)
LEMMA AscendingHas ==
  ASSUME NEW set, NEW a \in Nat, a >= 1, NEW n \in Nat, a - 1 <= n, NEW x \in a..n, x \in set
  PROVE  \E k \in DOMAIN Ascending(set, a, n) : Ascending(set, a, n)[k] = x
<1> DEFINE z == a - 1
           f == CHOOSE f : f = [k \in a - 1..n |-> IF k = a - 1 THEN << >>
                                                   ELSE IF k \in set THEN Append(f[k - 1], k) ELSE f[k - 1]]
           Has(k) == f[k] \in Seq(Nat) /\ (x <= k => \E i \in 1..Len(f[k]) : f[k][i] = x)
           bad == {k \in z..n : ~Has(k)}
<1>0. z \in Nat /\ z <= n /\ x \in Nat /\ z < x /\ x <= n /\ n \in z..n
  OBVIOUS
<1>1. IsAscending(set, a, n, f)
  <2>1. \E g : IsAscending(set, a, n, g)
    BY AscendingExists
  <2>. QED  BY <2>1 DEF IsAscending
<1>2. Ascending(set, a, n) = f[n]
  BY DEF Ascending
<1> HIDE DEF f
<1>3. \A k \in z..n : f[k] = IF k = z THEN << >> ELSE IF k \in set THEN Append(f[k - 1], k) ELSE f[k - 1]
  BY <1>1 DEF IsAscending
<1> HIDE DEF z
<1>4. bad = {}
  <2>1. SUFFICES ASSUME bad # {} PROVE FALSE
    OBVIOUS
  <2>2. PICK k \in bad : \A y \in bad : k <= y
    BY <1>0, <2>1, SmallestExists, bad \in SUBSET Nat
  <2>3. k \in z..n /\ ~Has(k) /\ k \in Nat
    BY <1>0, <2>2
  <2>4. CASE k = z
    <3>1. f[k] = << >> /\ ~ (x <= k)
      BY <1>0, <1>3, <2>3, <2>4
    <3>. QED  BY <2>3, <3>1
  <2>5. CASE k # z
    <3>1. k - 1 \in z..n /\ ~ (k <= k - 1)
      BY <1>0, <2>3, <2>5
    <3>2. Has(k - 1)
      BY <2>2, <3>1
    <3>3. PICK p \in Seq(Nat) : p = f[k - 1] /\ (x <= k - 1 => \E i \in 1..Len(p) : p[i] = x)
      BY <3>2
    <3>4. f[k] = IF k \in set THEN Append(p, k) ELSE p
      BY <1>3, <2>3, <2>5, <3>3
    <3>5. CASE k \notin set
      <4>1. x <= k => x <= k - 1
        BY <1>0, <2>3, <3>5
      <4>. QED  BY <2>3, <3>3, <3>4, <3>5, <4>1
    <3>6. CASE k \in set
      <4>1. /\ Append(p, k) \in Seq(Nat) /\ Len(Append(p, k)) = Len(p) + 1 /\ Append(p, k)[Len(p) + 1] = k
            /\ \A i \in 1..Len(p) : Append(p, k)[i] = p[i]
        BY <2>3
      <4>2. x <= k => x <= k - 1 \/ x = k
        BY <1>0, <2>3
      <4>3. \A i \in 1..Len(p) : i \in 1..Len(p) + 1
        OBVIOUS
      <4>4. Len(p) + 1 \in 1..Len(p) + 1
        OBVIOUS
      <4>. QED  BY <2>3, <3>3, <3>4, <3>6, <4>1, <4>2, <4>3, <4>4
    <3>. QED  BY <3>5, <3>6
  <2>. QED  BY <2>4, <2>5
<1>5. Has(n)
  BY <1>0, <1>4
<1>6. DOMAIN f[n] = 1..Len(f[n])
  BY <1>5
<1>. QED  BY <1>0, <1>2, <1>5, <1>6

(* The points of a word are those strictly within it, with their types.    *)
LEMMA PointsWithin ==
  ASSUME IsParagraph(par), NEW o \in 0..Size - 1, NEW proc \in Procs(o), proc.nextWordBreak = o + 1
  PROVE  LET points == PopulateHyphenationPoints(RunAt(o), proc)
         IN \A k \in 1..Len(points) : points[k].offset < o + 1
<1> DEFINE to == o + 1  word == WordRange(to)
           points == Ascending(DOMAIN par.hyphen, word.start + 1, word.end - 1)
           all == PopulateHyphenationPoints(RunAt(o), proc)
<1>0. Size \in Nat /\ o \in Nat /\ to <= Size /\ to \in Nat
  BY ParagraphShape
<1>1. all = << >> \/ (word.start < word.end /\ DOMAIN all = DOMAIN points /\ \A k \in DOMAIN points : all[k].offset = points[k])
  BY DEF PopulateHyphenationPoints
<1>2. to \in DOMAIN par.words
  BY <1>0 DEF Procs
<1>3. word.start \in Nat /\ word.end \in 0..to
  BY <1>2, WordRangeBounds
<1>4. all \in Seq(HyphenBreaks)
  BY PointsAre
<1> HIDE DEF all, to
<1>5. CASE all = << >>
  <2>1. Len(all) = 0
    BY <1>5
  <2>2. \A k \in 1..Len(all) : FALSE
    BY <2>1
  <2>3. \A k \in 1..Len(all) : all[k].offset < to
    BY <2>2
  <2>. QED  BY <2>3 DEF all, to
<1>6. CASE all # << >>
  <2>1. PICK a \in Nat, b \in Nat : a = word.start /\ b = word.end /\ b <= to
    BY <1>0, <1>3
  <2>2. a < b
    BY <1>1, <1>6, <2>1
  <2>3. a + 1 \in Nat /\ a + 1 >= 1 /\ b - 1 \in Nat /\ a + 1 - 1 <= b - 1
    BY <2>2
  <2>4. points = Ascending(DOMAIN par.hyphen, a + 1, b - 1)
    BY <2>1
  <2> HIDE DEF word
  <2>5. PICK m \in Nat : DOMAIN points = 1..m /\ \A k \in 1..m : points[k] \in DOMAIN par.hyphen /\ points[k] \in a + 1..b - 1
    BY <2>3, <2>4, AscendingIn
  <2> HIDE DEF points
  <2>6. \A k \in 1..Len(all) : k \in DOMAIN points
    BY <1>1, <1>4, <1>6
  <2>7. \A p \in a + 1..b - 1 : p < to
    BY <1>0, <2>1
  <2>8. \A k \in 1..Len(all) : all[k].offset < to
    BY <1>1, <1>6, <2>5, <2>6, <2>7
  <2>. QED  BY <2>8 DEF all, to
<1>. QED  BY <1>5, <1>6

(* A word starts behind the boundary before it.                            *)
LEMMA WordStartsBehind ==
  ASSUME IsParagraph(par), NEW r, NEW from, NEW end, IsWordOf(r, from, end), WordRange(end).start < WordRange(end).end
  PROVE  from <= WordRange(end).start
<1> DEFINE word == WordRange(end)
           before == {0} \cup {c \in DOMAIN par.words : c < end}
                     \cup {o \in Restarts : (par.words[end] = "word" \/ o \in par.foundAt) /\ o < end}
           last == LastBoundary(end)
           starts == {o \in last..end - 1 : Char(o) # "open"}
           ends == {o \in last..end - 1 : ~IsStripped(Char(o))}
           s == IF starts = {} THEN end ELSE Smallest(starts)
           e == IF ends = {} THEN last ELSE Largest(ends) + 1
<1>1. Size \in Nat /\ end \in Nat /\ end <= Size /\ from \in Nat /\ from < end
  BY ParagraphShape DEF IsWordOf
<1>2. PICK a \in Nat, b \in Nat : a = word.start /\ b = word.end /\ a < b
  BY ParagraphShape, WordRangeBounds DEF IsWordOf
<1>3. before \in SUBSET (0..end) /\ before # {}
  BY <1>1, ParagraphShape DEF Restarts
<1>4. last = Largest(before)
  BY DEF LastBoundary
<1>5. from \in before
  BY <1>1 DEF IsWordOf
<1> HIDE DEF before
<1>6. PICK l \in 0..end : l = last /\ from <= l
  BY <1>1, <1>3, <1>4, <1>5, LargestExists
<1>7. word = IF par.words[end] # "word" THEN [start |-> last, end |-> last]
             ELSE IF s < e THEN [start |-> s, end |-> e] ELSE [start |-> e, end |-> e]
  BY DEF WordRange
<1>8. starts \in SUBSET Nat /\ \A x \in starts : from <= x
  BY <1>1, <1>6
<1> HIDE DEF starts, e, word
<1>9. from <= s
  <2>1. CASE starts = {}
    BY <1>1, <2>1
  <2>2. CASE starts # {}
    <3>1. Smallest(starts) \in starts
      BY <1>8, <2>2, SmallestExists
    <3>2. from <= Smallest(starts)
      BY <1>8, <3>1
    <3>. QED  BY <2>2, <3>2
  <2>. QED  BY <2>1, <2>2
<1> HIDE DEF s
<1>10. CASE par.words[end] # "word"
  BY <1>6, <1>7, <1>10 DEF word
<1>11. CASE par.words[end] = "word" /\ s < e
  <2>1. word.start = s
    BY <1>7, <1>11
  <2>. QED  BY <1>9, <2>1 DEF word
<1>12. CASE par.words[end] = "word" /\ ~(s < e)
  <2>1. word.start = e /\ word.end = e
    BY <1>7, <1>12
  <2>. QED  BY <1>2, <2>1
<1>. QED  BY <1>10, <1>11, <1>12

(* Each hyphenation point of a word is one of them.                        *)
LEMMA PointsHave ==
  ASSUME IsParagraph(par), NEW r, NEW from, NEW end, IsWordOf(r, from, end),
         NEW proc \in Procs(end - 1), proc.nextWordBreak = end, proc.prevWordBreak = from,
         NEW h \in DOMAIN par.hyphen, WordRange(end).start < h, h < WordRange(end).end
  PROVE  LET points == PopulateHyphenationPoints(r, proc)
         IN \E k \in DOMAIN points : points[k].offset = h /\ points[k].type = par.hyphen[h]
<1> DEFINE word == WordRange(end)
           points == Ascending(DOMAIN par.hyphen, word.start + 1, word.end - 1)
<1>0. Size \in Nat /\ end \in Nat /\ end <= Size /\ from \in Nat /\ from < end /\ h \in Nat /\ r \in DOMAIN par.runs
  BY ParagraphShape DEF IsWordOf
<1>1. word.start \in Nat /\ word.end \in 0..end
  BY ParagraphShape, WordRangeBounds DEF IsWordOf
<1>2. PICK a \in Nat, b \in Nat : a = word.start /\ b = word.end /\ b <= end /\ a < h /\ h < b
  BY <1>0, <1>1
<1>3. from <= a
  BY <1>0, <1>2, WordStartsBehind
<1>4. /\ word.start < word.end /\ RunStart(r) <= from /\ end <= par.runs[r].end
      /\ from <= word.start /\ word.end <= end
  <2>1. a < b
    BY <1>0, <1>2
  <2>. QED  BY <1>2, <1>3, <2>1 DEF IsWordOf
<1>5. /\ DOMAIN PopulateHyphenationPoints(r, proc) = DOMAIN points
      /\ \A k \in DOMAIN points : /\ PopulateHyphenationPoints(r, proc)[k].offset = points[k]
                                 /\ PopulateHyphenationPoints(r, proc)[k].type = par.hyphen[points[k]]
  BY <1>4 DEF PopulateHyphenationPoints
<1>6. points = Ascending(DOMAIN par.hyphen, a + 1, b - 1)
  BY <1>2
<1> HIDE DEF points
<1>7. \E k \in DOMAIN points : points[k] = h
  <2>1. a + 1 \in Nat /\ a + 1 >= 1 /\ b - 1 \in Nat /\ a + 1 - 1 <= b - 1 /\ h \in a + 1..b - 1
    BY <1>0, <1>2
  <2>. QED  BY <1>6, <2>1, AscendingHas
<1>. QED  BY <1>5, <1>7

(* Each hyphenation point that is merged is in what comes of it.           *)
LEMMA MergedHas ==
  ASSUME NEW hyphens \in Seq(HyphenBreaks), NEW desperates \in Seq(Desperates), NEW o \in Nat,
         NEW proc \in Procs(o), NEW penalty \in Nat, NEW j \in 1..Len(hyphens)
  PROVE  LET out == AppendWithMerging(hyphens, desperates, proc, penalty)
         IN \E i \in DOMAIN out : out[i].offset = hyphens[j].offset /\ out[i].hyphenType = hyphens[j].type
<1>1. PICK nh \in Nat, nd \in Nat, n \in Nat : nh = Len(hyphens) /\ nd = Len(desperates) /\ n = nh + nd
  OBVIOUS
<1>2. PICK f : /\ IsMerging(hyphens, desperates, proc, penalty, n, f)
              /\ AppendWithMerging(hyphens, desperates, proc, penalty) = f[n].out
  BY <1>1, Merging
<1> DEFINE Is(c) == c.offset = hyphens[j].offset /\ c.hyphenType = hyphens[j].type
           Has(m) == \E i \in 1..Len(m.out) : Is(m.out[i])
           bad == {k \in 0..n : j < f[k].h /\ ~Has(f[k])}
<1>3. \A k \in 0..n : /\ f[k].d \in 1..nd + 1 /\ f[k].h \in 1..nh + 1 /\ f[k].out \in Seq(Candidates)
                      /\ f[k].d + f[k].h = k + 2
  BY <1>1, <1>2 DEF IsMerging, Merges
<1>4. bad = {}
  <2>1. SUFFICES ASSUME bad # {} PROVE FALSE
    OBVIOUS
  <2>2. PICK k \in bad : \A y \in bad : k <= y
    BY <2>1, SmallestExists, bad \in SUBSET Nat
  <2>3. k \in 0..n /\ k \in Nat /\ j < f[k].h /\ ~Has(f[k])
    BY <2>2
  <2>4. k # 0
    <3>1. f[0].h = 1
      BY <1>2 DEF IsMerging
    <3>. QED  BY <2>3, <3>1
  <2>5. k - 1 \in 0..n - 1 /\ k - 1 \in 0..n /\ k - 1 + 1 = k /\ ~ (k <= k - 1)
    BY <2>3, <2>4
  <2>6. ~ (j < f[k - 1].h) \/ Has(f[k - 1])
    BY <2>2, <2>5
  <2>7. PICK m : m = f[k - 1]
    OBVIOUS
  <2>8. m.h \in 1..nh + 1 /\ m.out \in Seq(Candidates) /\ m \in Merges(hyphens, desperates, k - 1)
    BY <1>2, <1>3, <2>5, <2>7 DEF IsMerging
  <2>9. f[k] = Take(m, hyphens, desperates, proc, penalty)
    BY <1>2, <2>5, <2>7 DEF IsMerging
  <2>10. PICK out \in Seq(Candidates) : out = m.out
    BY <2>8
  <2>11. CASE DesperateIsNext(m, hyphens, desperates)
    <3>1. PICK c : c = PushDesperate(desperates[m.d], proc)
      OBVIOUS
    <3>2. f[k].h = m.h /\ f[k].out = Append(out, c)
      BY <2>8, <2>9, <2>10, <2>11, <3>1 DEF Take, TakeDesperate, Merges
    <3>3. \E i \in 1..Len(out) : Is(out[i])
      BY <2>3, <2>6, <2>7, <2>10, <3>2
    <3>4. f[k].out \in Seq(Candidates)
      BY <1>3, <2>3
    <3>5. Len(Append(out, c)) = Len(out) + 1 /\ \A i \in 1..Len(out) : Append(out, c)[i] = out[i] /\ i \in 1..Len(out) + 1
      OBVIOUS
    <3>. QED  BY <2>3, <3>2, <3>3, <3>5
  <2>12. CASE ~DesperateIsNext(m, hyphens, desperates)
    <3>1. PICK c : c = PushHyphenation(hyphens[m.h], proc, penalty)
      OBVIOUS
    <3>2. f[k].h = m.h + 1 /\ f[k].out = Append(out, c)
      BY <2>8, <2>9, <2>10, <2>12, <3>1 DEF Take, TakeHyphen, Merges
    <3>3. /\ Len(Append(out, c)) = Len(out) + 1 /\ Append(out, c)[Len(out) + 1] = c
          /\ Len(out) + 1 \in 1..Len(out) + 1
          /\ \A i \in 1..Len(out) : Append(out, c)[i] = out[i] /\ i \in 1..Len(out) + 1
      OBVIOUS
    <3>4. CASE j = m.h
      <4>1. Is(c)
        BY <3>1, <3>4 DEF PushHyphenation
      <4>. QED  BY <2>3, <3>2, <3>3, <4>1
    <3>5. CASE j # m.h
      <4>1. j < m.h
        BY <2>3, <2>8, <3>2, <3>5
      <4>2. \E i \in 1..Len(out) : Is(out[i])
        BY <2>6, <2>7, <2>10, <4>1
      <4>. QED  BY <2>3, <3>2, <3>3, <4>2
    <3>. QED  BY <3>4, <3>5
  <2>. QED  BY <2>11, <2>12
<1>5. n \in 0..n /\ f[n].h = nh + 1
  <2>1. n \in 0..n
    OBVIOUS
  <2>2. f[n].d \in 1..nd + 1 /\ f[n].h \in 1..nh + 1 /\ f[n].d + f[n].h = n + 2
    BY <1>3, <2>1
  <2>3. PICK d \in 1..nd + 1, x \in 1..nh + 1 : d = f[n].d /\ x = f[n].h /\ d + x = n + 2
    BY <2>2
  <2>4. x = nh + 1
    BY <1>1, <2>3
  <2>. QED  BY <2>1, <2>3, <2>4
<1>6. Has(f[n])
  <2>1. j < f[n].h
    BY <1>1, <1>5
  <2>2. n \notin bad
    BY <1>4
  <2>. QED  BY <1>5, <2>1, <2>2
<1>7. DOMAIN f[n].out = 1..Len(f[n].out)
  BY <1>3, <1>5
<1>. QED  BY <1>2, <1>6, <1>7

(* What is kept by each step of a range is in all of it.                   *)
LEMMA KeptInRange ==
  ASSUME NEW a \in Nat, NEW b \in Nat, NEW good, a \in good, \A o \in a..b - 1 : o \in good => o + 1 \in good
  PROVE  \A o \in a..b : o \in good
<1> DEFINE bad == {o \in a..b : o \notin good}
<1>1. SUFFICES ASSUME bad # {} PROVE FALSE
  OBVIOUS
<1>2. PICK o \in bad : \A y \in bad : o <= y
  BY <1>1, SmallestExists, bad \in SUBSET Nat
<1>3. o \in a..b /\ o \notin good /\ o # a
  BY <1>2
<1>4. o - 1 \in a..b - 1 /\ o - 1 + 1 = o /\ o - 1 \in a..b /\ ~ (o <= o - 1)
  BY <1>3
<1>5. o - 1 \notin bad
  BY <1>2, <1>4
<1>6. o - 1 \in good
  BY <1>4, <1>5
<1>. QED  BY <1>3, <1>4, <1>6

(* A sequence that has grown.                                              *)
Begins(p, q) == Len(p) <= Len(q) /\ \A i \in 1..Len(p) : q[i] = p[i]

(* It may grow further.                                                    *)
LEMMA BeginsMore ==
  ASSUME NEW T, NEW p \in Seq(T), NEW q \in Seq(T), NEW more \in Seq(T), Begins(p, q)
  PROVE  Begins(p, q \o more)
<1>1. PICK a \in Nat, b \in Nat, c \in Nat : a = Len(p) /\ b = Len(q) /\ c = Len(more) /\ a <= b
  BY DEF Begins
<1>2. Len(q \o more) = b + c
  BY <1>1
<1>3. \A i \in 1..b : (q \o more)[i] = q[i]
  BY <1>1
<1>4. \A i \in 1..a : i \in 1..b /\ q[i] = p[i]
  BY <1>1 DEF Begins
<1>. QED  BY <1>1, <1>2, <1>3, <1>4 DEF Begins

(* Runs of characters in order are in order.                               *)
LEMMA RunsRise ==
  ASSUME IsParagraph(par), NEW o \in 0..Size - 1, NEW p \in 0..Size - 1, o <= p
  PROVE  RunAt(o) <= RunAt(p)
<1>1. PICK n \in Nat : n = Len(par.runs) /\ n >= 1 /\ DOMAIN par.runs = 1..n
  BY RunsAre
<1>2. PICK q \in 1..n : q = RunAt(o) /\ RunStart(q) <= o
  BY <1>1, RunAtIs
<1>3. PICK r \in 1..n : r = RunAt(p) /\ p < par.runs[r].end
  BY <1>1, RunAtIs
<1>4. SUFFICES ASSUME r < q PROVE FALSE
  BY <1>2, <1>3
<1>5. par.runs[r].end <= RunStart(q)
  BY <1>1, <1>4, RunsInOrder
<1>6. PICK a \in Nat : a = par.runs[r].end
  <2>1. Size \in Nat /\ par.runs[r].end \in 1..Size
    BY <1>1, ParagraphShape
  <2>. QED  BY <2>1
<1>7. PICK b \in Nat : b = RunStart(q)
  BY <1>1, ParagraphShape
<1>8. o \in Nat /\ p \in Nat
  BY ParagraphShape
<1>. QED  BY <1>2, <1>3, <1>5, <1>6, <1>7, <1>8

(* Each step of the measuring pass.                                        *)
LEMMA MeasuredStep ==
  ASSUME IsParagraph(par), NEW f, IsMeasuring(f), NEW o \in 0..Size - 1
  PROVE  /\ f[o].proc \in Procs(o) /\ f[o].breaks \in Seq(HyphenBreaks)
         /\ ~par.runs[RunAt(o)].canBreak => f[o + 1] = f[o]
         /\ par.runs[RunAt(o)].canBreak =>
              /\ f[o + 1].proc = Feed(f[o].proc, o)
              /\ f[o + 1].breaks = IF o + 1 # Feed(f[o].proc, o).nextWordBreak THEN f[o].breaks
                                   ELSE f[o].breaks \o PopulateHyphenationPoints(RunAt(o), Feed(f[o].proc, o))
<1>1. o \in 0..Size
  BY ParagraphShape
<1>2. f[o] \in Measures(o) /\ f[o + 1] = MeasureChar(f[o], o)
  BY <1>1 DEF IsMeasuring
<1>3. f[o].proc \in Procs(o) /\ f[o].breaks \in Seq(HyphenBreaks)
  BY <1>2 DEF Measures
<1>4. CASE ~par.runs[RunAt(o)].canBreak
  BY <1>2, <1>3, <1>4 DEF MeasureChar
<1>5. CASE par.runs[RunAt(o)].canBreak
  BY <1>2, <1>3, <1>5 DEF MeasureChar, MeasureStep
<1>. QED  BY <1>3, <1>4, <1>5

(* The points that are found are of the text before.                       *)
LEMMA BreaksBehind ==
  ASSUME IsParagraph(par), NEW f, IsMeasuring(f)
  PROVE  \A o \in 0..Size : \A k \in 1..Len(f[o].breaks) : f[o].breaks[k].offset < o
<1> DEFINE Behind(o) == \A k \in 1..Len(f[o].breaks) : f[o].breaks[k].offset < o
           good == {o \in 0..Size : Behind(o)}
<1>0. Size \in Nat
  BY ParagraphShape
<1>1. 0 \in good
  <2>1. f[0].breaks = << >>
    BY DEF IsMeasuring
  <2>2. Len(f[0].breaks) = 0
    BY <2>1
  <2>. QED  BY <1>0, <2>2
<1>2. ASSUME NEW o \in 0..Size - 1, o \in good PROVE o + 1 \in good
  <2>0. o \in Nat /\ o + 1 \in 0..Size /\ o \in 0..Size
    BY <1>0
  <2>1. PICK b \in Seq(HyphenBreaks) : b = f[o].breaks
    BY MeasuredStep
  <2>2. \A k \in 1..Len(b) : b[k].offset < o
    BY <1>2, <2>1
  <2>3. \A k \in 1..Len(b) : b[k] \in HyphenBreaks
    OBVIOUS
  <2>4. \A k \in 1..Len(b) : b[k].offset \in Nat
    BY <2>3 DEF HyphenBreaks
  <2>5. \A k \in 1..Len(b) : b[k].offset < o + 1
    BY <2>0, <2>2, <2>4
  <2>6. CASE f[o + 1].breaks = b
    BY <2>0, <2>5, <2>6
  <2>7. CASE f[o + 1].breaks # b
    <3>1. /\ par.runs[RunAt(o)].canBreak /\ Feed(f[o].proc, o).nextWordBreak = o + 1
          /\ f[o + 1].breaks = b \o PopulateHyphenationPoints(RunAt(o), Feed(f[o].proc, o))
      BY <2>1, <2>7, MeasuredStep
    <3>2. PICK proc \in Procs(o) : proc = Feed(f[o].proc, o)
      BY Feeds, MeasuredStep
    <3>3. PICK p : p = PopulateHyphenationPoints(RunAt(o), proc)
      OBVIOUS
    <3>4. p \in Seq(HyphenBreaks)
      BY <3>1, <3>2, <3>3, PointsAre
    <3>5. \A k \in 1..Len(p) : p[k].offset < o + 1
      BY <3>1, <3>2, <3>3, PointsWithin
    <3>6. PICK m \in Nat, n \in Nat : m = Len(b) /\ n = Len(p)
      BY <3>4
    <3>7. Len(b \o p) = m + n /\ \A k \in 1..m + n : (b \o p)[k] = IF k <= m THEN b[k] ELSE p[k - m]
      BY <3>4, <3>6
    <3>8. \A k \in 1..m + n : (k <= m /\ k \in 1..m) \/ (k - m \in 1..n /\ ~(k <= m))
      OBVIOUS
    <3>9. \A k \in 1..m + n : (b \o p)[k].offset < o + 1
      BY <2>5, <3>5, <3>6, <3>7, <3>8
    <3>. QED  BY <2>0, <3>1, <3>2, <3>3, <3>6, <3>7, <3>9
  <2>. QED  BY <2>6, <2>7
<1> HIDE DEF good
<1>3. \A o \in 0..Size : o \in good
  BY <1>0, <1>1, <1>2, KeptInRange
<1>. QED  BY <1>3 DEF good

(* No point is lost again.                                                 *)
LEMMA BreaksRemain ==
  ASSUME IsParagraph(par), NEW f, IsMeasuring(f), NEW a \in 0..Size
  PROVE  Begins(f[a].breaks, f[Size].breaks)
<1> DEFINE good == {o \in 0..Size : Begins(f[a].breaks, f[o].breaks)}
<1>0. Size \in Nat /\ a \in Nat /\ Size \in a..Size
  BY ParagraphShape
<1>1. a \in good
  <2>1. f[a].breaks \in Seq(HyphenBreaks)
    BY DEF IsMeasuring, Measures
  <2>2. Len(f[a].breaks) \in Nat
    BY <2>1
  <2>. QED  BY <2>2 DEF Begins
<1>2. ASSUME NEW o \in a..Size - 1, o \in good PROVE o + 1 \in good
  <2>0. o \in 0..Size - 1 /\ o + 1 \in 0..Size
    BY <1>0
  <2>1. PICK b \in Seq(HyphenBreaks) : b = f[o].breaks
    BY <2>0, MeasuredStep
  <2>2. Begins(f[a].breaks, b)
    BY <1>2, <2>1
  <2>3. CASE f[o + 1].breaks = b
    BY <2>0, <2>2, <2>3
  <2>4. CASE f[o + 1].breaks # b
    <3>1. /\ par.runs[RunAt(o)].canBreak /\ Feed(f[o].proc, o).nextWordBreak = o + 1
          /\ f[o + 1].breaks = b \o PopulateHyphenationPoints(RunAt(o), Feed(f[o].proc, o))
      BY <2>0, <2>1, <2>4, MeasuredStep
    <3>2. PICK proc \in Procs(o) : proc = Feed(f[o].proc, o)
      BY <2>0, Feeds, MeasuredStep
    <3>3. PopulateHyphenationPoints(RunAt(o), proc) \in Seq(HyphenBreaks)
      BY <2>0, <3>1, <3>2, PointsAre
    <3>4. f[a].breaks \in Seq(HyphenBreaks)
      BY DEF IsMeasuring, Measures
    <3>5. Begins(f[a].breaks, b \o PopulateHyphenationPoints(RunAt(o), proc))
      BY <2>2, <3>3, <3>4, BeginsMore
    <3>. QED  BY <2>0, <3>1, <3>2, <3>5
  <2>. QED  BY <2>3, <2>4
<1> HIDE DEF good
<1>3. Size \in good
  BY <1>0, <1>1, <1>2, KeptInRange
<1>. QED  BY <1>3 DEF good

(* Where the measuring pass skips a run it is met again before run r ends. *)
NoneSkipped(r) == \A q \in 1..r : par.runs[q].canBreak \/ RestartsBehind(q, r)

(* A change of locale is met by a processor that begins again.             *)
LEMMA WaitsUpTo ==
  ASSUME IsParagraph(par), NEW f, IsMeasuring(f), NEW r \in DOMAIN par.runs, NoneSkipped(r),
         NEW o \in 0..Size - 1, RunAt(o) <= r
  PROVE  Waits(f[o].proc, o)
<1> DEFINE good == {p \in 0..o : Waits(f[p].proc, p)}
<1>0. Size \in Nat /\ o \in Nat /\ o \in 0..o
  BY ParagraphShape
<1>1. 0 \in good
  <2>1. f[0].proc = Proc
    BY DEF IsMeasuring
  <2>. QED  BY <1>0, <2>1 DEF Waits, Proc
<1>2. ASSUME NEW p \in 0..o - 1, p \in good PROVE p + 1 \in good
  <2>0. p \in 0..Size - 1 /\ p <= o /\ p + 1 \in 0..o
    BY <1>0
  <2>1. Waits(f[p].proc, p) /\ f[p].proc \in Procs(p)
    BY <1>2, <2>0, MeasuredStep
  <2>2. CASE par.runs[RunAt(p)].canBreak
    <3>1. f[p + 1].proc = Feed(f[p].proc, p)
      BY <2>0, <2>2, MeasuredStep
    <3>2. Waits(Feed(f[p].proc, p), p + 1)
      BY <2>0, <2>1, <2>2, WaitsWhenFed
    <3>. QED  BY <2>0, <3>1, <3>2
  <2>3. CASE ~par.runs[RunAt(p)].canBreak
    <3>1. f[p + 1].proc = f[p].proc
      BY <2>0, <2>3, MeasuredStep
    <3>2. RunAt(p) <= RunAt(o)
      BY <2>0, RunsRise
    <3>3. RunAt(p) \in Nat /\ RunAt(p) >= 1 /\ RunAt(o) \in Nat /\ r \in Nat
      BY <2>0, RunAtIs, RunsAre
    <3>4. RunAt(p) \in 1..r
      BY <3>2, <3>3
    <3>5. Skips(p)
      BY <2>3, <3>4 DEF NoneSkipped, RestartsBehind, Skips
    <3>6. Waits(f[p].proc, p + 1)
      BY <2>0, <2>1, <2>3, <3>5, WaitsWhenSkipped
    <3>. QED  BY <2>0, <3>1, <3>6
  <2>. QED  BY <2>2, <2>3
<1> HIDE DEF good
<1>3. o \in good
  BY <1>0, <1>1, <1>2, KeptInRange
<1>. QED  BY <1>3 DEF good

(* Behind the first character of a new locale it follows again.            *)
LEMMA FollowsWhenAnew ==
  ASSUME IsParagraph(par), NEW o \in 0..Size - 1, NEW proc \in Procs(o), Waits(proc, o),
         o = RunStart(RunAt(o)), proc.localeListId # par.runs[RunAt(o)].localeListId
  PROVE  Follows(Feed(proc, o), o + 1)
<1>1. o \in Nat /\ o + 1 # 0 /\ o + 1 - 1 = o /\ 0 \notin DOMAIN par.words
  BY ParagraphShape
<1>2. CASE o # 0 /\ Follows(proc, o)
  BY <1>2, FollowsOn
<1>3. CASE ~(o # 0 /\ Follows(proc, o))
  <2>1. BeginsAnew(proc, o)
    BY <1>1, <1>3 DEF Waits, BeginsAnew
  <2>2. Feed(proc, o).nextWordBreak = NextBoundary(o)
    BY <2>1, FedWith
  <2>. QED  BY <1>1, <2>2 DEF Follows
<1>. QED  BY <1>2, <1>3

(* The locale of the measuring pass is that of the last run it was given.  *)
LocaleAt(o) ==
  LET q == RunAt(o)
  IN IF o # RunStart(q) /\ par.runs[q].canBreak THEN par.runs[q].localeListId ELSE MeasuredLocale(q)

LEMMA NextMeasuredLocale ==
  ASSUME IsParagraph(par), NEW q \in Nat, q >= 1
  PROVE  MeasuredLocale(q + 1) = IF par.runs[q].canBreak THEN par.runs[q].localeListId ELSE MeasuredLocale(q)
<1> DEFINE given == {p \in 1..q - 1 : par.runs[p].canBreak}
           next == {p \in 1..q + 1 - 1 : par.runs[p].canBreak}
<1>1. CASE ~par.runs[q].canBreak
  <2>1. next = given
    BY <1>1
  <2>2. MeasuredLocale(q + 1) = IF next = {} THEN kInvalidListId ELSE par.runs[Largest(next)].localeListId
    BY DEF MeasuredLocale
  <2>3. MeasuredLocale(q) = IF given = {} THEN kInvalidListId ELSE par.runs[Largest(given)].localeListId
    BY DEF MeasuredLocale
  <2> HIDE DEF given, next
  <2>. QED  BY <1>1, <2>1, <2>2, <2>3
<1>2. CASE par.runs[q].canBreak
  <2>1. next \in SUBSET (0..q) /\ q \in next
    BY <1>2
  <2>2. MeasuredLocale(q + 1) = IF next = {} THEN kInvalidListId ELSE par.runs[Largest(next)].localeListId
    BY DEF MeasuredLocale
  <2> HIDE DEF next
  <2>3. Largest(next) \in 0..q /\ q <= Largest(next)
    BY <2>1, LargestExists
  <2>4. Largest(next) = q
    BY <2>3
  <2>. QED  BY <1>2, <2>1, <2>2, <2>4
<1>. QED  BY <1>1, <1>2

LEMMA LocaleIsMeasured ==
  ASSUME IsParagraph(par), NEW f, IsMeasuring(f)
  PROVE  \A o \in 0..Size - 1 : f[o].proc.localeListId = LocaleAt(o)
<1> DEFINE good == {o \in 0..Size - 1 : f[o].proc.localeListId = LocaleAt(o)}
<1>0. Size \in Nat /\ Size >= 1 /\ Size - 1 \in Nat
  BY ParagraphShape
<1>1. 0 \in good
  <2>1. f[0].proc.localeListId = kInvalidListId
    BY DEF IsMeasuring, Proc
  <2>2. RunAt(0) = 1
    <3>1. 1 \in DOMAIN par.runs /\ RunStart(1) = 0
      BY RunsAre DEF RunStart
    <3>2. par.runs[1].end \in 1..Size
      BY <3>1, ParagraphShape
    <3>3. 0 \in 0..Size - 1 /\ RunStart(1) <= 0 /\ 0 < par.runs[1].end
      BY <1>0, <3>1, <3>2
    <3>. QED  BY <3>1, <3>3, RunAtIt
  <2>3. LocaleAt(0) = MeasuredLocale(1)
    BY <2>2 DEF LocaleAt, RunStart
  <2>4. MeasuredLocale(1) = kInvalidListId
    <3>1. {p \in 1..1 - 1 : par.runs[p].canBreak} = {}
      OBVIOUS
    <3>. QED  BY <3>1 DEF MeasuredLocale
  <2>. QED  BY <1>0, <2>1, <2>3, <2>4
<1>2. ASSUME NEW o \in 0..Size - 1 - 1, o \in good PROVE o + 1 \in good
  <2>0. o \in 0..Size - 1 /\ o + 1 \in 0..Size - 1 /\ o \in Nat
    BY <1>0
  <2>1. PICK n \in Nat : n = Len(par.runs) /\ n >= 1 /\ DOMAIN par.runs = 1..n
    BY RunsAre
  <2>2. PICK q \in 1..n : q = RunAt(o) /\ RunStart(q) <= o /\ o < par.runs[q].end
    BY <2>0, <2>1, RunAtIs
  <2>3. PICK a \in Nat, z \in Nat : a = RunStart(q) /\ z = par.runs[q].end /\ a <= o /\ o < z
    <3>1. RunStart(q) \in Nat /\ par.runs[q].end \in 1..Size
      BY <2>1, ParagraphShape
    <3>. QED  BY <1>0, <2>2, <3>1
  <2>4. f[o].proc \in Procs(o) /\ f[o].proc.localeListId = LocaleAt(o)
    BY <1>2, <2>0, MeasuredStep
  <2>5. f[o + 1].proc.localeListId = IF par.runs[q].canBreak THEN par.runs[q].localeListId ELSE MeasuredLocale(q)
    <3>1. CASE ~par.runs[q].canBreak
      <4>1. f[o + 1].proc = f[o].proc
        BY <2>0, <2>2, <3>1, MeasuredStep
      <4>. QED  BY <2>2, <2>4, <3>1, <4>1 DEF LocaleAt
    <3>2. CASE par.runs[q].canBreak
      <4>1. f[o + 1].proc = Feed(f[o].proc, o)
        BY <2>0, <2>2, <3>2, MeasuredStep
      <4>2. Feed(f[o].proc, o).localeListId
              = IF o = RunStart(q) THEN par.runs[q].localeListId ELSE f[o].proc.localeListId
        BY <2>0, <2>2, <2>4, FedWith
      <4>3. o # RunStart(q) => f[o].proc.localeListId = par.runs[q].localeListId
        BY <2>2, <2>4, <3>2 DEF LocaleAt
      <4>. QED  BY <3>2, <4>1, <4>2, <4>3
    <3>. QED  BY <3>1, <3>2
  <2>6. LocaleAt(o + 1) = IF par.runs[q].canBreak THEN par.runs[q].localeListId ELSE MeasuredLocale(q)
    <3>1. CASE o + 1 < z
      <4>1. a <= o + 1 /\ o + 1 # a
        BY <2>3
      <4>2. RunAt(o + 1) = q
        BY <2>0, <2>1, <2>3, <3>1, <4>1, RunAtIt
      <4>. QED  BY <2>3, <4>1, <4>2 DEF LocaleAt
    <3>2. CASE ~(o + 1 < z)
      <4>1. z = o + 1
        BY <2>0, <2>3, <3>2
      <4>2. PICK p \in 1..n : p = RunAt(o + 1) /\ RunStart(p) <= o + 1 /\ o + 1 < par.runs[p].end
        BY <2>0, <2>1, RunAtIs
      <4>3. p = q + 1
        <5>1. PICK y \in Nat : y = par.runs[p].end /\ z < y
          <6>1. par.runs[p].end \in 1..Size
            BY <2>1, ParagraphShape
          <6>. QED  BY <1>0, <4>1, <4>2, <6>1
        <5>2. ~(p = q)
          BY <2>3, <5>1
        <5>3. ~(p < q)
          <6> SUFFICES ASSUME p < q PROVE FALSE
            OBVIOUS
          <6>1. par.runs[p].end <= RunStart(q)
            BY <2>1, RunsInOrder
          <6>. QED  BY <2>0, <2>3, <4>1, <5>1, <6>1
        <5>4. ~(q + 1 < p)
          <6> SUFFICES ASSUME q + 1 < p PROVE FALSE
            OBVIOUS
          <6>1. q + 1 \in 1..n /\ q + 1 # 1 /\ q + 1 - 1 = q
            BY <5>1
          <6>2. par.runs[q + 1].end <= RunStart(p) /\ RunStart(q + 1) < par.runs[q + 1].end
            BY <2>1, <6>1, RunsInOrder DEF IsParagraph, RunStart
          <6>3. RunStart(q + 1) = z
            BY <2>3, <6>1 DEF RunStart
          <6>4. PICK x \in Nat : x = par.runs[q + 1].end
            <7>1. par.runs[q + 1].end \in 1..Size
              BY <2>1, <6>1, ParagraphShape
            <7>. QED  BY <1>0, <7>1
          <6>5. PICK w \in Nat : w = RunStart(p) /\ w <= o + 1
            BY <2>1, <4>2, ParagraphShape
          <6>. QED  BY <2>0, <4>1, <6>2, <6>3, <6>4, <6>5
        <5>. QED  BY <5>2, <5>3, <5>4
      <4>4. RunStart(p) = o + 1
        <5>1. p # 1 /\ p - 1 = q
          BY <4>3
        <5>. QED  BY <2>3, <4>1, <5>1 DEF RunStart
      <4>5. LocaleAt(o + 1) = MeasuredLocale(q + 1)
        BY <4>2, <4>3, <4>4 DEF LocaleAt
      <4>. QED  BY <4>5, NextMeasuredLocale
    <3>. QED  BY <3>1, <3>2
  <2>. QED  BY <2>0, <2>5, <2>6
<1> HIDE DEF good
<1>3. \A o \in 0..Size - 1 : o \in good
  BY <1>0, <1>1, <1>2, KeptInRange
<1>. QED  BY <1>3 DEF good

(* From the last change of locale before a word, all runs are measured.    *)
LEMMA LastChange ==
  ASSUME IsParagraph(par), NEW r \in DOMAIN par.runs, NoneSkipped(r)
  PROVE  \E n \in 1..r : /\ n = 1 \/ MeasuredAnew(n)
                         /\ \A q \in n..r : par.runs[q].canBreak
<1> DEFINE changes == {1} \cup {q \in 2..r : MeasuredAnew(q)}
<1>0. r \in Nat /\ r >= 1
  BY RunsAre
<1>1. changes \in SUBSET (0..r) /\ changes # {} /\ changes \subseteq 1..r
  BY <1>0
<1>2. PICK n \in 1..r : n = Largest(changes) /\ n \in changes /\ \A y \in changes : y <= n
  BY <1>0, <1>1, LargestExists
<1>3. ASSUME NEW q \in n..r PROVE par.runs[q].canBreak
  <2>1. q \in 1..r
    OBVIOUS
  <2>2. SUFFICES ASSUME NEW m \in q + 1..r, MeasuredAnew(m) PROVE FALSE
    BY <2>1 DEF NoneSkipped, RestartsBehind
  <2>3. m \in 2..r /\ ~(m <= n)
    OBVIOUS
  <2>. QED  BY <1>2, <2>2, <2>3
<1>. QED  BY <1>2, <1>3

(* The processor of the measuring pass goes through each word that can be  *)
(* hyphenated.                                                             *)
LEMMA MeasuringGoes ==
  ASSUME IsParagraph(par), NEW f, IsMeasuring(f), NEW r, NEW from, NEW end,
         IsWordOf(r, from, end), NoneSkipped(r)
  PROVE  /\ f[end - 1].proc \in Procs(end - 1) /\ f[end].proc = Feed(f[end - 1].proc, end - 1)
         /\ GoesThrough(f[end].proc, end, from)
<1>0. /\ Size \in Nat /\ end \in Nat /\ end <= Size /\ from \in Nat /\ from < end
      /\ r \in DOMAIN par.runs /\ end - 1 \in 0..Size - 1
  BY ParagraphShape DEF IsWordOf
<1>1. r \in Nat /\ r >= 1 /\ DOMAIN par.runs = 1..Len(par.runs) /\ r <= Len(par.runs) /\ Len(par.runs) \in Nat
  BY <1>0, RunsAre
<1>2. RunAt(end - 1) = r
  <2>1. PICK a \in Nat : a = RunStart(r) /\ a <= from
    BY <1>0, ParagraphShape DEF IsWordOf
  <2>2. PICK z \in Nat : z = par.runs[r].end /\ end <= z
    <3>1. par.runs[r].end \in 1..Size
      BY <1>0, ParagraphShape
    <3>. QED  BY <1>0, <3>1 DEF IsWordOf
  <2>. QED  BY <1>0, <2>1, <2>2, RunAtIt
<1>3. PICK n \in 1..r : (n = 1 \/ MeasuredAnew(n)) /\ \A q \in n..r : par.runs[q].canBreak
  BY <1>0, LastChange
<1>4. PICK s \in Nat : s = RunStart(n) /\ s < par.runs[n].end
  <2>1. n \in DOMAIN par.runs
    BY <1>1
  <2>. QED  BY <2>1, ParagraphShape DEF IsParagraph, RunStart
<1>5. n # 1 => s < from
  BY <1>1, <1>3, <1>4 DEF IsWordOf
<1>6. n = 1 => s = 0
  BY <1>4 DEF RunStart
<1>7. s <= from /\ s \in 0..Size - 1 /\ RunAt(s) = n
  <2>1. s <= from
    BY <1>0, <1>5, <1>6
  <2>2. s \in 0..Size - 1
    BY <1>0, <2>1
  <2>3. n \in DOMAIN par.runs
    BY <1>1
  <2>. QED  BY <1>4, <2>1, <2>2, <2>3, RunAtIt
<1>8. ASSUME NEW o \in s..end - 1
      PROVE  /\ o \in 0..Size - 1 /\ par.runs[RunAt(o)].canBreak
             /\ f[o].proc \in Procs(o) /\ f[o + 1].proc = Feed(f[o].proc, o)
  <2>1. o \in 0..Size - 1 /\ s <= o /\ o <= end - 1
    BY <1>0
  <2>2. RunAt(s) <= RunAt(o) /\ RunAt(o) <= RunAt(end - 1)
    BY <1>0, <1>7, <2>1, RunsRise
  <2>3. RunAt(o) \in Nat
    BY <2>1, RunAtIs, RunsAre
  <2>4. RunAt(o) \in n..r
    BY <1>1, <1>2, <1>7, <2>2, <2>3
  <2>. QED  BY <1>3, <2>1, <2>4, MeasuredStep
<1>9. PICK a \in s..end : GoesThrough(f[a].proc, a, from)
  <2>1. CASE n = 1
    <3>1. f[0].proc = Proc /\ GoesThrough(Proc, 0, from)
      BY <1>0, GoesFromTheFirst DEF IsMeasuring
    <3>2. s = 0 /\ 0 \in s..end
      BY <1>0, <1>6, <2>1
    <3>. QED  BY <3>1, <3>2
  <2>2. CASE n # 1
    <3>1. RunAt(s) <= r
      BY <1>1, <1>7
    <3>2. Waits(f[s].proc, s)
      BY <1>0, <1>7, <3>1, WaitsUpTo
    <3>3. s \in s..end - 1
      BY <1>0, <1>7
    <3>7. f[s].proc.localeListId # par.runs[n].localeListId
      <4>1. f[s].proc.localeListId = MeasuredLocale(n)
        BY <1>4, <1>7, LocaleIsMeasured DEF LocaleAt
      <4>. QED  BY <1>3, <2>2, <4>1 DEF MeasuredAnew
    <3>4. Follows(Feed(f[s].proc, s), s + 1)
      BY <1>4, <1>7, <1>8, <3>2, <3>3, <3>7, FollowsWhenAnew
    <3>5. Follows(f[s + 1].proc, s + 1)
      BY <1>8, <3>3, <3>4
    <3>6. ~(from < s + 1 \/ from = 0) /\ s + 1 \in s..end
      BY <1>0, <1>5, <2>2
    <3>. QED  BY <3>5, <3>6 DEF GoesThrough
  <2>. QED  BY <2>1, <2>2
<1> DEFINE good == {o \in a..end : GoesThrough(f[o].proc, o, from)}
<1>10. a \in good /\ a \in Nat /\ a <= end
  BY <1>0, <1>9
<1>11. ASSUME NEW o \in a..end - 1, o \in good PROVE o + 1 \in good
  <2>1. o \in s..end - 1 /\ o \in 0..end - 1 /\ o + 1 \in a..end
    BY <1>0, <1>9
  <2>2. GoesThrough(f[o].proc, o, from) /\ f[o].proc \in Procs(o) /\ f[o + 1].proc = Feed(f[o].proc, o)
    BY <1>8, <1>11, <2>1
  <2>3. o = from /\ o # 0 => ~BeginsAnew(f[o].proc, o)
    <3> SUFFICES ASSUME o = from, o # 0, o = RunStart(RunAt(o)),
                        f[o].proc.localeListId # par.runs[RunAt(o)].localeListId
                 PROVE  FALSE
      BY DEF BeginsAnew
    <3>1. RunAt(o) = r
      <4>1. from <= end - 1 /\ from \in 0..Size - 1
        BY <1>0
      <4>2. RunStart(r) <= from
        BY DEF IsWordOf
      <4>3. PICK z \in Nat : z = par.runs[r].end /\ end <= z
        <5>1. par.runs[r].end \in 1..Size
          BY <1>0, ParagraphShape
        <5>. QED  BY <1>0, <5>1 DEF IsWordOf
      <4>. QED  BY <1>0, <4>1, <4>2, <4>3, RunAtIt
    <3>2. f[o].proc.localeListId = MeasuredLocale(r)
      BY <1>8, <2>1, <3>1, LocaleIsMeasured DEF LocaleAt
    <3>3. MeasuredAnew(r)
      BY <3>1, <3>2 DEF MeasuredAnew, IsWordOf
    <3>4. r \in 2..r
      <4>1. r # 1
        BY <3>1 DEF RunStart
      <4>. QED  BY <1>1, <4>1
    <3>5. RunStart(r) < from
      BY <3>3, <3>4 DEF IsWordOf
    <3>. QED  BY <1>0, <3>1, <3>5
  <2>4. GoesThrough(Feed(f[o].proc, o), o + 1, from)
    BY <2>1, <2>2, <2>3, GoesOn
  <2>. QED  BY <2>1, <2>2, <2>4
<1> HIDE DEF good
<1>12. end \in good
  <2>1. end \in a..end
    BY <1>0, <1>10
  <2>. QED  BY <1>0, <1>10, <1>11, <2>1, KeptInRange
<1>13. end - 1 \in s..end - 1 /\ end - 1 + 1 = end
  BY <1>0, <1>7
<1>. QED  BY <1>8, <1>12, <1>13 DEF good

(* Who follows is at the end of a word with its boundary.                  *)
LEMMA AtItsEnd ==
  ASSUME IsParagraph(par), NEW end \in DOMAIN par.words, NEW proc, Follows(proc, end)
  PROVE  proc.nextWordBreak = end
<1>1. Size \in Nat /\ end \in Nat /\ end <= Size /\ end # 0 /\ end - 1 \in 0..Size - 1
  BY ParagraphShape
<1>2. proc.nextWordBreak = NextBoundary(end - 1)
  BY <1>1 DEF Follows
<1>3. NextBoundary(end - 1) \in DOMAIN par.words /\ NextBoundary(end - 1) > end - 1
  BY <1>1, NextBoundaryIs
<1>4. NextBoundary(end - 1) <= end
  BY <1>1, NextBoundaryFirst
<1>5. NextBoundary(end - 1) \in Nat
  BY <1>1, <1>3, ParagraphShape
<1>. QED  BY <1>1, <1>2, <1>3, <1>4, <1>5

(* Each hyphenation point of such a word is found, before those behind it. *)
LEMMA MeasuredHas ==
  ASSUME IsParagraph(par), NEW r, NEW from, NEW end, IsWordOf(r, from, end), NoneSkipped(r),
         NEW h \in DOMAIN par.hyphen, WordRange(end).start < h, h < WordRange(end).end
  PROVE  \E k \in 1..Len(MeasuredHyphenBreaks) :
           /\ MeasuredHyphenBreaks[k].offset = h /\ MeasuredHyphenBreaks[k].type = par.hyphen[h]
           /\ \A j \in 1..k : MeasuredHyphenBreaks[j].offset < end
<1>0. /\ Size \in Nat /\ end \in Nat /\ end \in 0..Size /\ from \in Nat /\ from < end
      /\ r \in DOMAIN par.runs /\ end - 1 \in 0..Size - 1 /\ end - 1 + 1 = end
  BY ParagraphShape DEF IsWordOf
<1>1. PICK f : IsMeasuring(f) /\ MeasuredHyphenBreaks = f[Size].breaks
  BY Measuring
<1>2. RunAt(end - 1) = r
  <2>1. PICK a \in Nat : a = RunStart(r) /\ a <= from
    BY <1>0, ParagraphShape DEF IsWordOf
  <2>2. PICK z \in Nat : z = par.runs[r].end /\ end <= z
    <3>1. par.runs[r].end \in 1..Size
      BY <1>0, ParagraphShape
    <3>. QED  BY <1>0, <3>1 DEF IsWordOf
  <2>. QED  BY <1>0, <2>1, <2>2, RunAtIt
<1>3. /\ f[end - 1].proc \in Procs(end - 1) /\ f[end].proc = Feed(f[end - 1].proc, end - 1)
      /\ GoesThrough(f[end].proc, end, from)
  BY <1>1, MeasuringGoes
<1>4. PICK proc : proc = f[end].proc
  OBVIOUS
<1>5. proc \in Procs(end - 1)
  BY <1>0, <1>3, <1>4, Feeds
<1>6. proc.nextWordBreak = end /\ proc.prevWordBreak = from
  <2>1. end \in DOMAIN par.words /\ Follows(proc, end)
    BY <1>3, <1>4 DEF GoesThrough, IsWordOf
  <2>2. proc.nextWordBreak = end
    BY <2>1, AtItsEnd
  <2>. QED  BY <1>0, <1>3, <1>4, <2>2 DEF GoesThrough
<1>7. PICK points : points = PopulateHyphenationPoints(r, proc)
  OBVIOUS
<1>8. points \in Seq(HyphenBreaks)
  BY <1>0, <1>2, <1>5, <1>6, <1>7, PointsAre
<1>9. PICK i \in 1..Len(points) : points[i].offset = h /\ points[i].type = par.hyphen[h]
  <2>1. \E k \in DOMAIN points : points[k].offset = h /\ points[k].type = par.hyphen[h]
    BY <1>5, <1>6, <1>7, PointsHave
  <2>. QED  BY <1>8, <2>1
<1>10. PICK b \in Seq(HyphenBreaks) : b = f[end - 1].breaks
  BY <1>0, <1>1, MeasuredStep
<1>11. f[end].breaks = b \o points
  <2>1. par.runs[r].canBreak
    BY DEF IsWordOf
  <2>2. PICK o \in 0..Size - 1 : o = end - 1 /\ o + 1 = end /\ RunAt(o) = r /\ Feed(f[o].proc, o) = proc
    BY <1>0, <1>2, <1>3, <1>4
  <2>3. f[o + 1].breaks = IF o + 1 # Feed(f[o].proc, o).nextWordBreak THEN f[o].breaks
                          ELSE f[o].breaks \o PopulateHyphenationPoints(RunAt(o), Feed(f[o].proc, o))
    BY <1>1, <2>1, <2>2, MeasuredStep
  <2>4. f[end].breaks = IF end # proc.nextWordBreak THEN f[o].breaks
                        ELSE f[o].breaks \o PopulateHyphenationPoints(r, proc)
    BY <2>2, <2>3
  <2>. QED  BY <1>6, <1>7, <1>10, <2>2, <2>4
<1>12. PICK m \in Nat, n \in Nat : m = Len(b) /\ n = Len(points)
  BY <1>8
<1>13. Len(b \o points) = m + n /\ (b \o points)[m + i] = points[i] /\ m + i \in 1..m + n
  BY <1>8, <1>12
<1>14. \A k \in 1..m + n : (b \o points)[k].offset < end
  BY <1>0, <1>1, <1>11, <1>12, <1>13, BreaksBehind
<1>15. PICK all : all = MeasuredHyphenBreaks
  OBVIOUS
<1>16. Begins(b \o points, all)
  BY <1>0, <1>1, <1>11, <1>15, BreaksRemain
<1>17. all \in Seq(HyphenBreaks)
  BY <1>15, MeasuredAre
<1>18. m + n <= Len(all) /\ \A k \in 1..m + n : all[k] = (b \o points)[k]
  BY <1>13, <1>16 DEF Begins
<1>19. m + i \in 1..Len(all) /\ all[m + i].offset = h /\ all[m + i].type = par.hyphen[h]
  BY <1>9, <1>12, <1>13, <1>17, <1>18
<1>20. \A j \in 1..m + i : j \in 1..m + n
  BY <1>13
<1>21. \A j \in 1..m + i : all[j].offset < end
  BY <1>14, <1>18, <1>20
<1>. QED  BY <1>15, <1>19, <1>21

(* Two sequences joined.                                                   *)
LEMMA Joined ==
  ASSUME NEW T, NEW p \in Seq(T), NEW q \in Seq(T)
  PROVE  /\ p \o q \in Seq(T) /\ Len(p) \in Nat /\ Len(q) \in Nat /\ Len(p \o q) = Len(p) + Len(q)
         /\ \A i \in 1..Len(p) : (p \o q)[i] = p[i]
         /\ \A i \in 1..Len(q) : (p \o q)[Len(p) + i] = q[i]
<1>1. PICK m \in Nat, n \in Nat : m = Len(p) /\ n = Len(q)
  OBVIOUS
<1>2. p \o q \in Seq(T) /\ Len(p \o q) = m + n
  BY <1>1
<1>3. \A i \in 1..m : i \in 1..m + n /\ (p \o q)[i] = p[i]
  BY <1>1
<1>4. \A i \in 1..n : m + i \in 1..m + n /\ ~(m + i <= m) /\ m + i - m = i
  OBVIOUS
<1>5. \A i \in 1..n : (p \o q)[m + i] = q[i]
  BY <1>1, <1>4
<1>. QED  BY <1>1, <1>2, <1>3, <1>5

(* Each step of populateCandidates.                                        *)
LEMMA PopulatedStep ==
  ASSUME IsParagraph(par), NEW breaks \in Seq(HyphenBreaks), NEW f, IsPopulating(breaks, f), NEW o \in 0..Size - 1
  PROVE  LET proc == Feed(f[o].proc, o)
             run == RunAt(o)
             next == HyphensUpTo(breaks, f[o].hyIter, o + 1)
             merged == Mergeable(SubSeq(breaks, f[o].hyIter, next - 1), proc, o + 1, HyphenPenalty(run))
             word == WordCandidate(run, o + 1, proc, HyphenPenalty(run))
         IN /\ f[o].proc \in Procs(o) /\ proc \in Procs(o) /\ f[o + 1].proc = proc
            /\ f[o].hyIter \in 1..Len(breaks) + 1 /\ f[o].candidates \in Seq(Candidates)
            /\ f[o + 1].candidates \in Seq(Candidates)
            /\ o + 1 # proc.nextWordBreak =>
                 f[o + 1].hyIter = f[o].hyIter /\ f[o + 1].candidates = f[o].candidates
            /\ o + 1 = proc.nextWordBreak =>
                 /\ f[o + 1].hyIter = next /\ merged \in Seq(Candidates) /\ word \in Seq(Candidates)
                 /\ f[o + 1].candidates = f[o].candidates \o merged \o word
<1> DEFINE proc == Feed(f[o].proc, o)
           run == RunAt(o)
           next == HyphensUpTo(breaks, f[o].hyIter, o + 1)
           merged == Mergeable(SubSeq(breaks, f[o].hyIter, next - 1), proc, o + 1, HyphenPenalty(run))
           word == WordCandidate(run, o + 1, proc, HyphenPenalty(run))
<1>1. o \in 0..Size /\ o + 1 \in 0..Size
  BY ParagraphShape
<1>2. f[o] \in Passes(breaks, o) /\ f[o + 1] \in Passes(breaks, o + 1) /\ f[o + 1] = PopulateChar(breaks, f[o], o)
  BY <1>1 DEF IsPopulating
<1>3. /\ f[o].proc \in Procs(o) /\ f[o].hyIter \in 1..Len(breaks) + 1 /\ f[o].candidates \in Seq(Candidates)
      /\ f[o + 1].candidates \in Seq(Candidates)
      /\ f[o] = [proc |-> f[o].proc, hyIter |-> f[o].hyIter, candidates |-> f[o].candidates]
  BY <1>2 DEF Passes
<1>4. proc \in Procs(o)
  BY <1>3, Feeds
<1>5. merged \in Seq(Candidates) /\ word \in Seq(Candidates)
  BY <1>3, <1>4, PartsAre
<1>6. PopulateChar(breaks, f[o], o) = AddCandidates(breaks, f[o], run, o + 1, proc)
  BY DEF PopulateChar
<1>7. CASE o + 1 # proc.nextWordBreak
  <2>1. f[o + 1] = [f[o] EXCEPT !.proc = proc]
    BY <1>2, <1>6, <1>7 DEF AddCandidates
  <2> HIDE DEF proc
  <2>2. f[o + 1].proc = proc /\ f[o + 1].hyIter = f[o].hyIter /\ f[o + 1].candidates = f[o].candidates
    BY <1>3, <2>1
  <2>. QED  BY <1>3, <1>4, <1>7, <2>2 DEF proc
<1>8. CASE o + 1 = proc.nextWordBreak
  <2>1. f[o + 1] = [proc |-> proc, hyIter |-> next, candidates |-> f[o].candidates \o merged \o word]
    BY <1>2, <1>6, <1>8 DEF AddCandidates, PassBoundary
  <2> HIDE DEF proc, next, merged, word
  <2>2. /\ f[o + 1].proc = proc /\ f[o + 1].hyIter = next
        /\ f[o + 1].candidates = f[o].candidates \o merged \o word
    BY <2>1
  <2>. QED  BY <1>3, <1>4, <1>5, <1>8, <2>2 DEF proc, next, merged, word
<1>. QED  BY <1>7, <1>8

(* Candidates remain.                                                      *)
LEMMA CandidatesRemain ==
  ASSUME IsParagraph(par), NEW breaks \in Seq(HyphenBreaks), NEW f, IsPopulating(breaks, f),
         NEW a \in 0..Size, NEW b \in a..Size
  PROVE  Begins(f[a].candidates, f[b].candidates)
<1> DEFINE good == {o \in 0..Size : Begins(f[a].candidates, f[o].candidates)}
<1>0. Size \in Nat /\ a \in Nat /\ b \in Nat /\ b \in a..b /\ b <= Size
  BY ParagraphShape
<1>1. \A o \in 0..Size : f[o].candidates \in Seq(Candidates)
  BY DEF IsPopulating, Passes
<1>2. a \in good
  <2>1. Len(f[a].candidates) \in Nat
    BY <1>1
  <2>. QED  BY <2>1 DEF Begins
<1>3. ASSUME NEW o \in a..b - 1, o \in good PROVE o + 1 \in good
  <2>0. o \in 0..Size - 1 /\ o \in 0..Size /\ o + 1 \in 0..Size
    BY <1>0
  <2>1. PICK c \in Seq(Candidates) : c = f[o].candidates
    BY <1>1, <2>0
  <2>2. PICK p \in Seq(Candidates) : p = f[a].candidates
    BY <1>1
  <2>3. Begins(p, c)
    BY <1>3, <2>1, <2>2
  <2>4. CASE f[o + 1].candidates = c
    BY <2>0, <2>2, <2>3, <2>4
  <2>5. CASE f[o + 1].candidates # c
    <3>1. PICK merged \in Seq(Candidates), word \in Seq(Candidates) : f[o + 1].candidates = c \o merged \o word
      BY <2>0, <2>1, <2>5, PopulatedStep
    <3>2. c \o merged \in Seq(Candidates) /\ Begins(p, c \o merged)
      BY <2>3, BeginsMore
    <3>3. Begins(p, c \o merged \o word)
      BY <3>2, BeginsMore
    <3>. QED  BY <2>0, <2>2, <3>1, <3>3
  <2>. QED  BY <2>4, <2>5
<1> HIDE DEF good
<1>4. b \in good
  BY <1>0, <1>2, <1>3, KeptInRange
<1>. QED  BY <1>4 DEF good

(* The processor of this pass, which is given every run, always follows.   *)
LEMMA PopulatingFollows ==
  ASSUME IsParagraph(par), NEW breaks \in Seq(HyphenBreaks), NEW f, IsPopulating(breaks, f)
  PROVE  \A o \in 0..Size : Follows(f[o].proc, o)
<1> DEFINE good == {o \in 0..Size : Follows(f[o].proc, o)}
<1>0. Size \in Nat
  BY ParagraphShape
<1>1. 0 \in good
  <2>1. Follows(Proc, 0)
    BY GoesFromTheFirst DEF GoesThrough
  <2>. QED  BY <1>0, <2>1 DEF IsPopulating
<1>2. ASSUME NEW o \in 0..Size - 1, o \in good PROVE o + 1 \in good
  <2>1. o + 1 \in 0..Size
    BY <1>0
  <2>2. f[o].proc \in Procs(o) /\ f[o + 1].proc = Feed(f[o].proc, o)
    BY PopulatedStep
  <2>3. Follows(Feed(f[o].proc, o), o + 1)
    BY <1>2, <2>2, FollowsOn
  <2>. QED  BY <2>1, <2>2, <2>3
<1> HIDE DEF good
<1>3. \A o \in 0..Size : o \in good
  BY <1>0, <1>1, <1>2, KeptInRange
<1>. QED  BY <1>3 DEF good

(* The boundary before the word is a candidate.                            *)
LEMMA BoundaryIsCandidate ==
  ASSUME IsParagraph(par), NEW breaks \in Seq(HyphenBreaks), NEW f, IsPopulating(breaks, f),
         NEW r, NEW from, NEW end, IsWordOf(r, from, end)
  PROVE  \E i \in 1..Len(f[from].candidates) : f[from].candidates[i].offset = from
<1>0. Size \in Nat /\ end \in Nat /\ end <= Size /\ from \in Nat /\ from < end /\ r \in DOMAIN par.runs
  BY ParagraphShape DEF IsWordOf
<1>1. CASE from = 0
  <2>1. f[from].candidates = <<FirstCandidate>> /\ FirstCandidate.offset = 0
    BY <1>1 DEF IsPopulating, FirstCandidate
  <2>. QED  BY <1>1, <2>1
<1>2. CASE from # 0
  <2>0. PICK o \in 0..Size - 1 : o + 1 = from /\ o = from - 1 /\ o \in Nat
    BY <1>0, <1>2
  <2>1. PICK proc \in Procs(o) : proc = Feed(f[o].proc, o) /\ f[from].proc = proc
    <3>1. Feed(f[o].proc, o) \in Procs(o) /\ f[o + 1].proc = Feed(f[o].proc, o)
      BY PopulatedStep
    <3>. QED  BY <2>0, <3>1
  <2>2. proc.nextWordBreak = from
    <3>1. from \in 0..Size /\ from \in DOMAIN par.words
      BY <1>0, <1>2 DEF IsWordOf
    <3>2. Follows(proc, from)
      BY <2>1, <3>1, PopulatingFollows
    <3>. QED  BY <3>1, <3>2, AtItsEnd
  <2>3. PICK q : q = RunAt(o) /\ (par.runs[q].canBreak \/ from = par.runs[q].end)
    <3>1. PICK a \in Nat : a = RunStart(r) /\ a <= from
      BY <1>0, ParagraphShape DEF IsWordOf
    <3>2. PICK z \in Nat : z = par.runs[r].end /\ end <= z
      <4>1. par.runs[r].end \in 1..Size
        BY <1>0, ParagraphShape
      <4>. QED  BY <1>0, <4>1 DEF IsWordOf
    <3>3. CASE a <= o
      <4>1. RunAt(o) = r
        BY <1>0, <2>0, <3>1, <3>2, <3>3, RunAtIt
      <4>. QED  BY <4>1 DEF IsWordOf
    <3>4. CASE ~(a <= o)
      <4>1. a = from /\ r # 1
        <5>1. a = from
          BY <1>0, <2>0, <3>1, <3>4
        <5>. QED  BY <1>2, <3>1, <5>1 DEF RunStart
      <4>2. r - 1 \in DOMAIN par.runs /\ par.runs[r - 1].end = from
        <5>1. r \in 1..Len(par.runs) /\ DOMAIN par.runs = 1..Len(par.runs) /\ Len(par.runs) \in Nat
          BY <1>0, RunsAre
        <5>2. r - 1 \in 1..Len(par.runs)
          BY <4>1, <5>1
        <5>. QED  BY <3>1, <4>1, <5>1, <5>2 DEF RunStart
      <4>3. RunStart(r - 1) \in Nat /\ RunStart(r - 1) < from
        BY <4>2, ParagraphShape DEF IsParagraph, RunStart
      <4>4. RunStart(r - 1) <= o
        BY <2>0, <4>3
      <4>5. o < par.runs[r - 1].end
        BY <2>0, <4>2
      <4>6. RunAt(o) = r - 1
        BY <4>2, <4>4, <4>5, RunAtIt
      <4>. QED  BY <4>2, <4>6
    <3>. QED  BY <3>3, <3>4
  <2>4. PICK c \in Seq(Candidates), merged \in Seq(Candidates), word \in Seq(Candidates) :
          /\ f[from].candidates = c \o merged \o word
          /\ word = WordCandidate(q, from, proc, HyphenPenalty(q))
    <3>1. o + 1 = Feed(f[o].proc, o).nextWordBreak
      BY <2>0, <2>1, <2>2
    <3>2. PICK c \in Seq(Candidates) : c = f[o].candidates
      BY PopulatedStep
    <3> DEFINE next == HyphensUpTo(breaks, f[o].hyIter, o + 1)
               added == Mergeable(SubSeq(breaks, f[o].hyIter, next - 1), Feed(f[o].proc, o), o + 1, HyphenPenalty(RunAt(o)))
               last == WordCandidate(RunAt(o), o + 1, Feed(f[o].proc, o), HyphenPenalty(RunAt(o)))
    <3>3. added \in Seq(Candidates) /\ last \in Seq(Candidates) /\ f[o + 1].candidates = f[o].candidates \o added \o last
      BY <3>1, PopulatedStep
    <3> HIDE DEF added
    <3>4. PICK merged \in Seq(Candidates), word \in Seq(Candidates) :
            f[o + 1].candidates = c \o merged \o word /\ word = last
      BY <3>2, <3>3
    <3>. QED  BY <2>0, <2>1, <2>3, <3>4
  <2>5. PICK w : word = <<w>> /\ w.offset = from
    BY <2>3, <2>4 DEF WordCandidate, PushWordBreak
  <2>6. PICK all \in Seq(Candidates) : all = c \o merged
    BY Joined
  <2>7. PICK n \in Nat : n = Len(all)
    OBVIOUS
  <2>8. Len(all \o word) = n + 1 /\ (all \o word)[n + 1] = w
    <3>1. Len(word) = 1 /\ word[1] = w
      BY <2>5
    <3>2. 1 \in 1..Len(word)
      BY <3>1
    <3>3. /\ Len(all \o word) = Len(all) + Len(word)
          /\ \A i \in 1..Len(word) : (all \o word)[Len(all) + i] = word[i]
      BY Joined
    <3>4. (all \o word)[n + 1] = word[1]
      BY <2>7, <3>2, <3>3
    <3>. QED  BY <2>7, <3>1, <3>3, <3>4
  <2>9. n + 1 \in 1..n + 1
    BY <2>7
  <2>. QED  BY <2>4, <2>5, <2>6, <2>8, <2>9
<1>. QED  BY <1>1, <1>2

(* Points are at offsets.                                                  *)
LEMMA OffsetsAreNat ==
  ASSUME NEW breaks \in Seq(HyphenBreaks)
  PROVE  \A x \in 1..Len(breaks) : breaks[x].offset \in Nat
<1>1. \A x \in 1..Len(breaks) : breaks[x] \in HyphenBreaks
  OBVIOUS
<1>. QED  BY <1>1 DEF HyphenBreaks

(* hyIter does not pass the points of a word before the word is passed.    *)
LEMMA PointsWait ==
  ASSUME IsParagraph(par), NEW breaks \in Seq(HyphenBreaks), NEW f, IsPopulating(breaks, f),
         NEW r, NEW from, NEW end, IsWordOf(r, from, end),
         NEW k \in 1..Len(breaks), from < breaks[k].offset
  PROVE  f[end - 1].hyIter <= k
<1> DEFINE good == {o \in 0..end - 1 : f[o].hyIter <= k}
<1>0. Size \in Nat /\ end \in Nat /\ end <= Size /\ from \in Nat /\ from < end /\ end - 1 \in Nat
  BY ParagraphShape DEF IsWordOf
<1>1. 0 \in good
  BY <1>0 DEF IsPopulating
<1>2. ASSUME NEW o \in 0..end - 1 - 1, o \in good PROVE o + 1 \in good
  <2>0. o \in 0..Size - 1 /\ o + 1 \in 0..end - 1 /\ o \in Nat /\ o + 1 < end
    BY <1>0
  <2>1. PICK proc \in Procs(o) : proc = Feed(f[o].proc, o)
    BY <2>0, PopulatedStep
  <2>2. CASE o + 1 # proc.nextWordBreak
    <3>1. f[o + 1].hyIter = f[o].hyIter
      BY <2>0, <2>1, <2>2, PopulatedStep
    <3>. QED  BY <1>2, <2>0, <3>1
  <2>3. CASE o + 1 = proc.nextWordBreak
    <3>1. PICK m \in 1..Len(breaks) + 1 : m = f[o].hyIter /\ m <= k
      BY <1>2, <2>0, PopulatedStep
    <3>2. f[o + 1].hyIter = HyphensUpTo(breaks, m, o + 1)
      BY <2>0, <2>1, <2>3, <3>1, PopulatedStep
    <3> DEFINE all == {h \in m..Len(breaks) : breaks[h].offset >= o + 1} \cup {Len(breaks) + 1}
    <3>3. o + 1 <= from
      <4>1. o + 1 \in DOMAIN par.words
        BY <2>0, <2>3 DEF Procs
      <4>. QED  BY <2>0, <4>1 DEF IsWordOf
    <3>4. breaks[k].offset \in Nat
      BY OffsetsAreNat
    <3>5. breaks[k].offset >= o + 1
      BY <1>0, <2>0, <3>3, <3>4
    <3>6. k \in all /\ all \in SUBSET Nat
      BY <3>1, <3>5
    <3>7. HyphensUpTo(breaks, m, o + 1) = Smallest(all)
      BY DEF HyphensUpTo
    <3> HIDE DEF all
    <3>8. Smallest(all) <= k
      BY <3>6, SmallestExists
    <3>. QED  BY <2>0, <3>2, <3>7, <3>8
  <2>. QED  BY <2>2, <2>3
<1> HIDE DEF good
<1>3. end - 1 \in good
  <2>1. end - 1 \in 0..end - 1
    BY <1>0
  <2>. QED  BY <1>0, <1>1, <1>2, <2>1, KeptInRange
<1>. QED  BY <1>3 DEF good

(* The word is offered with a point of it that is found.                   *)
LEMMA WordIsOffered ==
  ASSUME IsParagraph(par), MEnableHyphenation, NEW breaks \in Seq(HyphenBreaks), NEW r, NEW from, NEW end,
         IsWordOf(r, from, end), NEW h \in DOMAIN par.hyphen, from < h,
         NEW k \in 1..Len(breaks), breaks[k].offset = h, breaks[k].type = par.hyphen[h],
         \A j \in 1..k : breaks[j].offset < end
  PROVE  OfferedIn(Populated(breaks).candidates, h, end, from)
<1>0. /\ Size \in Nat /\ end \in Nat /\ end <= Size /\ from \in Nat /\ from < end /\ r \in DOMAIN par.runs
      /\ end - 1 \in 0..Size - 1 /\ end - 1 + 1 = end /\ end \in 0..Size /\ Size \in end..Size
      /\ from \in 0..Size /\ end - 1 \in from..Size
  BY ParagraphShape DEF IsWordOf
<1>1. PICK f : IsPopulating(breaks, f) /\ Populated(breaks) = f[Size]
  BY Populating
<1>2. RunAt(end - 1) = r /\ par.runs[r].canBreak
  <2>1. PICK a \in Nat : a = RunStart(r) /\ a <= from
    BY <1>0, ParagraphShape DEF IsWordOf
  <2>2. PICK z \in Nat : z = par.runs[r].end /\ end <= z
    <3>1. par.runs[r].end \in 1..Size
      BY <1>0, ParagraphShape
    <3>. QED  BY <1>0, <3>1 DEF IsWordOf
  <2>3. RunAt(end - 1) = r
    BY <1>0, <2>1, <2>2, RunAtIt
  <2>. QED  BY <2>3 DEF IsWordOf
<1>3. PICK o \in 0..Size - 1 : o = end - 1 /\ o + 1 = end /\ o \in Nat /\ RunAt(o) = r
  BY <1>0, <1>2
<1>4. PICK proc \in Procs(o) : proc = Feed(f[o].proc, o) /\ proc = f[end].proc
  <2>1. Feed(f[o].proc, o) \in Procs(o) /\ f[o + 1].proc = Feed(f[o].proc, o)
    BY <1>1, PopulatedStep
  <2>. QED  BY <1>3, <2>1
<1>5. proc.nextWordBreak = end /\ proc.prevWordBreak \in Nat /\ proc.prevWordBreak < end
  <2>1. Follows(proc, end)
    BY <1>0, <1>1, <1>4, PopulatingFollows
  <2>2. end \in DOMAIN par.words
    BY DEF IsWordOf
  <2>3. proc.nextWordBreak = end
    BY <2>1, <2>2, AtItsEnd
  <2>4. proc.prevWordBreak \in 0..o
    BY DEF Procs
  <2>. QED  BY <1>3, <2>3, <2>4
<1>6. PICK m \in 1..Len(breaks) + 1 : m = f[o].hyIter /\ m <= k
  <2>1. f[o].hyIter <= k
    BY <1>1, <1>3, PointsWait
  <2>. QED  BY <1>1, <2>1, PopulatedStep
<1>7. PICK penalty \in Nat : penalty = HyphenPenalty(r)
  BY <1>0, HyphenPenaltyIsNat
<1>8. PICK next \in m..Len(breaks) + 1 : next = HyphensUpTo(breaks, m, end)
  BY <1>3, PartsAre
<1>9. k < next
  <2> DEFINE all == {x \in m..Len(breaks) : breaks[x].offset >= end} \cup {Len(breaks) + 1}
  <2>1. next = Smallest(all)
    BY <1>8 DEF HyphensUpTo
  <2>2. all \in SUBSET Nat /\ all # {}
    OBVIOUS
  <2>3. \A x \in all : k < x
    <3>1. \A x \in 1..Len(breaks) : breaks[x].offset \in Nat
      BY OffsetsAreNat
    <3>2. \A x \in 1..k : x \in 1..Len(breaks)
      OBVIOUS
    <3>3. \A x \in 1..k : ~(breaks[x].offset >= end)
      BY <1>0, <3>1, <3>2
    <3>4. \A x \in m..Len(breaks) : x \in 1..k \/ k < x
      OBVIOUS
    <3>. QED  BY <3>3, <3>4
  <2> HIDE DEF all
  <2>4. next \in all
    BY <2>1, <2>2, SmallestExists
  <2>. QED  BY <2>3, <2>4
<1>10. PICK hyphens : hyphens = SubSeq(breaks, m, next - 1)
  OBVIOUS
<1>11. hyphens \in Seq(HyphenBreaks)
  BY <1>3, <1>8, <1>10, PartsAre
<1>12. PICK j \in 1..Len(hyphens) : hyphens[j] = breaks[k]
  <2>1. PICK n \in Nat : n = next - 1 /\ m <= k /\ k <= n /\ n <= Len(breaks) /\ m >= 1
    BY <1>6, <1>8, <1>9
  <2>2. Len(hyphens) = n - m + 1 /\ \A i \in 1..n - m + 1 : hyphens[i] = breaks[m + i - 1]
    BY <1>10, <2>1
  <2>3. k - m + 1 \in 1..n - m + 1 /\ m + (k - m + 1) - 1 = k
    BY <2>1
  <2>. QED  BY <2>2, <2>3
<1> DEFINE desperates == PopulateDesperatePoints(proc.prevWordBreak, end)
           d == IF proc.effectiveWidth - proc.sumOfCharWidthsAtPrevWordBreak > GetMin
                THEN desperates ELSE << >>
<1>13. d \in Seq(Desperates)
  <2>1. desperates \in Seq(Desperates)
    BY <1>0, <1>5, DesperatesAre
  <2>. QED  BY <2>1
<1>14. PICK merged : merged = AppendWithMerging(hyphens, d, proc, penalty)
  OBVIOUS
<1>15. merged = Mergeable(hyphens, proc, end, penalty)
  BY <1>14 DEF Mergeable
<1> HIDE DEF d
<1>16. merged \in Seq(Candidates)
  BY <1>3, <1>11, <1>13, <1>14, MergedAre
<1>17. PICK i \in 1..Len(merged) : merged[i].offset = h /\ merged[i].hyphenType = par.hyphen[h]
  <2>1. \E x \in DOMAIN merged : merged[x].offset = hyphens[j].offset /\ merged[x].hyphenType = hyphens[j].type
    BY <1>3, <1>11, <1>13, <1>14, MergedHas
  <2>. QED  BY <1>12, <1>16, <2>1
<1>18. PICK w : WordCandidate(r, end, proc, penalty) = <<w>> /\ w.offset = end
  BY <1>2 DEF WordCandidate, PushWordBreak
<1>19. PICK word \in Seq(Candidates) : word = WordCandidate(r, end, proc, penalty) /\ Len(word) = 1 /\ word[1] = w
  <2>1. WordCandidate(r, end, proc, penalty) \in Seq(Candidates)
    BY <1>1, <1>3, <1>6, <1>7, PartsAre
  <2>2. PICK word \in Seq(Candidates) : word = WordCandidate(r, end, proc, penalty)
    BY <2>1
  <2>3. Len(word) = 1 /\ word[1] = w
    BY <1>18, <2>2
  <2>. QED  BY <2>2, <2>3
<1>20. PICK c \in Seq(Candidates) : c = f[o].candidates
  BY <1>1, PopulatedStep
<1>21. f[end].candidates = c \o merged \o word
  <2>1. o + 1 = Feed(f[o].proc, o).nextWordBreak
    BY <1>3, <1>4, <1>5
  <2>2. f[o + 1].candidates
          = f[o].candidates \o Mergeable(SubSeq(breaks, f[o].hyIter, HyphensUpTo(breaks, f[o].hyIter, o + 1) - 1),
                                         Feed(f[o].proc, o), o + 1, HyphenPenalty(RunAt(o)))
                            \o WordCandidate(RunAt(o), o + 1, Feed(f[o].proc, o), HyphenPenalty(RunAt(o)))
    BY <1>1, <2>1, PopulatedStep
  <2>3. f[end].candidates = c \o Mergeable(hyphens, proc, end, penalty) \o WordCandidate(r, end, proc, penalty)
    BY <1>3, <1>4, <1>6, <1>7, <1>8, <1>10, <1>20, <2>2
  <2>. QED  BY <1>15, <1>19, <2>3
<1>22. PICK b \in 1..Len(c) : c[b].offset = from
  <2>1. PICK x \in 1..Len(f[from].candidates) : f[from].candidates[x].offset = from
    BY <1>1, BoundaryIsCandidate
  <2>2. Begins(f[from].candidates, f[end - 1].candidates)
    BY <1>0, <1>1, CandidatesRemain
  <2>3. Begins(f[from].candidates, c)
    BY <1>3, <1>20, <2>2
  <2>4. PICK n \in Nat : n = Len(f[from].candidates)
    <3>1. f[from] \in Passes(breaks, from)
      BY <1>0, <1>1 DEF IsPopulating
    <3>2. PICK p \in Seq(Candidates) : p = f[from].candidates
      BY <3>1 DEF Passes
    <3>3. Len(p) \in Nat
      OBVIOUS
    <3>. QED  BY <3>2, <3>3
  <2>5. x \in 1..Len(c) /\ c[x] = f[from].candidates[x]
    BY <2>3, <2>4 DEF Begins
  <2>. QED  BY <2>1, <2>5
<1>23. PICK all \in Seq(Candidates) : all = c \o merged
  BY <1>16, Joined
<1>24. PICK lc \in Nat, lm \in Nat : lc = Len(c) /\ lm = Len(merged) /\ Len(all) = lc + lm
  BY <1>16, <1>23, Joined
<1>25. all[b] = c[b] /\ all[lc + i] = merged[i] /\ b \in 1..lc + lm /\ lc + i \in 1..lc + lm /\ b < lc + i
  <2>1. (\A x \in 1..lc : all[x] = c[x]) /\ (\A x \in 1..lm : all[lc + x] = merged[x])
    BY <1>16, <1>23, <1>24, Joined
  <2>. QED  BY <1>24, <2>1
<1>26. PICK full \in Seq(Candidates) : full = all \o word /\ full = f[end].candidates
  BY <1>21, <1>23, Joined
<1>27. Len(full) = lc + lm + 1 /\ full[b] = c[b] /\ full[lc + i] = merged[i] /\ full[lc + lm + 1] = w
  <2>0. /\ Len(all \o word) = Len(all) + Len(word) /\ \A x \in 1..Len(all) : (all \o word)[x] = all[x]
        /\ \A x \in 1..Len(word) : (all \o word)[Len(all) + x] = word[x]
    BY Joined
  <2>1. /\ Len(full) = lc + lm + 1 /\ \A x \in 1..lc + lm : full[x] = all[x]
        /\ \A x \in 1..Len(word) : full[lc + lm + x] = word[x]
    BY <1>19, <1>24, <1>26, <2>0
  <2>2. 1 \in 1..Len(word)
    BY <1>19
  <2>. QED  BY <1>19, <1>25, <2>1, <2>2
<1>28. PICK cands : cands = Populated(breaks).candidates
  OBVIOUS
<1>29. Begins(full, cands)
  BY <1>0, <1>1, <1>26, <1>28, CandidatesRemain
<1>30. cands \in Seq(Candidates)
  BY <1>28, PopulatedIs DEF Passes
<1>31. lc + lm + 1 <= Len(cands) /\ \A x \in 1..lc + lm + 1 : cands[x] = full[x] /\ x \in DOMAIN cands
  <2>1. Len(full) <= Len(cands) /\ \A x \in 1..Len(full) : cands[x] = full[x]
    BY <1>29 DEF Begins
  <2>2. PICK n \in Nat : n = Len(cands) /\ DOMAIN cands = 1..n
    <3>1. Len(cands) \in Nat /\ DOMAIN cands = 1..Len(cands)
      BY <1>30
    <3>. QED  BY <3>1
  <2>3. lc + lm + 1 <= n /\ \A x \in 1..lc + lm + 1 : x \in 1..n
    BY <1>27, <2>1, <2>2
  <2>. QED  BY <1>27, <2>1, <2>2, <2>3
<1>32. b \in 1..lc + lm + 1 /\ lc + i \in 1..lc + lm + 1 /\ lc + lm + 1 \in 1..lc + lm + 1 /\ lc + i < lc + lm + 1
  BY <1>25
<1>33. /\ cands[b].offset = from /\ cands[lc + i].offset = h /\ cands[lc + i].hyphenType = par.hyphen[h]
       /\ cands[lc + lm + 1].offset = end
       /\ b \in DOMAIN cands /\ lc + i \in DOMAIN cands /\ lc + lm + 1 \in DOMAIN cands
  BY <1>17, <1>18, <1>22, <1>27, <1>31, <1>32
<1>. QED  BY <1>25, <1>28, <1>32, <1>33 DEF OfferedIn

(* Every point of a word, where the runs before it are met as              *)
(* HyphensAreOffered says, is offered.                                     *)
LEMMA AllAreOffered ==
  ASSUME IsParagraph(par), MEnableHyphenation
  PROVE  AllOfferedIn(PopulateCandidates.candidates)
<1> DEFINE r(h) == RunAt(h)
           end(h) == Smallest({b \in DOMAIN par.words : b > h})
           from(h) == WordBefore(end(h))
<1> SUFFICES ASSUME NEW h \in DOMAIN par.hyphen,
                    RunStart(r(h)) <= from(h), end(h) <= par.runs[r(h)].end, IsFollowed(r(h), from(h)),
                    WordRange(end(h)).start < h, h < WordRange(end(h)).end
             PROVE  OfferedIn(PopulateCandidates.candidates, h, end(h), from(h))
  BY DEF AllOfferedIn
<1>1. PICK q, to, start : q = r(h) /\ to = end(h) /\ start = from(h)
  OBVIOUS
<1>2. /\ RunStart(q) <= start /\ to <= par.runs[q].end /\ IsFollowed(q, start)
      /\ WordRange(to).start < h /\ h < WordRange(to).end
  BY <1>1
<1>3. Size \in Nat /\ h \in 0..Size - 1 /\ h \in Nat
  BY ParagraphShape
<1>4. q \in DOMAIN par.runs /\ q \in Nat
  BY <1>1, <1>3, RunAtIs, RunsAre
<1>5. to \in DOMAIN par.words /\ to > h /\ to \in Nat /\ to <= Size
  <2> DEFINE after == {b \in DOMAIN par.words : b > h}
  <2>1. after \in SUBSET Nat /\ Size \in after
    BY <1>3, ParagraphShape
  <2>2. to \in after
    BY <1>1, <2>1, SmallestExists
  <2>. QED  BY <2>2, ParagraphShape
<1>6. /\ start \in {0} \cup DOMAIN par.words /\ start < to /\ start \in Nat
      /\ \A b \in DOMAIN par.words : b < to => b <= start
  <2> DEFINE before == {0} \cup {a \in DOMAIN par.words : a < to}
  <2>1. before \in SUBSET (0..to) /\ before # {} /\ \A a \in before : a < to /\ a \in Nat
    BY <1>3, <1>5, ParagraphShape
  <2>2. start = Largest(before)
    BY <1>1 DEF WordBefore
  <2>3. \A a \in DOMAIN par.words : a < to => a \in before
    OBVIOUS
  <2>4. \A a \in before : a \in {0} \cup DOMAIN par.words
    OBVIOUS
  <2> HIDE DEF before
  <2>. QED  BY <1>5, <2>1, <2>2, <2>3, <2>4, LargestExists
<1>7. NoneSkipped(q) /\ \A n \in 2..q : MeasuredAnew(n) => RunStart(n) < start
  BY <1>2 DEF IsFollowed, NoneSkipped, RestartsBehind
<1>8. par.runs[q].canBreak
  <2>1. q \in 1..q /\ ~ \E n \in q + 1..q : TRUE
    BY <1>4, RunsAre
  <2>. QED  BY <1>7, <2>1 DEF NoneSkipped, RestartsBehind
<1>9. IsWordOf(q, start, to)
  BY <1>2, <1>4, <1>5, <1>6, <1>7, <1>8 DEF IsWordOf
<1>10. start < h
  <2>1. WordRange(to).start \in Nat /\ WordRange(to).end \in Nat
    <3>1. WordRange(to).start \in Nat /\ WordRange(to).end \in 0..to
      BY <1>5, WordRangeBounds
    <3>. QED  BY <1>5, <3>1
  <2>2. WordRange(to).start < WordRange(to).end
    BY <1>2, <1>3, <2>1
  <2>3. start <= WordRange(to).start
    BY <1>9, <2>2, WordStartsBehind
  <2>. QED  BY <1>2, <1>3, <1>6, <2>1, <2>3
<1>11. PICK breaks \in Seq(HyphenBreaks) : breaks = MeasuredHyphenBreaks
  BY MeasuredAre
<1>12. PICK k \in 1..Len(breaks) : /\ breaks[k].offset = h /\ breaks[k].type = par.hyphen[h]
                                  /\ \A j \in 1..k : breaks[j].offset < to
  BY <1>2, <1>7, <1>9, <1>11, MeasuredHas
<1>13. OfferedIn(Populated(breaks).candidates, h, to, start)
  BY <1>9, <1>10, <1>12, WordIsOffered
<1>14. PopulateCandidates.candidates = Populated(breaks).candidates
  BY <1>11 DEF PopulateCandidates, Context
<1>. QED  BY <1>1, <1>13, <1>14

(* Every point that the measuring pass finds within a word is a candidate  *)
(* in populateCandidates, between the boundaries around the word, for any  *)
(* paragraph (but where HyphensAreOffered says that the passes lose it).   *)
THEOREM HyphensAreAllOffered == LinesSpec => []HyphensAreOffered
<1>1. Init => IsParagraph(par)
  BY ParagraphAssumption DEF Init
<1>2. IsParagraph(par) => HyphensAreOffered
  BY AllAreOffered DEF HyphensAreOffered
<1>. QED  BY <1>1, <1>2, ParKept, PTL DEF LinesSpec
=============================================================================
