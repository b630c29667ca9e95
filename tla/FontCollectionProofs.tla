------------------------ MODULE FontCollectionProofs ------------------------
(***************************************************************************)
(* What is proved about fonts, whatever the files, families, texts and     *)
(* locales.                                                                *)
(*                                                                         *)
(* A font is read right: a set that is built of ranges answers as their    *)
(* values say (Laid and HoldsAll tie its rows to them), the reading of a   *)
(* table keeps ranges in order and inside what the table maps, and the     *)
(* search for a table finds the best.  So the coverage of every family is  *)
(* a set of code points, and the loop that makes the pages of a collection *)
(* keeps every family at its next code: the pages list their families.     *)
(*                                                                         *)
(* The runs of a text tile it, whichever family the search gives a         *)
(* character: Walked ties the runs found so far to the position of the     *)
(* walk, RunsOf the walk that stops after enough runs to the one that goes *)
(* on.                                                                     *)
(*                                                                         *)
(* The search finds the best family: a list of locale scores is a number   *)
(* in base 5, the packed score puts it between coverage and variant, so    *)
(* scores are in the order of the merits they are made of.  And a run has  *)
(* a family that draws it: Drawn says so of all that the walk has seen,    *)
(* also of the characters that changed runs.                               *)
(*                                                                         *)
(* Packing confuses no two of the locales that fonts are chosen by: codes  *)
(* can be read back from their packed form, the bits that stand for no     *)
(* subtag are no code's, and an identifier determines every field it is    *)
(* made of.  Lookup tables of locales, the hyphenators' and the line       *)
(* breakers', compare identifiers instead of locales.                      *)
(***************************************************************************)
EXTENDS FontCollection, CmapReader, FiniteSetTheorems, WellFoundedInduction, TLAPS

Letter == 0..25
TwoLetters == {<<x, y>> : x, y \in Letter}
ThreeLetters == {<<x, y, z>> : x, y, z \in Letter}
Codes == TwoLetters \cup ThreeLetters
Scripts == {<<w, x, y, z>> : w, x, y, z \in Letter}

\* What the 15 and 20 bits hold where there is no code.
NO_CODE == 32767
NO_SCRIPT_CODE == 1048575

LEMMA LowFiveBits ==
  ASSUME NEW q \in Nat, NEW r \in 0..31
  PROVE  (q * 32 + r) \div 32 = q /\ (q * 32 + r) % 32 = r
BY SMT

LEMMA LowTenBits ==
  ASSUME NEW q \in Nat, NEW r \in Nat, r < 1024
  PROVE  (q * 1024 + r) \div 1024 = q
BY SMT

LEMMA LowFifteenBits ==
  ASSUME NEW q \in Nat, NEW r \in Nat, r < 32768
  PROVE  (q * 32768 + r) \div 32768 = q
BY SMT

(* A language or region can be read back from its 15 bits, and the bits    *)
(* that mean none are no code's (packLanguageOrRegion in Locale.cpp).      *)
THEOREM CodesAreReadBack ==
  ASSUME NEW c \in Codes
  PROVE  /\ packLanguageOrRegion(c) \in 0..NO_CODE - 1
         /\ unpackLanguageOrRegion(packLanguageOrRegion(c)) = c
<1>1. CASE c \in TwoLetters
  <2>1. PICK x \in Letter, y \in Letter : c = <<x, y>>
    BY <1>1 DEF TwoLetters
  <2>2. x \in 0..25 /\ y \in 0..25
    BY DEF Letter
  <2>7. PICK p \in Nat : p = 31744 + x * 32 + y
    BY <2>2
  <2>3. packLanguageOrRegion(c) = p
    BY <2>1, <2>2, <2>7 DEF packLanguageOrRegion
  <2>8. PICK w \in Nat : w = x * 32 + y /\ w < 1000
    BY <2>2
  <2>9. p = 31 * 1024 + w
    BY <2>2, <2>7, <2>8
  <2>4. p \in 0..NO_CODE - 1
    <3>1. p <= 32766 /\ p \in Nat
      BY <2>8, <2>9
    <3>2. NO_CODE - 1 = 32766
      BY DEF NO_CODE
    <3>. QED  BY <3>1, <3>2
  <2>5. (p \div 1024) % 32 = 31
    BY <2>8, <2>9, LowTenBits
  <2>6. (p \div 32) % 32 = x /\ p % 32 = y
    <3>1. PICK q \in Nat : q = 992 + x
      BY <2>2
    <3>2. p = q * 32 + y /\ y \in 0..31
      BY <2>2, <2>7, <3>1
    <3>3. p \div 32 = q /\ p % 32 = y
      BY <3>2, LowFiveBits
    <3>4. q % 32 = x
      <4>1. q = 31 * 32 + x
        BY <2>2, <3>1
      <4>. QED  BY <2>2, <4>1, LowFiveBits
    <3>. QED  BY <3>3, <3>4
  <2>. QED  BY <2>1, <2>3, <2>4, <2>5, <2>6 DEF unpackLanguageOrRegion
<1>2. CASE c \in ThreeLetters
  <2>1. PICK x \in Letter, y \in Letter, z \in Letter : c = <<x, y, z>>
    BY <1>2 DEF ThreeLetters
  <2>2. x \in 0..25 /\ y \in 0..25 /\ z \in 0..25
    BY DEF Letter
  <2>7. PICK p \in Nat : p = x * 1024 + y * 32 + z
    BY <2>2
  <2>3. packLanguageOrRegion(c) = p
    BY <2>1, <2>2, <2>7 DEF packLanguageOrRegion
  <2>8. PICK w \in Nat : w = y * 32 + z /\ w < 1024
    BY <2>2
  <2>9. p = x * 1024 + w /\ x \in Nat /\ x <= 25
    BY <2>2, <2>7, <2>8
  <2>4. p \in 0..NO_CODE - 1
    <3>1. p <= 32766 /\ p \in Nat
      BY <2>8, <2>9
    <3>2. NO_CODE - 1 = 32766
      BY DEF NO_CODE
    <3>. QED  BY <3>1, <3>2
  <2>5. (p \div 1024) % 32 = x /\ x # 31
    <3>3. p \div 1024 = x
      BY <2>8, <2>9, LowTenBits
    <3>. QED  BY <2>2, <3>3
  <2>6. (p \div 32) % 32 = y /\ p % 32 = z
    <3>1. PICK q \in Nat : q = x * 32 + y
      BY <2>2
    <3>2. p = q * 32 + z /\ z \in 0..31
      BY <2>2, <2>7, <3>1
    <3>3. p \div 32 = q /\ p % 32 = z
      BY <3>2, LowFiveBits
    <3>4. q % 32 = y
      BY <2>2, <3>1, LowFiveBits
    <3>. QED  BY <3>3, <3>4
  <2>. QED  BY <2>1, <2>3, <2>4, <2>5, <2>6 DEF unpackLanguageOrRegion
<1>. QED  BY <1>1, <1>2 DEF Codes

(* A script can be read back from its 20 bits (packScript in Locale.cpp).  *)
THEOREM ScriptsAreReadBack ==
  ASSUME NEW c \in Scripts
  PROVE  /\ packScript(c) \in Nat /\ packScript(c) < NO_SCRIPT_CODE
         /\ unpackScript(packScript(c)) = c
<1>1. PICK w \in Letter, x \in Letter, y \in Letter, z \in Letter : c = <<w, x, y, z>>
  BY DEF Scripts
<1> DEFINE p == w * 32768 + x * 1024 + y * 32 + z
<1>2. w \in 0..25 /\ x \in 0..25 /\ y \in 0..25 /\ z \in 0..25
  BY DEF Letter
<1>3. packScript(c) = p
  BY <1>1, <1>2, SMT DEF packScript
<1>4. p \in Nat /\ p < NO_SCRIPT_CODE
  BY <1>2, SMT DEF NO_SCRIPT_CODE
<1>5. p \div 32768 = w
  <2> DEFINE r == x * 1024 + y * 32 + z
  <2>1. r \in Nat /\ r < 32768 /\ p = w * 32768 + r /\ w \in Nat
    BY <1>2, SMT
  <2>. QED  BY <2>1, LowFifteenBits, SMT
<1>6. (p \div 1024) % 32 = x
  <2> DEFINE q == w * 32 + x  r == y * 32 + z
  <2>1. r \in Nat /\ r < 1024 /\ p = q * 1024 + r /\ q \in Nat
    BY <1>2, SMT
  <2>2. p \div 1024 = q
    BY <2>1, LowTenBits, SMT
  <2>3. w \in Nat /\ x \in 0..31
    BY <1>2
  <2>4. (w * 32 + x) % 32 = x
    BY <2>3, LowFiveBits
  <2>. QED  BY <2>2, <2>4
<1>7. (p \div 32) % 32 = y /\ p % 32 = z
  <2> DEFINE h == w * 32 + x  q == h * 32 + y
  <2>1. q \in Nat /\ h \in Nat /\ p = q * 32 + z
    BY <1>2, SMT
  <2>2. y \in 0..31 /\ z \in 0..31 /\ q = h * 32 + y
    BY <1>2
  <2> HIDE DEF p, h, q
  <2>3. (q * 32 + z) \div 32 = q /\ (q * 32 + z) % 32 = z
    BY <2>1, <2>2, LowFiveBits
  <2>4. (h * 32 + y) \div 32 = h /\ (h * 32 + y) % 32 = y
    BY <2>1, <2>2, LowFiveBits
  <2>5. q \div 32 = h /\ q % 32 = y
    BY <2>2, <2>4
  <2>. QED  BY <2>1, <2>3, <2>5
<1>. QED  BY <1>1, <1>3, <1>4, <1>5, <1>6, <1>7 DEF unpackScript

(* Two numbers whose last k values are used for x and y agree in both parts. *)
LEMMA SameParts ==
  ASSUME NEW a \in Nat, NEW b \in Nat, NEW k \in Nat, NEW ak \in Nat, NEW bk \in Nat,
         NEW x \in Nat, NEW y \in Nat, x < k, y < k, ak + x = bk + y,
         a < b => ak + k <= bk, b < a => bk + k <= ak
  PROVE  a = b
BY SMT

(* Locales with the same identifier have the same language, script,        *)
(* region, emoji style, line break style and variant: getIdentifier in     *)
(* Locale.h puts each into bits of its own.                                *)
THEOREM IdentifiersDiffer ==
  ASSUME NEW l \in Nat, NEW s \in Nat, NEW r \in Nat,
         s <= NO_SCRIPT_CODE, r <= NO_CODE,
         NEW e \in 0..3, NEW b \in 0..3, NEW v \in 0..1023,
         NEW l2 \in Nat, NEW s2 \in Nat, NEW r2 \in Nat,
         s2 <= NO_SCRIPT_CODE, r2 <= NO_CODE,
         NEW e2 \in 0..3, NEW b2 \in 0..3, NEW v2 \in 0..1023,
         getIdentifier(l, s, r, e, b, v) = getIdentifier(l2, s2, r2, e2, b2, v2)
  PROVE  <<l, s, r, e, b, v>> = <<l2, s2, r2, e2, b2, v2>>
<1> DEFINE A1 == l * 1048576 + s      B1 == l2 * 1048576 + s2
           A2 == A1 * 32768 + r       B2 == B1 * 32768 + r2
           A3 == A2 * 4 + e           B3 == B2 * 4 + e2
           A4 == A3 * 4 + b           B4 == B3 * 4 + b2
<1>0. s < 1048576 /\ r < 32768 /\ s2 < 1048576 /\ r2 < 32768
  BY SMT DEF NO_CODE, NO_SCRIPT_CODE
<1>1. /\ A1 \in Nat /\ B1 \in Nat
  BY <1>0, SMT
<1> HIDE DEF A1, B1
<1>2. A2 \in Nat /\ B2 \in Nat
  BY <1>0, <1>1, SMT
<1> HIDE DEF A2, B2
<1>3. A3 \in Nat /\ B3 \in Nat
  BY <1>2, SMT
<1> HIDE DEF A3, B3
<1>4. A4 \in Nat /\ B4 \in Nat
  BY <1>3, SMT
<1> HIDE DEF A4, B4
<1>5. A4 * 1024 + v = B4 * 1024 + v2
  BY SMT DEF A1, A2, A3, A4, B1, B2, B3, B4, getIdentifier
<1>6. A4 = B4 /\ v = v2
  BY <1>4, <1>5, SMT
<1>7. A3 = B3 /\ b = b2
  BY <1>3, <1>6, SMT DEF A4, B4
<1>8. A2 = B2 /\ e = e2
  BY <1>2, <1>7, SMT DEF A3, B3
<1>9. A1 = B1 /\ r = r2
  <2> DEFINE P == A1 * 32768  Q == B1 * 32768
  <2>1. P \in Nat /\ Q \in Nat /\ (A1 < B1 => P + 32768 <= Q) /\ (B1 < A1 => Q + 32768 <= P)
    BY <1>1, SMT
  <2>2. P + r = Q + r2 /\ (A1 = B1 => P = Q)
    BY <1>8, SMT DEF A2, B2
  <2> HIDE DEF P, Q
  <2>3. A1 = B1
    BY <1>0, <1>1, <2>1, <2>2, SameParts, SMT
  <2>. QED  BY <2>1, <2>2, <2>3, SMT
<1>10. l = l2 /\ s = s2
  <2> DEFINE P == l * 1048576  Q == l2 * 1048576
  <2>1. P \in Nat /\ Q \in Nat /\ (l < l2 => P + 1048576 <= Q) /\ (l2 < l => Q + 1048576 <= P)
    BY SMT
  <2>2. P + s = Q + s2 /\ (l = l2 => P = Q)
    BY <1>9, SMT DEF A1, B1
  <2> HIDE DEF P, Q
  <2>3. l = l2
    BY <1>0, <2>1, <2>2, SameParts, SMT
  <2>. QED  BY <2>1, <2>2, <2>3, SMT
<1>. QED  BY <1>6, <1>7, <1>8, <1>9, <1>10

-----------------------------------------------------------------------------
(* Without induction theorems to cite, a statement is proved for all       *)
(* prefixes of a text by looking at the shortest one for which it fails.   *)
LEMMA LeastExists ==
  ASSUME NEW T \in SUBSET Nat, T # {}
  PROVE  \E x \in T : \A y \in T : x <= y
<1> DEFINE R == OpToRel(<, Nat)
<1>1. \A x, y \in Nat : y < x => <<y, x>> \in R
  BY DEF OpToRel
<1>2. IsWellFoundedOn(R, Nat)
  BY NatLessThanWellFounded
<1> HIDE DEF R
<1>3. PICK x \in T : \A y \in T : <<y, x>> \notin R
  BY <1>2, WFMin
<1>4. ASSUME NEW y \in T PROVE x <= y
  <2>1. x \in Nat /\ y \in Nat /\ ~ (y < x)
    BY <1>1, <1>3
  <2>. QED  BY <2>1
<1>. QED  BY <1>4

LEMMA LesserOfTwo ==
  ASSUME NEW a \in Int, NEW b \in Int
  PROVE  Min({a, b}) = IF a <= b THEN a ELSE b
BY DEF Min

-----------------------------------------------------------------------------
(* Runs that follow each other from offset 0.                              *)
RunOf(F, G) == [family : F, start : Int, end : Int, font : G]

Tiles(runs) ==
  \A k \in 1..Len(runs) :
    /\ runs[k].start = (IF k = 1 THEN 0 ELSE runs[k - 1].end)
    /\ runs[k].start < runs[k].end
EndOf(runs) == IF Len(runs) = 0 THEN 0 ELSE runs[Len(runs)].end

LEMMA LastRunTyped ==
  ASSUME NEW F, NEW G, NEW runs \in Seq(RunOf(F, G)), Len(runs) # 0
  PROVE  /\ runs[Len(runs)] \in RunOf(F, G)
         /\ runs[Len(runs)].start \in Int /\ runs[Len(runs)].end \in Int
<1>1. runs[Len(runs)] \in RunOf(F, G)
  OBVIOUS
<1>. QED  BY <1>1 DEF RunOf

LEMMA FrontOf ==
  ASSUME NEW S, NEW s \in Seq(S), Len(s) # 0
  PROVE  /\ Front(s) \in Seq(S) /\ Len(Front(s)) = Len(s) - 1
         /\ \A k \in 1..Len(s) - 1 : Front(s)[k] = s[k]
<1> DEFINE n == Len(s) - 1
<1>1. n \in Nat /\ n <= Len(s) /\ Front(s) = SubSeq(s, 1, n)
  BY DEF Front
<1> HIDE DEF n
<1>2. Len(SubSeq(s, 1, n)) = n /\ SubSeq(s, 1, n) \in Seq(S) /\ \A k \in 1..n : SubSeq(s, 1, n)[k] = s[k]
  BY <1>1
<1>. QED  BY <1>1, <1>2 DEF n

(* The character given up leaves no hole and no empty run.                 *)
LEMMA GivingUpTiles ==
  ASSUME NEW F, NEW G, NEW runs \in Seq(RunOf(F, G)), NEW ch,
         Len(runs) # 0, Tiles(runs),
         runs[Len(runs)].start <= EndOf(runs) - U16_LENGTH(ch)
  PROVE  LET given == GiveUp(runs, ch)
         IN /\ given \in Seq(RunOf(F, G))
            /\ Tiles(given)
            /\ EndOf(given) = EndOf(runs) - U16_LENGTH(ch)
            /\ Len(given) \in {Len(runs) - 1, Len(runs)}
            /\ \A k \in 1..Len(runs) - 1 : given[k] = runs[k]
<1> DEFINE n == Len(runs)
           d == U16_LENGTH(ch)
           given == GiveUp(runs, ch)
<1>1. d \in 1..2 /\ n \in Nat /\ n >= 1 /\ runs # << >>
  BY DEF U16_LENGTH
<1>2. runs[n] \in RunOf(F, G) /\ runs[n].start \in Int /\ runs[n].end \in Int /\ EndOf(runs) = runs[n].end
  BY <1>1, LastRunTyped DEF EndOf
<1> DEFINE front == Front(runs)
<1>3. /\ front \in Seq(RunOf(F, G)) /\ Len(front) = n - 1
      /\ \A k \in 1..n - 1 : front[k] = runs[k]
  BY <1>1, FrontOf
<1>4. runs[n].start = IF n = 1 THEN 0 ELSE runs[n - 1].end
  <2>1. n \in 1..Len(runs)
    BY <1>1
  <2>. QED  BY <2>1 DEF Tiles
<1>5. Tiles(front)
  BY <1>1, <1>3 DEF Tiles
<1> HIDE DEF front, d
<1>6. CASE runs[n].start = runs[n].end - d
  <2>1. given = front
    BY <1>1, <1>6 DEF GiveUp, Last, front, d
  <2>2. EndOf(front) = runs[n].start
    BY <1>1, <1>3, <1>4 DEF EndOf
  <2> HIDE DEF given
  <2>. QED  BY <1>1, <1>2, <1>3, <1>5, <1>6, <2>1, <2>2 DEF d, given
<1>7. CASE runs[n].start # runs[n].end - d
  <2> DEFINE r == [runs[n] EXCEPT !.end = @ - d]
  <2>1. given = Append(front, r)
    BY <1>1, <1>7 DEF GiveUp, Last, front, d
  <2>2. r \in RunOf(F, G) /\ r.start = runs[n].start /\ r.end = runs[n].end - d
    BY <1>1, <1>2 DEF RunOf
  <2>3. r.start < r.end
    BY <1>1, <1>2, <1>7, <2>2 DEF d
  <2> HIDE DEF r
  <2>4. /\ given \in Seq(RunOf(F, G)) /\ Len(given) = n
        /\ \A k \in 1..n : given[k] = IF k = n THEN r ELSE front[k]
    BY <1>1, <1>3, <2>1, <2>2
  <2> HIDE DEF given
  <2>5. \A k \in 1..n - 1 : given[k] = runs[k]
    BY <1>1, <1>3, <2>4
  <2>6. Tiles(given)
    <3> SUFFICES ASSUME NEW k \in 1..n
                 PROVE  /\ given[k].start = (IF k = 1 THEN 0 ELSE given[k - 1].end)
                        /\ given[k].start < given[k].end
      BY <2>4 DEF Tiles
    <3>1. CASE k = n
      BY <1>1, <1>4, <2>2, <2>3, <2>4, <2>5, <3>1
    <3>2. CASE k # n
      <4>1. k \in 1..n - 1 /\ (k # 1 => k - 1 \in 1..n - 1)
        BY <1>1, <3>2
      <4>. QED  BY <4>1, <2>5 DEF Tiles
    <3>. QED  BY <3>1, <3>2
  <2>7. EndOf(given) = runs[n].end - d
    BY <1>1, <2>2, <2>4 DEF EndOf
  <2>. QED  BY <1>1, <1>2, <2>4, <2>5, <2>6, <2>7 DEF d, given
<1>. QED  BY <1>6, <1>7

\* grown is runs and one more, which is run grown to next.
OneMoreRun(F, G, runs, run, grown, next) ==
  /\ grown \in Seq(RunOf(F, G))
  /\ Tiles(grown)
  /\ Len(grown) = Len(runs) + 1
  /\ EndOf(grown) = next
  /\ grown[Len(grown)].start = run.start
  /\ \A k \in 1..Len(runs) : grown[k] = runs[k]

(* A run that begins where the others end, grown to the offset after.      *)
LEMMA NextRunTiles ==
  ASSUME NEW F, NEW G, NEW runs \in Seq(RunOf(F, G)), NEW run \in RunOf(F, G), NEW next \in Int,
         Tiles(runs), run.start = EndOf(runs), run.start < next
  PROVE  OneMoreRun(F, G, runs, run, Grow(Append(runs, run), next), next)
<1> DEFINE n == Len(runs)
           more == Append(runs, run)
           r == [run EXCEPT !.end = next]
           grown == Grow(more, next)
<1>1. /\ n \in Nat /\ more \in Seq(RunOf(F, G)) /\ Len(more) = n + 1 /\ more # << >>
      /\ \A k \in 1..n + 1 : more[k] = IF k = n + 1 THEN run ELSE runs[k]
  OBVIOUS
<1>2. r \in RunOf(F, G) /\ r.start = run.start /\ r.end = next
  BY DEF RunOf
<1>3. grown = [more EXCEPT ![n + 1] = r]
  <2>1. more[n + 1] = run /\ Len(more) = n + 1 /\ more # << >>
    BY <1>1
  <2>. QED  BY <2>1 DEF Grow
<1> HIDE DEF more, r, grown
<1>4. /\ grown \in Seq(RunOf(F, G)) /\ Len(grown) = n + 1
      /\ \A k \in 1..n + 1 : grown[k] = IF k = n + 1 THEN r ELSE runs[k]
  BY <1>1, <1>2, <1>3
<1>5. Tiles(grown)
  <2> SUFFICES ASSUME NEW k \in 1..n + 1
               PROVE  /\ grown[k].start = (IF k = 1 THEN 0 ELSE grown[k - 1].end)
                      /\ grown[k].start < grown[k].end
    BY <1>4 DEF Tiles
  <2>1. CASE k = n + 1
    <3>1. grown[k] = r /\ r.start = EndOf(runs) /\ r.end = next /\ r.start < next
      BY <1>2, <1>4, <2>1
    <3>2. CASE n = 0
      BY <2>1, <3>1, <3>2 DEF EndOf
    <3>3. CASE n # 0
      <4>1. k # 1 /\ k - 1 = n /\ n \in 1..n + 1 /\ n # n + 1
        BY <1>1, <2>1, <3>3
      <4>2. grown[k - 1] = runs[n]
        BY <1>4, <4>1
      <4>. QED  BY <3>1, <3>3, <4>1, <4>2 DEF EndOf
    <3>. QED  BY <3>2, <3>3
  <2>2. CASE k # n + 1
    <3>1. k \in 1..n /\ (k # 1 => k - 1 \in 1..n /\ k - 1 # n + 1)
      BY <1>1, <2>2
    <3>2. grown[k] = runs[k] /\ (k # 1 => grown[k - 1] = runs[k - 1])
      BY <1>1, <1>4, <3>1
    <3>3. /\ runs[k].start = (IF k = 1 THEN 0 ELSE runs[k - 1].end)
          /\ runs[k].start < runs[k].end
      BY <3>1 DEF Tiles
    <3>. QED  BY <3>2, <3>3
  <2>. QED  BY <2>1, <2>2
<1>6. EndOf(grown) = next /\ grown[n + 1].start = run.start
  BY <1>1, <1>2, <1>4 DEF EndOf
<1>7. OneMoreRun(F, G, runs, run, grown, next)
  BY <1>1, <1>4, <1>5, <1>6 DEF OneMoreRun
<1>. QED  BY <1>7 DEF grown, more

(* The last run grown.                                                     *)
LEMMA GrowingTiles ==
  ASSUME NEW F, NEW G, NEW runs \in Seq(RunOf(F, G)), NEW next \in Int,
         Tiles(runs), Len(runs) # 0, EndOf(runs) < next
  PROVE  LET grown == Grow(runs, next)
         IN /\ grown \in Seq(RunOf(F, G))
            /\ Tiles(grown)
            /\ Len(grown) = Len(runs)
            /\ EndOf(grown) = next
            /\ grown[Len(grown)].start = runs[Len(runs)].start
            /\ \A k \in 1..Len(runs) - 1 : grown[k] = runs[k]
<1> DEFINE n == Len(runs)
           r == [runs[n] EXCEPT !.end = next]
           grown == Grow(runs, next)
<1>1. /\ n \in Nat /\ n >= 1 /\ runs # << >> /\ runs[n] \in RunOf(F, G)
      /\ runs[n].start \in Int /\ runs[n].end \in Int
  <2>1. n \in Nat /\ n >= 1 /\ runs # << >>
    OBVIOUS
  <2>. QED  BY <2>1, LastRunTyped
<1>2. r \in RunOf(F, G) /\ r.start = runs[n].start /\ r.end = next
  BY <1>1 DEF RunOf
<1>3. grown = [runs EXCEPT ![n] = r]
  BY <1>1 DEF Grow
<1> HIDE DEF r, grown
<1>4. /\ grown \in Seq(RunOf(F, G)) /\ Len(grown) = n
      /\ \A k \in 1..n : grown[k] = IF k = n THEN r ELSE runs[k]
  BY <1>1, <1>2, <1>3
<1>5. Tiles(grown)
  <2> SUFFICES ASSUME NEW k \in 1..n
               PROVE  /\ grown[k].start = (IF k = 1 THEN 0 ELSE grown[k - 1].end)
                      /\ grown[k].start < grown[k].end
    BY <1>4 DEF Tiles
  <2>1. k # 1 => k - 1 \in 1..n /\ k - 1 # n
    BY <1>1
  <2>2. /\ runs[k].start = (IF k = 1 THEN 0 ELSE runs[k - 1].end)
        /\ runs[k].start < runs[k].end
    BY DEF Tiles
  <2>3. CASE k = n
    BY <1>1, <1>2, <1>4, <2>1, <2>2, <2>3 DEF EndOf
  <2>4. CASE k # n
    BY <1>1, <1>4, <2>1, <2>2, <2>4
  <2>. QED  BY <2>3, <2>4
<1>6. EndOf(grown) = next /\ grown[n].start = runs[n].start
  BY <1>1, <1>2, <1>4 DEF EndOf
<1>. QED  BY <1>1, <1>4, <1>5, <1>6 DEF grown

-----------------------------------------------------------------------------
(* A walk over a text, as far as its runs.                                 *)
Walked(F, G, s) ==
  /\ s.runs \in Seq(RunOf(F, G))
  /\ s.pos \in Nat
  /\ s.lastFamily = 0 <=> Len(s.runs) = 0
  /\ s.lastFamily # 0 => s.lastFamily \in F
  /\ Tiles(s.runs)
  /\ Len(s.runs) # 0 => /\ s.pos # 0
                        /\ EndOf(s.runs) = s.pos
                        /\ s.runs[Len(s.runs)].start <= s.pos - U16_LENGTH(s.prevCh)

(* What a step does to the runs: the last one may be replaced and at most  *)
(* one is added; the others are final.                                     *)
KeepsAllButLast(runs, next) ==
  /\ Len(next) \in {Len(runs), Len(runs) + 1}
  /\ \A k \in 1..Len(runs) - 1 : next[k] = runs[k]

Full(t, runMax) == t.done <=> Len(t.runs) >= 2 /\ Len(t.runs) - 2 = runMax

LEMMA PassingFills ==
  ASSUME NEW s, NEW ch, NEW family, NEW runs, NEW runMax,
         Len(Grow(runs, s.pos + U16_LENGTH(ch))) = Len(runs)
  PROVE  Full(Pass(s, ch, family, runs, runMax), runMax)
<1> DEFINE t == Pass(s, ch, family, runs, runMax)
<1>1. t.done <=> Len(runs) >= 2 /\ Len(runs) - 2 = runMax
  BY DEF Pass
<1>2. Len(t.runs) = Len(runs)
  BY DEF Pass
<1> HIDE DEF t
<1>. QED  BY <1>1, <1>2 DEF Full, t

LEMMA PassingKeepsWalked ==
  ASSUME NEW F, NEW G, NEW s, NEW ch, NEW runMax,
         Walked(F, G, s)
  PROVE  LET t == Pass(s, ch, s.lastFamily, s.runs, runMax)
         IN /\ Walked(F, G, t)
            /\ t.pos = s.pos + U16_LENGTH(ch)
            /\ KeepsAllButLast(s.runs, t.runs)
            /\ Full(t, runMax)
<1> DEFINE next == s.pos + U16_LENGTH(ch)
           t == Pass(s, ch, s.lastFamily, s.runs, runMax)
<1>1. next \in Nat /\ s.pos < next /\ s.pos \in Nat /\ next # 0 /\ s.pos = next - U16_LENGTH(ch)
  BY DEF Walked, U16_LENGTH
<1>2. /\ t.runs = Grow(s.runs, next) /\ t.pos = next /\ t.prevCh = ch /\ t.lastFamily = s.lastFamily
  BY DEF Pass
<1> HIDE DEF t, next
<1>3. CASE Len(s.runs) = 0
  <2>1. s.runs = << >> /\ Grow(s.runs, next) = s.runs
    BY <1>3 DEF Walked, Grow
  <2>2. Full(t, runMax)
    BY <1>2, <2>1, PassingFills DEF t, next
  <2>. QED  BY <1>1, <1>2, <1>3, <2>1, <2>2 DEF Walked, KeepsAllButLast, t, next
<1>4. CASE Len(s.runs) # 0
  <2>1. EndOf(s.runs) < next /\ Tiles(s.runs) /\ s.runs \in Seq(RunOf(F, G))
    BY <1>1, <1>4 DEF Walked
  <2>2. /\ t.runs \in Seq(RunOf(F, G)) /\ Tiles(t.runs) /\ Len(t.runs) = Len(s.runs)
        /\ EndOf(t.runs) = next /\ t.runs[Len(t.runs)].start = s.runs[Len(s.runs)].start
        /\ \A k \in 1..Len(s.runs) - 1 : t.runs[k] = s.runs[k]
    BY <1>1, <1>2, <1>4, <2>1, GrowingTiles
  <2>3. s.runs[Len(s.runs)].start <= next - U16_LENGTH(ch)
    <3>1. s.runs[Len(s.runs)].start \in Int /\ s.runs[Len(s.runs)].start <= s.pos - U16_LENGTH(s.prevCh)
      BY <1>4, LastRunTyped DEF Walked
    <3>. QED  BY <1>1, <3>1 DEF U16_LENGTH
  <2>4. Full(t, runMax)
    BY <1>2, <2>2, PassingFills DEF t, next
  <2>. QED  BY <1>1, <1>2, <1>4, <2>2, <2>3, <2>4 DEF Walked, KeepsAllButLast, t, next
<1>. QED  BY <1>3, <1>4

LEMMA BeginningKeepsWalked ==
  ASSUME NEW F, NEW G, NEW c, NEW s, NEW ch, NEW family \in F, NEW runMax,
         Walked(F, G, s), family # 0, getClosestMatch(c.mFamilies[family], WantedStyle) \in G
  PROVE  LET t == Pass(s, ch, family, Begin(c, s, family, Attaches(c, s, ch, family)), runMax)
         IN /\ Walked(F, G, t)
            /\ t.pos = s.pos + U16_LENGTH(ch)
            /\ KeepsAllButLast(s.runs, t.runs)
            /\ Full(t, runMax)
<1> DEFINE attach == Attaches(c, s, ch, family)
           next == s.pos + U16_LENGTH(ch)
           t == Pass(s, ch, family, Begin(c, s, family, attach), runMax)
<1>1. next \in Nat /\ s.pos < next /\ s.pos \in Nat /\ next # 0 /\ s.pos = next - U16_LENGTH(ch)
  BY DEF Walked, U16_LENGTH
<1>2. t.runs = Grow(Begin(c, s, family, attach), next) /\ t.pos = next /\ t.prevCh = ch /\ t.lastFamily = family
  BY DEF Pass
<1> HIDE DEF attach
<1>3. \A start \in Int : NewRun(c, family, start, 0) \in RunOf(F, G) /\ NewRun(c, family, start, 0).start = start
  BY DEF NewRun, RunOf
<1> DEFINE Begins(given, start) ==
             /\ Tiles(given) /\ EndOf(given) = start /\ start <= s.pos
             /\ Begin(c, s, family, attach) = Append(given, NewRun(c, family, start, 0))
             /\ Len(given) \in {Len(s.runs) - 1, Len(s.runs)}
             /\ \A k \in 1..Len(s.runs) - 1 : given[k] = s.runs[k]
<1>4. \E given \in Seq(RunOf(F, G)), start \in Int : Begins(given, start)
  <2>1. CASE Len(s.runs) = 0
    <3>1. s.lastFamily = 0 /\ s.runs = << >> /\ Begin(c, s, family, attach) = <<NewRun(c, family, 0, 0)>>
      BY <2>1 DEF Walked, Begin
    <3>2. /\ Append(<< >>, NewRun(c, family, 0, 0)) = <<NewRun(c, family, 0, 0)>>
          /\ << >> \in Seq(RunOf(F, G)) /\ Len(<< >>) = 0
      OBVIOUS
    <3>3. Tiles(<< >>) /\ EndOf(<< >>) = 0
      BY <3>2 DEF Tiles, EndOf
    <3>4. Begins(<< >>, 0)
      BY <1>1, <2>1, <3>1, <3>2, <3>3
    <3>5. 0 \in Int
      OBVIOUS
    <3> HIDE DEF Begins
    <3>. QED  BY <3>2, <3>4, <3>5, Zenon
  <2>2. CASE Len(s.runs) # 0 /\ ~attach
    <3>1. /\ Begin(c, s, family, attach) = Append(s.runs, NewRun(c, family, s.pos, 0))
          /\ EndOf(s.runs) = s.pos /\ s.runs \in Seq(RunOf(F, G)) /\ Tiles(s.runs)
      BY <2>2 DEF Walked, Begin
    <3>2. Begins(s.runs, s.pos)
      BY <1>1, <3>1
    <3> HIDE DEF Begins
    <3>. QED  BY <1>1, <3>1, <3>2
  <2>3. CASE Len(s.runs) # 0 /\ attach
    <3> DEFINE from == s.pos - U16_LENGTH(s.prevCh)
               left == GiveUp(s.runs, s.prevCh)
    <3>1. Begin(c, s, family, attach) = Append(left, NewRun(c, family, from, 0))
      BY <2>3 DEF Walked, Begin
    <3>2. from \in Int /\ from <= s.pos
      BY <1>1 DEF U16_LENGTH
    <3>3. /\ left \in Seq(RunOf(F, G)) /\ Tiles(left) /\ EndOf(left) = from
          /\ Len(left) \in {Len(s.runs) - 1, Len(s.runs)}
          /\ \A k \in 1..Len(s.runs) - 1 : left[k] = s.runs[k]
      BY <2>3, GivingUpTiles DEF Walked
    <3> HIDE DEF from, left
    <3>4. Begins(left, from)
      BY <3>1, <3>2, <3>3
    <3> HIDE DEF Begins
    <3>. QED  BY <3>2, <3>3, <3>4
  <2>. QED  BY <2>1, <2>2, <2>3
<1>5. PICK given \in Seq(RunOf(F, G)), start \in Int : Begins(given, start)
  BY <1>4
<1>6. PICK run \in RunOf(F, G) : run = NewRun(c, family, start, 0) /\ run.start = start /\ start < next
  BY <1>1, <1>3, <1>5
<1>7. t.runs = Grow(Append(given, run), next)
  BY <1>2, <1>5, <1>6
<1>8. /\ Tiles(given) /\ EndOf(given) = start
      /\ Len(given) \in {Len(s.runs) - 1, Len(s.runs)}
      /\ \A k \in 1..Len(s.runs) - 1 : given[k] = s.runs[k]
  BY <1>5
<1> HIDE DEF t, next, Begins
<1>9. /\ t.runs \in Seq(RunOf(F, G)) /\ Tiles(t.runs) /\ Len(t.runs) = Len(given) + 1
      /\ EndOf(t.runs) = next /\ t.runs[Len(t.runs)].start = start
      /\ \A k \in 1..Len(given) : t.runs[k] = given[k]
  <2>1. next \in Int /\ run.start = EndOf(given) /\ run.start < next
    BY <1>1, <1>6, <1>8
  <2>3. PICK end \in Int : end = next
    BY <2>1
  <2>4. Tiles(given) /\ run.start = EndOf(given) /\ run.start < end
    BY <1>8, <2>1, <2>3
  <2> DEFINE grown == Grow(Append(given, run), end)
  <2>2. OneMoreRun(F, G, given, run, grown, end)
    BY <2>4, NextRunTiles
  <2>5. t.runs = grown
    BY <1>7, <2>3
  <2> HIDE DEF grown
  <2>. QED  BY <1>6, <2>2, <2>3, <2>5 DEF OneMoreRun
<1>10. Len(given) \in Nat /\ Len(s.runs) \in Nat
  BY DEF Walked
<1>11. Walked(F, G, t)
  <2>1. Len(t.runs) # 0 /\ t.lastFamily # 0 /\ t.lastFamily \in F /\ t.pos # 0
    BY <1>1, <1>2, <1>9, <1>10
  <2>2. t.runs[Len(t.runs)].start <= t.pos - U16_LENGTH(t.prevCh)
    <3>1. start <= s.pos
      BY <1>5 DEF Begins
    <3>. QED  BY <1>1, <1>2, <1>9, <3>1
  <2>. QED  BY <1>1, <1>2, <1>9, <2>1, <2>2 DEF Walked
<1>12. KeepsAllButLast(s.runs, t.runs)
  <2>1. \A k \in 1..Len(s.runs) - 1 : k \in 1..Len(given)
    BY <1>8, <1>10
  <2>. QED  BY <1>8, <1>9, <1>10, <2>1 DEF KeepsAllButLast
<1>13. Full(t, runMax)
  <2>1. Begin(c, s, family, attach) = Append(given, run) /\ Len(Append(given, run)) = Len(given) + 1
    BY <1>5, <1>6 DEF Begins
  <2>. QED  BY <1>2, <1>9, <2>1, PassingFills DEF t, next
<1>. QED  BY <1>2, <1>11, <1>12, <1>13 DEF t, next, attach

(* A character seen.                                                       *)
LEMMA SeeingKeepsWalked ==
  ASSUME NEW F, NEW G, NEW c, NEW s, NEW ch, NEW family \in F, NEW runMax,
         Walked(F, G, s), family # 0, getClosestMatch(c.mFamilies[family], WantedStyle) \in G
  PROVE  LET t == See(c, s, ch, family, runMax)
         IN /\ Walked(F, G, t)
            /\ t.pos = s.pos + U16_LENGTH(ch)
            /\ KeepsAllButLast(s.runs, t.runs)
            /\ Full(t, runMax)
<1> DEFINE t == See(c, s, ch, family, runMax)
           p == Pass(s, ch, s.lastFamily, s.runs, runMax)
           q == Pass(s, ch, family, Begin(c, s, family, Attaches(c, s, ch, family)), runMax)
           Good(u) == /\ Walked(F, G, u) /\ u.pos = s.pos + U16_LENGTH(ch)
                      /\ KeepsAllButLast(s.runs, u.runs) /\ Full(u, runMax)
<1>1. t \in {p, q}
  BY DEF See
<1>2. Good(p)
  BY PassingKeepsWalked
<1>3. Good(q)
  BY BeginningKeepsWalked
<1> HIDE DEF t, p, q, Good
<1>4. Good(t)
  BY <1>1, <1>2, <1>3
<1>. QED  BY <1>4 DEF t, Good

(* How many runs are wanted changes nothing but when the walk ends.        *)
Same(s, u) ==
  s.runs = u.runs /\ s.pos = u.pos /\ s.prevCh = u.prevCh /\ s.lastFamily = u.lastFamily

LEMMA SeeingSame ==
  ASSUME NEW c, NEW s, NEW u, Same(s, u), NEW ch, NEW family, NEW m, NEW n
  PROVE  Same(See(c, s, ch, family, m), See(c, u, ch, family, n))
<1>1. (Continues(c, s.lastFamily, ch) \/ (s.pos # 0 /\ family = s.lastFamily))
        <=> (Continues(c, u.lastFamily, ch) \/ (u.pos # 0 /\ family = u.lastFamily))
  BY DEF Same
<1>2. Begin(c, s, family, Attaches(c, s, ch, family)) = Begin(c, u, family, Attaches(c, u, ch, family))
  <2>1. Attaches(c, s, ch, family) <=> Attaches(c, u, ch, family)
    BY DEF Same, Attaches
  <2>. QED  BY <2>1 DEF Same, Begin
<1>3. \A f, runs, rest : runs = rest => Same(Pass(s, ch, f, runs, m), Pass(u, ch, f, rest, n))
  BY DEF Same, Pass
<1>. QED  BY <1>1, <1>2, <1>3 DEF Same, See

-----------------------------------------------------------------------------
(* The walk over a text, character by character.                           *)
IsSeen(c, text, locales, variant, runMax, n, f) ==
  f = [i \in 0..n |-> IF i = 0 THEN NothingSeen
                      ELSE SeeNext(c, f[i - 1], text, i, locales, variant, runMax)]
IsOffset(text, n, f) ==
  f = [k \in 0..n |-> IF k = 0 THEN 0 ELSE f[k - 1] + U16_LENGTH(text[k])]

LEMMA SeenExists ==
  ASSUME NEW c, NEW text, NEW locales, NEW variant, NEW runMax, NEW n \in Nat
  PROVE  \E f : IsSeen(c, text, locales, variant, runMax, n, f)
<1> DEFINE Is(m, f) == IsSeen(c, text, locales, variant, runMax, m, f)
           Behind(s, i) == SeeNext(c, s, text, i, locales, variant, runMax)
           bad == {m \in Nat : ~ \E f : Is(m, f)}
<1>0. \A m, f : Is(m, f) <=> f = [i \in 0..m |-> IF i = 0 THEN NothingSeen ELSE Behind(f[i - 1], i)]
  BY DEF IsSeen
<1> HIDE DEF Is, Behind
<1>1. SUFFICES ASSUME bad # {} PROVE FALSE
  BY DEF Is
<1>2. PICK m \in bad : \A y \in bad : m <= y
  BY <1>1, LeastExists
<1>3. CASE m = 0
  <2> DEFINE f == [i \in 0..0 |-> NothingSeen]
  <2>1. f = [i \in 0..0 |-> IF i = 0 THEN NothingSeen ELSE Behind(f[i - 1], i)]
    OBVIOUS
  <2> HIDE DEF f
  <2>. QED  BY <1>0, <1>2, <1>3, <2>1
<1>4. CASE m # 0
  <2>1. m - 1 \in Nat /\ m - 1 \notin bad
    BY <1>2, <1>4
  <2>2. PICK f : Is(m - 1, f)
    BY <2>1
  <2> DEFINE g == [i \in 0..m |-> IF i = m THEN Behind(f[m - 1], m) ELSE f[i]]
  <2>3. \A i \in 0..m - 1 : f[i] = IF i = 0 THEN NothingSeen ELSE Behind(f[i - 1], i)
    BY <2>1, <2>2, <1>0
  <2>4. \A i \in 0..m : g[i] = IF i = 0 THEN NothingSeen ELSE Behind(g[i - 1], i)
    <3>1. \A i \in 0..m - 1 : g[i] = f[i]
      BY <1>2
    <3>2. g[m] = Behind(f[m - 1], m) /\ m - 1 \in 0..m - 1 /\ m \in Nat
      BY <1>2, <1>4
    <3>3. \A i \in 0..m : i = m \/ (i \in 0..m - 1 /\ (i # 0 => i - 1 \in 0..m - 1))
      BY <3>2
    <3> HIDE DEF g
    <3>. QED  BY <1>4, <2>3, <3>1, <3>2, <3>3
  <2>5. Is(m, g)
    <3>1. g = [i \in 0..m |-> g[i]]
      OBVIOUS
    <3> HIDE DEF g
    <3>2. g = [i \in 0..m |-> IF i = 0 THEN NothingSeen ELSE Behind(g[i - 1], i)]
      BY <2>4, <3>1
    <3>. QED  BY <3>2, <1>0
  <2>. QED  BY <1>2, <2>5
<1>. QED  BY <1>3, <1>4

LEMMA OffsetExists ==
  ASSUME NEW text, NEW n \in Nat
  PROVE  \E f : IsOffset(text, n, f)
<1> DEFINE Is(m, f) == IsOffset(text, m, f)
           bad == {m \in Nat : ~ \E f : Is(m, f)}
<1>1. SUFFICES ASSUME bad # {} PROVE FALSE
  OBVIOUS
<1>2. PICK m \in bad : \A y \in bad : m <= y
  BY <1>1, LeastExists
<1>3. CASE m = 0
  <2> DEFINE f == [k \in 0..0 |-> 0]
  <2>1. f = [k \in 0..0 |-> IF k = 0 THEN 0 ELSE f[k - 1] + U16_LENGTH(text[k])]
    OBVIOUS
  <2> HIDE DEF f
  <2>. QED  BY <1>2, <1>3, <2>1 DEF IsOffset
<1>4. CASE m # 0
  <2>1. m - 1 \in Nat /\ m - 1 \notin bad
    BY <1>2, <1>4
  <2>2. PICK f : IsOffset(text, m - 1, f)
    BY <2>1
  <2> DEFINE g == [k \in 0..m |-> IF k = m THEN f[m - 1] + U16_LENGTH(text[m]) ELSE f[k]]
  <2>3. \A k \in 0..m - 1 : f[k] = IF k = 0 THEN 0 ELSE f[k - 1] + U16_LENGTH(text[k])
    BY <2>1, <2>2 DEF IsOffset
  <2>4. \A k \in 0..m : g[k] = IF k = 0 THEN 0 ELSE g[k - 1] + U16_LENGTH(text[k])
    <3>1. \A k \in 0..m - 1 : g[k] = f[k]
      BY <1>2
    <3>2. g[m] = f[m - 1] + U16_LENGTH(text[m]) /\ m - 1 \in 0..m - 1 /\ m \in Nat
      BY <1>2, <1>4
    <3>3. \A k \in 0..m : k = m \/ (k \in 0..m - 1 /\ (k # 0 => k - 1 \in 0..m - 1))
      BY <3>2
    <3> HIDE DEF g
    <3>. QED  BY <1>4, <2>3, <3>1, <3>2, <3>3
  <2>5. IsOffset(text, m, g)
    <3>1. g = [k \in 0..m |-> g[k]]
      OBVIOUS
    <3> HIDE DEF g
    <3>. QED  BY <2>4, <3>1 DEF IsOffset
  <2>. QED  BY <1>2, <2>5
<1>. QED  BY <1>3, <1>4

(* F are the families and G the fonts the text is drawn with.              *)
DrawsWith(F, G, c, text, locales, variant, n) ==
  \A i \in 1..n : LET family == getFamilyForChar(c, text[i], VsBehind(text, i), locales, variant)
                  IN /\ family \in F /\ family # 0
                     /\ getClosestMatch(c.mFamilies[family], WantedStyle) \in G

(* The walk that is never stopped, and one that is.                        *)
LEMMA WalkIsWalked ==
  ASSUME NEW c, NEW text, NEW locales, NEW variant, NEW n \in Nat, NEW F, NEW G, NEW f, NEW o,
         DrawsWith(F, G, c, text, locales, variant, n),
         IsSeen(c, text, locales, variant, n, n, f),
         IsOffset(text, n, o)
  PROVE  \A i \in 0..n : /\ Walked(F, G, f[i]) /\ ~f[i].done
                         /\ Len(f[i].runs) <= i /\ f[i].pos = o[i]
<1> DEFINE Good(i) == /\ Walked(F, G, f[i]) /\ ~f[i].done
                      /\ Len(f[i].runs) <= i /\ f[i].pos = o[i]
           bad == {i \in 0..n : ~Good(i)}
<1>1. /\ f[0] = NothingSeen /\ o[0] = 0
      /\ \A i \in 1..n : /\ f[i] = SeeNext(c, f[i - 1], text, i, locales, variant, n)
                         /\ o[i] = o[i - 1] + U16_LENGTH(text[i])
  BY DEF IsSeen, IsOffset
<1>2. bad = {}
  <2>1. SUFFICES ASSUME bad # {} PROVE FALSE
    OBVIOUS
  <2>2. PICK i \in bad : \A y \in bad : i <= y
    BY <2>1, LeastExists, bad \in SUBSET Nat
  <2>3. CASE i = 0
    <3>1. NothingSeen.runs = << >> /\ NothingSeen.pos = 0 /\ NothingSeen.lastFamily = 0 /\ ~NothingSeen.done
      BY DEF NothingSeen
    <3>2. << >> \in Seq(RunOf(F, G)) /\ Len(<< >>) = 0
      OBVIOUS
    <3>3. Walked(F, G, NothingSeen)
      BY <3>1, <3>2 DEF Walked, Tiles
    <3>. QED  BY <1>1, <2>2, <2>3, <3>1, <3>2, <3>3
  <2>4. CASE i # 0
    <3>1. i \in 1..n /\ i - 1 \in 0..n /\ i - 1 \notin bad
      BY <2>2, <2>4
    <3>2. PICK s : s = f[i - 1]
      OBVIOUS
    <3>3. Walked(F, G, s) /\ ~s.done /\ Len(s.runs) <= i - 1 /\ s.pos = o[i - 1]
      BY <3>1, <3>2
    <3>4. PICK family \in F : /\ family = getFamilyForChar(c, text[i], VsBehind(text, i), locales, variant)
                              /\ family # 0
                              /\ getClosestMatch(c.mFamilies[family], WantedStyle) \in G
      BY <3>1 DEF DrawsWith
    <3>5. PICK t : t = See(c, s, text[i], family, n)
      OBVIOUS
    <3>6. f[i] = t
      BY <1>1, <3>1, <3>2, <3>3, <3>4, <3>5 DEF SeeNext
    <3>7. /\ Walked(F, G, t) /\ t.pos = s.pos + U16_LENGTH(text[i])
          /\ KeepsAllButLast(s.runs, t.runs) /\ Full(t, n)
      <4>1. PICK ch : ch = text[i]
        OBVIOUS
      <4>2. Walked(F, G, s) /\ family # 0 /\ getClosestMatch(c.mFamilies[family], WantedStyle) \in G
        BY <3>3, <3>4
      <4>3. t = See(c, s, ch, family, n)
        BY <3>5, <4>1
      <4>4. /\ Walked(F, G, t) /\ t.pos = s.pos + U16_LENGTH(ch)
            /\ KeepsAllButLast(s.runs, t.runs) /\ Full(t, n)
        <5>1. Walked(F, G, t) /\ KeepsAllButLast(s.runs, t.runs) /\ Full(t, n)
          BY <4>2, <4>3, SeeingKeepsWalked
        <5>2. t.pos = s.pos + U16_LENGTH(ch)
          BY <4>3 DEF See, Pass
        <5>. QED  BY <5>1, <5>2
      <4>. QED  BY <4>1, <4>4
    <3>8. Len(t.runs) \in Nat /\ Len(s.runs) \in Nat /\ Len(t.runs) <= i
      BY <3>1, <3>3, <3>7 DEF Walked, KeepsAllButLast
    <3>9. ~t.done
      BY <3>1, <3>7, <3>8 DEF Full
    <3>10. t.pos = o[i]
      BY <1>1, <3>1, <3>3, <3>7
    <3>. QED  BY <2>2, <3>6, <3>7, <3>8, <3>9, <3>10
  <2>. QED  BY <2>3, <2>4
<1>. QED  BY <1>2

(* The runs of s that u, the walk that stops, has found.                   *)
RunsOf(s, u, runMax) ==
  /\ ~u.done => Same(u, s) /\ Len(u.runs) < runMax + 2
  /\ u.done => /\ Len(u.runs) = runMax + 2 /\ Len(s.runs) >= runMax + 2
               /\ \A k \in 1..runMax + 1 : u.runs[k] = s.runs[k]

LEMMA StoppedWalkIsWalked ==
  ASSUME NEW c, NEW text, NEW locales, NEW variant, NEW n \in Nat, NEW F, NEW G, NEW f, NEW g,
         NEW runMax \in Nat,
         DrawsWith(F, G, c, text, locales, variant, n),
         IsSeen(c, text, locales, variant, n, n, f),
         IsSeen(c, text, locales, variant, runMax, n, g),
         \A i \in 0..n : Walked(F, G, f[i]) /\ ~f[i].done
  PROVE  \A i \in 0..n : Walked(F, G, g[i]) /\ RunsOf(f[i], g[i], runMax)
<1> DEFINE Good(i) == Walked(F, G, g[i]) /\ RunsOf(f[i], g[i], runMax)
           bad == {i \in 0..n : ~Good(i)}
<1>1. /\ f[0] = NothingSeen /\ g[0] = NothingSeen
      /\ \A i \in 1..n : /\ f[i] = SeeNext(c, f[i - 1], text, i, locales, variant, n)
                         /\ g[i] = SeeNext(c, g[i - 1], text, i, locales, variant, runMax)
  BY DEF IsSeen
<1>2. bad = {}
  <2>1. SUFFICES ASSUME bad # {} PROVE FALSE
    OBVIOUS
  <2>2. PICK i \in bad : \A y \in bad : i <= y
    BY <2>1, LeastExists, bad \in SUBSET Nat
  <2>3. CASE i = 0
    <3>1. Len(NothingSeen.runs) = 0 /\ ~NothingSeen.done /\ Same(NothingSeen, NothingSeen)
      BY DEF NothingSeen, Same
    <3>2. Walked(F, G, NothingSeen)
      BY <1>1
    <3>. QED  BY <1>1, <2>2, <2>3, <3>1, <3>2 DEF RunsOf
  <2>4. CASE i # 0
    <3>1. i \in 1..n /\ i - 1 \in 0..n /\ i - 1 \notin bad
      BY <2>2, <2>4
    <3>2. PICK s, u : s = g[i - 1] /\ u = f[i - 1]
      OBVIOUS
    <3>3. /\ Walked(F, G, s)
          /\ ~s.done => Same(s, u) /\ Len(s.runs) < runMax + 2
          /\ s.done => /\ Len(s.runs) = runMax + 2 /\ Len(u.runs) >= runMax + 2
                       /\ \A k \in 1..runMax + 1 : s.runs[k] = u.runs[k]
          /\ Walked(F, G, u) /\ ~u.done
      BY <3>1, <3>2 DEF RunsOf
    <3>4. PICK family \in F : /\ family = getFamilyForChar(c, text[i], VsBehind(text, i), locales, variant)
                              /\ family # 0
                              /\ getClosestMatch(c.mFamilies[family], WantedStyle) \in G
      BY <3>1 DEF DrawsWith
    <3>5. PICK t, v : t = g[i] /\ v = f[i]
      OBVIOUS
    <3>6. v = See(c, u, text[i], family, n)
      BY <1>1, <3>1, <3>2, <3>3, <3>4, <3>5 DEF SeeNext
    <3>7. Walked(F, G, v) /\ KeepsAllButLast(u.runs, v.runs) /\ Len(u.runs) \in Nat /\ Len(v.runs) \in Nat
      <4>1. Walked(F, G, v) /\ KeepsAllButLast(u.runs, v.runs)
        BY <3>3, <3>4, <3>6, SeeingKeepsWalked, Zenon
      <4>. QED  BY <3>3, <4>1 DEF Walked
    <3>8. CASE s.done
      <4>1. t = s
        BY <1>1, <3>1, <3>2, <3>5, <3>8 DEF SeeNext
      <4>2. Len(v.runs) >= runMax + 2 /\ \A k \in 1..runMax + 1 : v.runs[k] = u.runs[k]
        <5>1. \A k \in 1..runMax + 1 : k \in 1..Len(u.runs) - 1
          BY <3>3, <3>7, <3>8
        <5>. QED  BY <3>3, <3>7, <3>8, <5>1 DEF KeepsAllButLast
      <4>. QED  BY <2>2, <3>3, <3>5, <3>8, <4>1, <4>2 DEF RunsOf
    <3>9. CASE ~s.done
      <4>1. t = See(c, s, text[i], family, runMax)
        BY <1>1, <3>1, <3>2, <3>4, <3>5, <3>9 DEF SeeNext
      <4>2. Same(t, v)
        BY <3>3, <3>6, <3>9, <4>1, SeeingSame
      <4>3. Walked(F, G, t) /\ KeepsAllButLast(s.runs, t.runs) /\ Full(t, runMax)
        BY <3>3, <3>4, <4>1, SeeingKeepsWalked
      <4>4. Len(t.runs) \in Nat /\ Len(s.runs) \in Nat /\ Len(t.runs) < runMax + 3
        <5>1. Len(t.runs) \in Nat
          BY <4>3 DEF Walked
        <5>2. Len(s.runs) \in Nat /\ Len(s.runs) < runMax + 2
          BY <3>3, <3>9 DEF Walked
        <5>3. Len(t.runs) <= Len(s.runs) + 1
          BY <4>3 DEF KeepsAllButLast
        <5>. QED  BY <5>1, <5>2, <5>3
      <4>5. t.done <=> Len(t.runs) = runMax + 2
        BY <4>3, <4>4 DEF Full
      <4>6. t.runs = v.runs
        BY <4>2 DEF Same
      <4>7. CASE t.done
        BY <2>2, <3>5, <4>3, <4>4, <4>5, <4>6, <4>7 DEF RunsOf
      <4>8. CASE ~t.done
        BY <2>2, <3>5, <4>2, <4>3, <4>4, <4>5, <4>8 DEF RunsOf
      <4>. QED  BY <4>7, <4>8
    <3>. QED  BY <3>8, <3>9
  <2>. QED  BY <2>3, <2>4
<1>. QED  BY <1>2

-----------------------------------------------------------------------------
(* The runs itemize returns tile the text.                                 *)
LEMMA ItemizeTiles ==
  ASSUME NEW c, NEW text \in Seq(Nat), NEW locales, NEW variant, NEW runMax \in Nat
  PROVE  TileAndBegin(itemize(c, text, locales, variant, Len(text)),
                      itemize(c, text, locales, variant, runMax), runMax,
                      Offset(text, Len(text)))
<1>1. PICK n \in Nat : n = Len(text) /\ (n = 0 <=> text = << >>)
  OBVIOUS
<1> DEFINE family(i) == getFamilyForChar(c, text[i], VsBehind(text, i), locales, variant)
           F == {1} \cup {family(i) : i \in 1..n}
           G == {getClosestMatch(c.mFamilies[j], WantedStyle) : j \in F}
<1>2. PICK f : IsSeen(c, text, locales, variant, n, n, f) /\ Seen(c, text, locales, variant, n) = f[n]
  <2> DEFINE h == CHOOSE h : h = [i \in 0..n |-> IF i = 0 THEN NothingSeen
                                               ELSE SeeNext(c, h[i - 1], text, i, locales, variant, n)]
  <2>1. \E e : IsSeen(c, text, locales, variant, n, n, e)
    BY SeenExists
  <2>2. IsSeen(c, text, locales, variant, n, n, h)
    BY <2>1 DEF IsSeen
  <2>. QED  BY <1>1, <2>2 DEF Seen
<1>3. PICK g : IsSeen(c, text, locales, variant, runMax, n, g) /\ Seen(c, text, locales, variant, runMax) = g[n]
  <2> DEFINE h == CHOOSE h : h = [i \in 0..n |-> IF i = 0 THEN NothingSeen
                                               ELSE SeeNext(c, h[i - 1], text, i, locales, variant, runMax)]
  <2>1. \E e : IsSeen(c, text, locales, variant, runMax, n, e)
    BY SeenExists
  <2>2. IsSeen(c, text, locales, variant, runMax, n, h)
    BY <2>1 DEF IsSeen
  <2>. QED  BY <1>1, <2>2 DEF Seen
<1>4. PICK o : IsOffset(text, n, o) /\ Offset(text, n) = o[n]
  <2> DEFINE h == CHOOSE h : h = [k \in 0..n |-> IF k = 0 THEN 0 ELSE h[k - 1] + U16_LENGTH(text[k])]
  <2>1. \E e : IsOffset(text, n, e)
    BY OffsetExists
  <2>2. IsOffset(text, n, h)
    BY <2>1 DEF IsOffset
  <2>. QED  BY <1>1, <2>2 DEF Offset
<1>5. /\ Seen(c, text, locales, variant, n) = f[n]
      /\ Seen(c, text, locales, variant, runMax) = g[n]
      /\ Offset(text, n) = o[n]
  BY <1>2, <1>3, <1>4
<1>6. DrawsWith(F, G, c, text, locales, variant, n)
  <2>1. ASSUME NEW i \in 1..n PROVE family(i) # 0
    BY DEF getFamilyForChar, OrFirst
  <2>2. ASSUME NEW i \in 1..n
        PROVE  family(i) \in F /\ getClosestMatch(c.mFamilies[family(i)], WantedStyle) \in G
    OBVIOUS
  <2>. QED  BY <2>1, <2>2 DEF DrawsWith
<1>8. PICK s, u : s = f[n] /\ u = g[n]
  OBVIOUS
<1> HIDE DEF F, G, family
<1>9. \A i \in 0..n : Walked(F, G, f[i]) /\ ~f[i].done /\ Len(f[i].runs) <= i /\ f[i].pos = o[i]
  BY <1>2, <1>4, <1>6, WalkIsWalked
<1>10. \A i \in 0..n : Walked(F, G, g[i]) /\ RunsOf(f[i], g[i], runMax)
  <2>1. \A i \in 0..n : Walked(F, G, f[i]) /\ ~f[i].done
    BY <1>9
  <2>. QED  BY <1>2, <1>3, <1>6, <2>1, StoppedWalkIsWalked
<1>11. /\ Walked(F, G, s) /\ Len(s.runs) <= n /\ s.pos = Offset(text, n)
       /\ Walked(F, G, u)
       /\ ~u.done => Same(u, s) /\ Len(u.runs) < runMax + 2
       /\ u.done => /\ Len(u.runs) = runMax + 2 /\ Len(s.runs) >= runMax + 2
                    /\ \A k \in 1..runMax + 1 : u.runs[k] = s.runs[k]
  BY <1>1, <1>5, <1>8, <1>9, <1>10 DEF RunsOf
<1> DEFINE all == Runs(c, text, s)
           some == Runs(c, text, u)
<1>12. /\ itemize(c, text, locales, variant, n) = FirstOf(all, n)
       /\ itemize(c, text, locales, variant, runMax) = FirstOf(some, runMax)
  BY <1>5, <1>8 DEF itemize
<1>13. CASE s.lastFamily # 0 \/ n = 0
  <2>1. all = s.runs
    BY <1>1, <1>13 DEF Runs
  <2>2. Len(s.runs) \in Nat /\ s.runs \in Seq(RunOf(F, G)) /\ (Len(s.runs) = 0 <=> s.runs = << >>)
    BY <1>11 DEF Walked
  <2>3. Len(u.runs) \in Nat /\ u.runs \in Seq(RunOf(F, G)) /\ (Len(u.runs) = 0 <=> u.runs = << >>)
    BY <1>11 DEF Walked
  <2>4. Offset(text, n) = IF all = << >> THEN 0 ELSE all[Len(all)].end
    <3>1. CASE s.lastFamily # 0
      BY <1>11, <2>1, <2>2, <3>1 DEF Walked, EndOf
    <3>2. CASE n = 0
      BY <1>4, <1>5, <1>11, <2>1, <2>2, <3>2 DEF IsOffset
    <3>. QED  BY <1>13, <3>1, <3>2
  <2>5. FirstOf(all, n) = all
    <3>1. Min({Len(s.runs), n}) = Len(s.runs)
      <4>1. Len(s.runs) \in Int /\ n \in Int /\ Len(s.runs) <= n
        BY <1>11, <2>2
      <4>. QED  BY <4>1, LesserOfTwo
    <3>2. SubSeq(s.runs, 1, Len(s.runs)) = s.runs
      BY <2>2
    <3>. QED  BY <2>1, <3>1, <3>2 DEF FirstOf
  <2>6. FirstOf(some, runMax) = SubSeq(all, 1, Min({Len(all), runMax}))
    <3>1. CASE ~u.done
      <4>1. some = all
        BY <1>11, <3>1 DEF Runs, Same
      <4>. QED  BY <4>1 DEF FirstOf
    <3>2. CASE u.done
      <4>1. some = u.runs
        BY <1>11, <2>3, <3>2 DEF Runs, Walked
      <4>2. Min({Len(some), runMax}) = runMax /\ Min({Len(all), runMax}) = runMax
        <5>1. /\ Len(u.runs) \in Int /\ Len(s.runs) \in Int /\ runMax \in Int
              /\ ~(Len(u.runs) <= runMax) /\ ~(Len(s.runs) <= runMax)
          BY <1>11, <2>2, <2>3, <3>2
        <5>2. Min({Len(u.runs), runMax}) = runMax /\ Min({Len(s.runs), runMax}) = runMax
          BY <5>1, LesserOfTwo
        <5>. QED  BY <2>1, <4>1, <5>2
      <4>3. SubSeq(u.runs, 1, runMax) = SubSeq(s.runs, 1, runMax)
        BY <1>11, <2>2, <2>3, <3>2
      <4>. QED  BY <2>1, <4>1, <4>2, <4>3 DEF FirstOf
    <3>. QED  BY <3>1, <3>2
  <2>7. Tiles(all)
    BY <1>11, <2>1 DEF Walked
  <2> HIDE DEF all, some
  <2>8. DOMAIN all = 1..Len(all)
    BY <2>1, <2>2
  <2>. QED  BY <1>1, <1>12, <2>4, <2>5, <2>6, <2>7, <2>8 DEF TileAndBegin, Tiles
<1>14. CASE s.lastFamily = 0 /\ n # 0
  <2> DEFINE run == NewRun(c, 1, 0, s.pos)
  <2>1. Len(s.runs) = 0 /\ ~u.done /\ Same(u, s)
    BY <1>1, <1>11, <1>14 DEF Walked
  <2>2. all = <<run>> /\ some = <<run>>
    BY <1>1, <1>14, <2>1 DEF Runs, Same
  <2>3. run.start = 0 /\ run.end = s.pos
    BY DEF NewRun
  <2>4. s.pos > 0
    <3>1. \A i \in 0..n : o[i] \in Nat
      BY <1>9 DEF Walked
    <3>2. o[n] = o[n - 1] + U16_LENGTH(text[n]) /\ n - 1 \in 0..n
      <4>1. \A k \in 0..n : o[k] = IF k = 0 THEN 0 ELSE o[k - 1] + U16_LENGTH(text[k])
        BY <1>4 DEF IsOffset
      <4>. QED  BY <1>14, <4>1
    <3>. QED  BY <1>1, <1>5, <1>11, <3>1, <3>2 DEF U16_LENGTH
  <2> HIDE DEF run, all, some
  <2>5. Len(all) = 1 /\ all[1] = run /\ all # << >> /\ DOMAIN all = {1} /\ some = all
    BY <2>2
  <2>6. Min({1, n}) = 1
    BY <1>1, <1>14, LesserOfTwo
  <2>7. FirstOf(all, n) = all
    <3>1. <<run>> \in Seq({run}) /\ Len(<<run>>) = 1
      OBVIOUS
    <3>2. \A one \in Seq({run}) : SubSeq(one, 1, Len(one)) = one
      OBVIOUS
    <3>. QED  BY <2>2, <2>5, <2>6, <3>1, <3>2 DEF FirstOf
  <2>8. FirstOf(some, runMax) = SubSeq(all, 1, Min({Len(all), runMax}))
    BY <2>5 DEF FirstOf
  <2>9. TileAndBegin(all, FirstOf(some, runMax), runMax, s.pos)
    BY <2>3, <2>4, <2>5, <2>8 DEF TileAndBegin
  <2>. QED  BY <1>1, <1>11, <1>12, <2>7, <2>9
<1>. QED  BY <1>13, <1>14

(* There is one collection, and what was asked was asked of it.            *)
AskedOfIt ==
  /\ \A c, d \in collection : c = d
  /\ asked # NothingAsked =>
       /\ collection # {} /\ asked.text \in Seq(Nat) /\ asked.runMax \in Nat
       /\ \A c \in collection :
            asked.runs = itemize(c, asked.text, asked.locales, asked.variant, asked.runMax)

LEMMA AskedOfItHolds == Spec => []AskedOfIt
<1>1. Init => AskedOfIt
  BY DEF Init, AskedOfIt
<1>2. AskedOfIt /\ [Next]_vars => AskedOfIt'
  <2> SUFFICES ASSUME AskedOfIt, [Next]_vars PROVE AskedOfIt'
    OBVIOUS
  <2>1. ASSUME NEW def \in FamilyDefs, Open(def) PROVE AskedOfIt'
    BY <2>1 DEF Open, AskedOfIt
  <2>2. CASE Create
    BY <2>2 DEF Create, AskedOfIt
  <2>3. ASSUME NEW text \in Texts, NEW locales \in WantedLocales, NEW variant \in WantedVariants,
               NEW runMax \in {1, Len(text)}, Itemize(text, locales, variant, runMax)
        PROVE  AskedOfIt'
    <3>1. PICK c \in collection :
            /\ asked' = [text |-> text, locales |-> locales, variant |-> variant, runMax |-> runMax,
                         runs |-> itemize(c, text, locales, variant, runMax)]
            /\ UNCHANGED <<opened, collection>>
      BY <2>3 DEF Itemize
    <3>2. text \in Seq(Nat) /\ runMax \in Nat
      BY FontsAssumption
    <3>. QED  BY <3>1, <3>2 DEF AskedOfIt
  <2>4. ASSUME NEW variations \in Variations, Vary(variations) PROVE AskedOfIt'
    BY <2>4 DEF Vary, AskedOfIt
  <2>5. CASE UNCHANGED vars
    BY <2>5 DEF vars, AskedOfIt
  <2>. QED  BY <2>1, <2>2, <2>3, <2>4, <2>5 DEF Next
<1>. QED  BY <1>1, <1>2, PTL DEF Spec

(* The runs of a text are not empty, follow each other from its first to   *)
(* its last unit, and the first of them are final as soon as they are      *)
(* given to someone who asks for fewer (FontCollection::itemize).          *)
THEOREM RunsTile == Spec => []RunsTileTheText
<1>1. AskedOfIt => RunsTileTheText
  <2> SUFFICES ASSUME AskedOfIt, NEW c \in collection, asked # NothingAsked
               PROVE  TileAndBegin(itemize(c, asked.text, asked.locales, asked.variant, Len(asked.text)),
                                   asked.runs, asked.runMax, Offset(asked.text, Len(asked.text)))
    BY DEF RunsTileTheText
  <2>1. /\ asked.text \in Seq(Nat) /\ asked.runMax \in Nat
        /\ asked.runs = itemize(c, asked.text, asked.locales, asked.variant, asked.runMax)
    BY DEF AskedOfIt
  <2>. QED  BY <2>1, ItemizeTiles
<1>. QED  BY <1>1, AskedOfItHolds, PTL

-----------------------------------------------------------------------------
(* Numbers written with base 5, most significant digit first.              *)
IsValue(d, n, f) == f = [i \in 0..n |-> IF i = 0 THEN 0 ELSE f[i - 1] * 5 + d[i]]

AgreeUpTo(a, b, n) == \A k \in 1..n : a[k] = b[k]
LessWithin(a, b, n) == \E k \in 1..n : a[k] < b[k] /\ AgreeUpTo(a, b, k - 1)

LEMMA ValueExists ==
  ASSUME NEW d, NEW n \in Nat
  PROVE  \E f : IsValue(d, n, f)
<1> DEFINE bad == {m \in Nat : ~\E f : IsValue(d, m, f)}
<1>1. SUFFICES ASSUME bad # {} PROVE FALSE
  OBVIOUS
<1>2. PICK m \in bad : \A y \in bad : m <= y
  BY <1>1, LeastExists, bad \in SUBSET Nat
<1>3. CASE m = 0
  <2>1. IsValue(d, 0, [i \in {0} |-> 0])
    <3>1. 0..0 = {0}
      OBVIOUS
    <3>. QED  BY <3>1 DEF IsValue
  <2>. QED  BY <1>2, <1>3, <2>1
<1>4. CASE m # 0
  <2>1. m - 1 \in Nat /\ m - 1 \notin bad
    BY <1>2, <1>4
  <2>2. PICK f : IsValue(d, m - 1, f)
    BY <2>1
  <2> DEFINE g == [i \in 0..m |-> IF i = m THEN f[m - 1] * 5 + d[m] ELSE f[i]]
  <2>3. \A i \in 0..m - 1 : f[i] = IF i = 0 THEN 0 ELSE f[i - 1] * 5 + d[i]
    BY <2>1, <2>2 DEF IsValue
  <2>4. \A i \in 0..m : g[i] = IF i = 0 THEN 0 ELSE g[i - 1] * 5 + d[i]
    <3>1. \A i \in 0..m - 1 : g[i] = f[i]
      BY <1>2
    <3>2. g[m] = f[m - 1] * 5 + d[m] /\ m - 1 \in 0..m - 1 /\ m \in Nat
      BY <1>2, <1>4
    <3>3. \A i \in 0..m : i = m \/ (i \in 0..m - 1 /\ (i # 0 => i - 1 \in 0..m - 1))
      BY <3>2
    <3> HIDE DEF g
    <3>. QED  BY <1>4, <2>3, <3>1, <3>2, <3>3
  <2>5. IsValue(d, m, g)
    <3>1. g = [i \in 0..m |-> g[i]]
      OBVIOUS
    <3> HIDE DEF g
    <3>. QED  BY <2>4, <3>1 DEF IsValue
  <2>. QED  BY <1>2, <2>5
<1>. QED  BY <1>3, <1>4

(* They compare as their digits do where they first differ.                *)
LEMMA ValuesCompare ==
  ASSUME NEW n \in Nat, NEW a \in [1..n -> 0..4], NEW b \in [1..n -> 0..4], NEW f, NEW g,
         IsValue(a, n, f), IsValue(b, n, g)
  PROVE  /\ f[n] \in Nat /\ g[n] \in Nat
         /\ f[n] < g[n] <=> LessWithin(a, b, n)
         /\ f[n] = g[n] <=> AgreeUpTo(a, b, n)
<1> DEFINE Good(i) == /\ f[i] \in Nat /\ g[i] \in Nat
                      /\ f[i] < g[i] <=> LessWithin(a, b, i)
                      /\ f[i] = g[i] <=> AgreeUpTo(a, b, i)
           bad == {i \in 0..n : ~Good(i)}
<1>1. /\ f[0] = 0 /\ g[0] = 0
      /\ \A i \in 1..n : f[i] = f[i - 1] * 5 + a[i] /\ g[i] = g[i - 1] * 5 + b[i]
  BY DEF IsValue
<1>2. bad = {}
  <2>1. SUFFICES ASSUME bad # {} PROVE FALSE
    OBVIOUS
  <2>2. PICK i \in bad : \A y \in bad : i <= y
    BY <2>1, LeastExists, bad \in SUBSET Nat
  <2>3. CASE i = 0
    BY <1>1, <2>2, <2>3 DEF LessWithin, AgreeUpTo
  <2>4. CASE i # 0
    <3>1. i \in 1..n /\ i - 1 \in 0..n /\ i - 1 \notin bad
      BY <2>2, <2>4
    <3>2. PICK p \in Nat, q \in Nat : p = f[i - 1] /\ q = g[i - 1]
      BY <3>1
    <3>3. /\ p < q <=> LessWithin(a, b, i - 1)
          /\ p = q <=> AgreeUpTo(a, b, i - 1)
      BY <3>1, <3>2
    <3>4. a[i] \in 0..4 /\ b[i] \in 0..4 /\ f[i] = p * 5 + a[i] /\ g[i] = q * 5 + b[i]
      BY <1>1, <3>1, <3>2
    <3>5. /\ f[i] \in Nat /\ g[i] \in Nat
          /\ f[i] < g[i] <=> p < q \/ (p = q /\ a[i] < b[i])
          /\ f[i] = g[i] <=> p = q /\ a[i] = b[i]
      <4>1. PICK x \in 0..4, y \in 0..4 : x = a[i] /\ y = b[i]
        BY <3>4
      <4>2. /\ p * 5 + x \in Nat /\ q * 5 + y \in Nat
            /\ p * 5 + x < q * 5 + y <=> p < q \/ (p = q /\ x < y)
        OBVIOUS
      <4>3. p * 5 + x = q * 5 + y <=> p = q /\ x = y
        OBVIOUS
      <4>. QED  BY <3>4, <4>1, <4>2, <4>3, Zenon
    <3>6. LessWithin(a, b, i) <=> LessWithin(a, b, i - 1) \/ (a[i] < b[i] /\ AgreeUpTo(a, b, i - 1))
      <4>1. \A k : k \in 1..i <=> k = i \/ k \in 1..i - 1
        BY <3>1
      <4>. QED  BY <4>1 DEF LessWithin
    <3>7. AgreeUpTo(a, b, i) <=> AgreeUpTo(a, b, i - 1) /\ a[i] = b[i]
      <4>1. \A k : k \in 1..i <=> k = i \/ k \in 1..i - 1
        BY <3>1
      <4>. QED  BY <4>1 DEF AgreeUpTo
    <3>. QED  BY <2>2, <3>3, <3>5, <3>6, <3>7
  <2>. QED  BY <2>3, <2>4
<1>. QED  BY <1>2

(* Twelve digits fit into the 28 bits they have.                           *)
LEMMA ValueFits ==
  ASSUME NEW n \in 0..12, NEW a \in [1..n -> 0..4], NEW f, IsValue(a, n, f)
  PROVE  f[n] \in Nat /\ f[n] < TwentyEightBits
<1> DEFINE Below(i, p) == i <= n => f[i] \in Nat /\ f[i] < p
<1>1. f[0] = 0
  BY DEF IsValue
<1>2. ASSUME NEW i \in 0..11, NEW p \in Nat, Below(i, p), NEW q \in Nat, q = 5 * p, NEW k, k = i + 1
      PROVE  Below(k, q)
  <2> SUFFICES ASSUME k <= n PROVE f[k] \in Nat /\ f[k] < q
    OBVIOUS
  <2>1. k \in 1..n /\ k - 1 = i
    BY <1>2
  <2>2. f[k] = f[i] * 5 + a[k] /\ a[k] \in 0..4
    BY <2>1 DEF IsValue
  <2>3. f[i] \in Nat /\ f[i] < p
    BY <1>2, <2>1
  <2>. QED  BY <1>2, <2>2, <2>3
<1>3. PICK K \in Nat : K = 15625 /\ 15625 * K <= TwentyEightBits /\ TwentyEightBits \in Nat
  BY SMT DEF TwentyEightBits
<1>4. Below(0, 1)
  BY <1>1
<1> HIDE DEF Below
<1>5. Below(1, 5)
  BY <1>2, <1>4
<1>6. Below(2, 25)
  BY <1>2, <1>5
<1>7. Below(3, 125)
  BY <1>2, <1>6
<1>8. Below(4, 625)
  BY <1>2, <1>7
<1>9. Below(5, 3125)
  BY <1>2, <1>8
<1>10. Below(6, 15625)
  BY <1>2, <1>9
<1>11. Below(6, K)
  BY <1>3, <1>10
<1>12. Below(7, 5 * K)
  BY <1>2, <1>3, <1>11
<1>13. Below(8, 25 * K)
  BY <1>2, <1>3, <1>12
<1>14. Below(9, 125 * K)
  BY <1>2, <1>3, <1>13
<1>15. Below(10, 625 * K)
  BY <1>2, <1>3, <1>14
<1>16. Below(11, 3125 * K)
  BY <1>2, <1>3, <1>15
<1>17. Below(12, 15625 * K)
  BY <1>2, <1>3, <1>16
<1> DEFINE Fits(i) == i <= n => f[i] \in Nat /\ f[i] < TwentyEightBits
<1>18. ASSUME NEW i, NEW p \in Nat, Below(i, p), p <= TwentyEightBits PROVE Fits(i)
  BY <1>3, <1>18 DEF Below
<1> HIDE DEF Fits
<1>19. /\ Fits(0)
        /\ Fits(1)
        /\ Fits(2)
        /\ Fits(3)
        /\ Fits(4)
        /\ Fits(5)
        /\ Fits(6)
  BY <1>3, <1>4, <1>5, <1>6, <1>7, <1>8, <1>9, <1>10, <1>18
<1>20. /\ Fits(7)
        /\ Fits(8)
        /\ Fits(9)
        /\ Fits(10)
        /\ Fits(11)
        /\ Fits(12)
  BY <1>3, <1>12, <1>13, <1>14, <1>15, <1>16, <1>17, <1>18
<1>21. \A i \in 0..12 : Fits(i)
  BY <1>19, <1>20
<1>. QED  BY <1>21 DEF Fits

-----------------------------------------------------------------------------
(* The scores of a family.                                                 *)
LEMMA LocaleScoreRange ==
  ASSUME NEW l, NEW supported
  PROVE  calcScoreFor(l, supported) \in 0..4
BY DEF calcScoreFor

LEMMA CoverageScoreRange ==
  ASSUME NEW c, NEW ch, NEW vs, NEW locales, NEW j
  PROVE  /\ calcCoverageScore(c, ch, vs, locales, j) \in {-1, 0, 1, 2, 3}
         /\ calcCoverageScore(c, ch, vs, locales, j) # 0 <=> CanDraw(c, j, ch, vs)
BY DEF calcCoverageScore, CanDraw, kUnsupportedFontScore, kFirstFontScore

LEMMA VariantScoreRange ==
  ASSUME NEW variant, NEW family
  PROVE  calcVariantMatchingScore(variant, family) \in 0..1
BY DEF calcVariantMatchingScore

(* Coverage, then locales, then variant.                                   *)
Precedes(c1, l1, v1, c2, l2, v2) ==
  c1 < c2 \/ (c1 = c2 /\ l1 < l2) \/ (c1 = c2 /\ l1 = l2 /\ v1 < v2)

LEMMA PackedCompare ==
  ASSUME NEW c1 \in 1..3, NEW c2 \in 1..3, NEW l1 \in Nat, NEW l2 \in Nat,
         l1 < TwentyEightBits, l2 < TwentyEightBits,
         NEW v1 \in 0..1, NEW v2 \in 0..1
  PROVE  /\ PackScore(c1, l1, v1) \in Nat \ {0}
         /\ PackScore(c1, l1, v1) < PackScore(c2, l2, v2) <=> Precedes(c1, l1, v1, c2, l2, v2)
<1>1. PICK K \in Nat \ {0} : K = TwentyEightBits
  BY SMT DEF TwentyEightBits
<1>2. PICK a, b : a = c1 * K + l1 /\ b = c2 * K + l2
  OBVIOUS
<1>3. c1 * K \in Nat /\ c2 * K \in Nat /\ c1 * K >= K
  BY SMT
<1>4. /\ c1 < c2 => c1 * K + K <= c2 * K
      /\ c2 < c1 => c2 * K + K <= c1 * K
      /\ c1 = c2 => c1 * K = c2 * K
  <2>1. (c1 = 1 \/ c1 = 2 \/ c1 = 3) /\ (c2 = 1 \/ c2 = 2 \/ c2 = 3)
    OBVIOUS
  <2>. QED  BY <1>1, <2>1, SMT
<1>5. /\ a \in Nat \ {0} /\ b \in Nat
      /\ a < b <=> c1 < c2 \/ (c1 = c2 /\ l1 < l2)
      /\ a = b <=> c1 = c2 /\ l1 = l2
  <2>1. PICK x \in Nat, y \in Nat : x = c1 * K /\ y = c2 * K
    BY <1>3
  <2>2. l1 < K /\ l2 < K
    BY <1>1
  <2>. QED  BY <1>2, <1>3, <1>4, <2>1, <2>2
<1>6. PackScore(c1, l1, v1) = a * 2 + v1 /\ PackScore(c2, l2, v2) = b * 2 + v2
  BY <1>1, <1>2 DEF PackScore
<1>7. /\ a * 2 + v1 \in Nat \ {0}
      /\ a * 2 + v1 < b * 2 + v2 <=> a < b \/ (a = b /\ v1 < v2)
      /\ a * 2 + v1 = b * 2 + v2 <=> a = b /\ v1 = v2
  BY <1>5
<1>. QED  BY <1>5, <1>6, <1>7 DEF Precedes

Digits(c, j, locales) == [i \in 1..Len(locales) |-> calcScoreFor(locales[i], c.mFamilies[j].mLocales)]

LEMMA LocaleScoreIsValue ==
  ASSUME NEW c, NEW j, NEW locales, Len(locales) \in 0..FONT_LOCALE_LIMIT
  PROVE  \E f : /\ IsValue(Digits(c, j, locales), Len(locales), f)
                /\ calcLocaleMatchingScore(locales, c.mFamilies[j]) = f[Len(locales)]
<1> DEFINE n == Len(locales)
           d == Digits(c, j, locales)
           family == c.mFamilies[j]
           h == CHOOSE h : h = [i \in 0..n |-> IF i = 0 THEN 0
                                             ELSE h[i - 1] * 5 + calcScoreFor(locales[i], family.mLocales)]
<1>1. n \in Nat /\ FONT_LOCALE_LIMIT \in Int /\ n <= FONT_LOCALE_LIMIT
  BY FontsAssumption
<1>2. Min({n, FONT_LOCALE_LIMIT}) = n
  BY <1>1, LesserOfTwo
<1>3. PICK f : IsValue(d, n, f)
  BY <1>1, ValueExists
<1>4. \A i \in 1..n : d[i] = calcScoreFor(locales[i], family.mLocales)
  BY DEF Digits
<1>5. \A e : IsValue(d, n, e) <=> e = [i \in 0..n |-> IF i = 0 THEN 0
                                        ELSE e[i - 1] * 5 + calcScoreFor(locales[i], family.mLocales)]
  <2> SUFFICES ASSUME NEW e
               PROVE  [i \in 0..n |-> IF i = 0 THEN 0 ELSE e[i - 1] * 5 + d[i]]
                      = [i \in 0..n |-> IF i = 0 THEN 0
                                        ELSE e[i - 1] * 5 + calcScoreFor(locales[i], family.mLocales)]
    BY DEF IsValue
  <2>1. \A i \in 0..n : i = 0 \/ i \in 1..n
    BY <1>1
  <2> HIDE DEF d, n, family
  <2>. QED  BY <1>4, <2>1
<1>6. IsValue(d, n, h)
  <2> HIDE DEF d, n, family
  <2>. QED  BY <1>3, <1>5, Zenon
<1>7. calcLocaleMatchingScore(locales, family) = h[n]
  BY <1>2 DEF calcLocaleMatchingScore
<1>. QED  BY <1>6, <1>7

(* What a family is compared by: its coverage, what it is worth to every   *)
(* locale, its variant.                                                    *)
MeritsAre(m, cov, d, v, n) ==
  /\ DOMAIN m = 1..n + 2
  /\ m[1] = cov /\ m[n + 2] = v
  /\ \A i \in 1..n : m[i + 1] = d[i]

LEMMA MeritsInOrder ==
  ASSUME NEW c, NEW ch, NEW vs, NEW variant, NEW locales, NEW j,
         NEW n \in Nat, n = Len(locales), DOMAIN locales = 1..n
  PROVE  MeritsAre(Merits(c, ch, vs, variant, locales, j),
                   calcCoverageScore(c, ch, vs, locales, j), Digits(c, j, locales),
                   calcVariantMatchingScore(variant, c.mFamilies[j]), n)
<1> DEFINE d == Digits(c, j, locales)
<1>1. PICK cov, v : /\ cov = calcCoverageScore(c, ch, vs, locales, j)
                    /\ v = calcVariantMatchingScore(variant, c.mFamilies[j])
  OBVIOUS
<1>2. d = [i \in DOMAIN locales |-> calcScoreFor(locales[i], c.mFamilies[j].mLocales)]
  BY DEF Digits
<1>3. cov \in Int /\ v \in Int /\ d \in Seq(Int) /\ Len(d) = n
  <2>1. cov \in Int
    BY <1>1, CoverageScoreRange
  <2>2. v \in Int
    BY <1>1, VariantScoreRange
  <2>3. \A i \in 1..n : d[i] \in Int
    BY LocaleScoreRange DEF Digits
  <2>4. d = [i \in 1..n |-> d[i]]
    BY DEF Digits
  <2> HIDE DEF d
  <2>5. d \in [1..n -> Int]
    BY <2>3, <2>4
  <2>. QED  BY <2>1, <2>2, <2>5
<1> HIDE DEF d
<1>4. Merits(c, ch, vs, variant, locales, j) = <<cov>> \o d \o <<v>>
  BY <1>1, <1>2 DEF Merits
<1>5. <<cov>> \o d \in Seq(Int) /\ Len(<<cov>> \o d) = n + 1
      /\ (<<cov>> \o d)[1] = cov /\ \A i \in 1..n : (<<cov>> \o d)[i + 1] = d[i]
  BY <1>3
<1>6. PICK e : e = <<cov>> \o d
  OBVIOUS
<1>7. e \in Seq(Int) /\ Len(e) = n + 1 /\ e[1] = cov /\ \A i \in 1..n : e[i + 1] = d[i]
  BY <1>5, <1>6
<1>8. /\ Len(e \o <<v>>) = n + 2 /\ DOMAIN (e \o <<v>>) = 1..n + 2
      /\ (e \o <<v>>)[n + 2] = v /\ \A i \in 1..n + 1 : (e \o <<v>>)[i] = e[i]
  BY <1>3, <1>7
<1>9. MeritsAre(e \o <<v>>, cov, d, v, n)
  <2>1. \A i \in 1..n : i + 1 \in 1..n + 1
    OBVIOUS
  <2>. QED  BY <1>7, <1>8, <2>1 DEF MeritsAre
<1>. QED  BY <1>1, <1>4, <1>6, <1>9 DEF d

LEMMA MeritsCompare ==
  ASSUME NEW n \in Nat, NEW m1, NEW m2, NEW c1 \in Int, NEW c2 \in Int, NEW d1, NEW d2,
         NEW v1 \in Int, NEW v2 \in Int,
         MeritsAre(m1, c1, d1, v1, n), MeritsAre(m2, c2, d2, v2, n)
  PROVE  /\ LessAt(m1, m2) => \/ c1 < c2
                              \/ c1 = c2 /\ LessWithin(d1, d2, n)
                              \/ c1 = c2 /\ AgreeUpTo(d1, d2, n) /\ v1 < v2
         /\ m1 = m2 => c1 = c2 /\ AgreeUpTo(d1, d2, n) /\ v1 = v2
<1>1. /\ DOMAIN m1 = 1..n + 2 /\ m1[1] = c1 /\ m1[n + 2] = v1 /\ \A i \in 1..n : m1[i + 1] = d1[i]
      /\ m2[1] = c2 /\ m2[n + 2] = v2 /\ \A i \in 1..n : m2[i + 1] = d2[i]
  BY DEF MeritsAre
<1>2. ASSUME LessAt(m1, m2)
      PROVE  \/ c1 < c2
             \/ c1 = c2 /\ LessWithin(d1, d2, n)
             \/ c1 = c2 /\ AgreeUpTo(d1, d2, n) /\ v1 < v2
  <2>1. PICK k \in 1..n + 2 : m1[k] < m2[k] /\ \A i \in 1..k - 1 : m1[i] = m2[i]
    BY <1>1, <1>2 DEF LessAt
  <2>2. CASE k = 1
    BY <1>1, <2>1, <2>2
  <2>3. CASE k # 1
    <3>1. c1 = c2
      BY <1>1, <2>1, <2>3
    <3>2. \A i \in 1..n : i + 1 < k => d1[i] = d2[i]
      <4> SUFFICES ASSUME NEW i \in 1..n, i + 1 < k PROVE d1[i] = d2[i]
        OBVIOUS
      <4>1. i + 1 \in 1..k - 1
        OBVIOUS
      <4>. QED  BY <1>1, <2>1, <4>1
    <3>3. CASE k = n + 2
      <4>1. AgreeUpTo(d1, d2, n)
        BY <3>2, <3>3 DEF AgreeUpTo
      <4>. QED  BY <1>1, <2>1, <3>1, <3>3, <4>1
    <3>4. CASE k # n + 2
      <4>1. PICK l \in 1..n : l = k - 1
        BY <2>3, <3>4
      <4>2. m1[k] = d1[l] /\ m2[k] = d2[l]
        <5>1. k = l + 1
          BY <4>1
        <5>. QED  BY <1>1, <5>1
      <4>3. \A i \in 1..l - 1 : i \in 1..n /\ i + 1 < k
        BY <4>1
      <4>. QED  BY <2>1, <3>1, <3>2, <4>1, <4>2, <4>3 DEF LessWithin, AgreeUpTo
    <3>. QED  BY <3>3, <3>4
  <2>. QED  BY <2>2, <2>3
<1>3. ASSUME m1 = m2 PROVE c1 = c2 /\ AgreeUpTo(d1, d2, n) /\ v1 = v2
  BY <1>1, <1>3 DEF AgreeUpTo
<1>. QED  BY <1>2, <1>3

(* A family with less merit never has the better score, and families with  *)
(* the same merits have the same score.                                    *)
LEMMA ScoresCompare ==
  ASSUME NEW c, NEW ch, NEW vs, NEW variant, NEW locales, NEW j1, NEW j2,
         Len(locales) \in 0..FONT_LOCALE_LIMIT, DOMAIN locales = 1..Len(locales),
         calcCoverageScore(c, ch, vs, locales, j1) \in 1..3,
         calcCoverageScore(c, ch, vs, locales, j2) \in 1..3
  PROVE  LET s1 == calcFamilyScore(c, ch, vs, variant, locales, j1)
             s2 == calcFamilyScore(c, ch, vs, variant, locales, j2)
             m1 == Merits(c, ch, vs, variant, locales, j1)
             m2 == Merits(c, ch, vs, variant, locales, j2)
         IN /\ s1 \in Nat \ {0} /\ s2 \in Nat \ {0}
            /\ LessAt(m1, m2) => s1 < s2
            /\ m1 = m2 => s1 = s2
<1>1. PICK n \in 0..12 : n = Len(locales) /\ DOMAIN locales = 1..n
  <2>1. PICK limit \in 0..12 : limit = FONT_LOCALE_LIMIT
    BY FontsAssumption
  <2>2. PICK n : n = Len(locales)
    OBVIOUS
  <2>3. n \in 0..limit /\ DOMAIN locales = 1..n
    BY <2>1, <2>2
  <2>4. n \in 0..12
    BY <2>3
  <2>. QED  BY <2>2, <2>3, <2>4
<1>2. PICK c1 \in 1..3, c2 \in 1..3 : /\ c1 = calcCoverageScore(c, ch, vs, locales, j1)
                                     /\ c2 = calcCoverageScore(c, ch, vs, locales, j2)
  OBVIOUS
<1>3. PICK v1 \in 0..1, v2 \in 0..1 : /\ v1 = calcVariantMatchingScore(variant, c.mFamilies[j1])
                                     /\ v2 = calcVariantMatchingScore(variant, c.mFamilies[j2])
  BY VariantScoreRange
<1>4. PICK d1, d2 : d1 = Digits(c, j1, locales) /\ d2 = Digits(c, j2, locales)
  OBVIOUS
<1>5. d1 \in [1..n -> 0..4] /\ d2 \in [1..n -> 0..4]
  BY <1>1, <1>4, LocaleScoreRange DEF Digits
<1>6. PICK f : IsValue(d1, n, f) /\ calcLocaleMatchingScore(locales, c.mFamilies[j1]) = f[n]
  BY <1>1, <1>4, LocaleScoreIsValue
<1>7. PICK g : IsValue(d2, n, g) /\ calcLocaleMatchingScore(locales, c.mFamilies[j2]) = g[n]
  BY <1>1, <1>4, LocaleScoreIsValue
<1>8. PICK l1 \in Nat, l2 \in Nat : /\ l1 = f[n] /\ l2 = g[n]
                                   /\ l1 < TwentyEightBits /\ l2 < TwentyEightBits
  BY <1>5, <1>6, <1>7, ValueFits
<1>9. /\ l1 < l2 <=> LessWithin(d1, d2, n)
      /\ l1 = l2 <=> AgreeUpTo(d1, d2, n)
  <2>1. n \in Nat
    OBVIOUS
  <2>. QED  BY <1>5, <1>6, <1>7, <1>8, <2>1, ValuesCompare
<1>10. /\ calcFamilyScore(c, ch, vs, variant, locales, j1) = PackScore(c1, l1, v1)
       /\ calcFamilyScore(c, ch, vs, variant, locales, j2) = PackScore(c2, l2, v2)
  <2>1. c1 \notin {kUnsupportedFontScore, kFirstFontScore} /\ c2 \notin {kUnsupportedFontScore, kFirstFontScore}
    BY DEF kUnsupportedFontScore, kFirstFontScore
  <2>. QED  BY <1>2, <1>3, <1>6, <1>7, <1>8, <2>1 DEF calcFamilyScore
<1>11. PICK m1, m2 : /\ m1 = Merits(c, ch, vs, variant, locales, j1)
                     /\ m2 = Merits(c, ch, vs, variant, locales, j2)
  OBVIOUS
<1>12. MeritsAre(m1, c1, d1, v1, n) /\ MeritsAre(m2, c2, d2, v2, n)
  <2>1. n \in Nat
    OBVIOUS
  <2>. QED  BY <1>1, <1>2, <1>3, <1>4, <1>11, <2>1, MeritsInOrder
<1>13. /\ LessAt(m1, m2) => \/ c1 < c2
                            \/ c1 = c2 /\ l1 < l2
                            \/ c1 = c2 /\ l1 = l2 /\ v1 < v2
       /\ m1 = m2 => c1 = c2 /\ l1 = l2 /\ v1 = v2
  <2>1. n \in Nat /\ c1 \in Int /\ c2 \in Int /\ v1 \in Int /\ v2 \in Int
    OBVIOUS
  <2>2. /\ LessAt(m1, m2) => \/ c1 < c2
                             \/ c1 = c2 /\ LessWithin(d1, d2, n)
                             \/ c1 = c2 /\ AgreeUpTo(d1, d2, n) /\ v1 < v2
        /\ m1 = m2 => c1 = c2 /\ AgreeUpTo(d1, d2, n) /\ v1 = v2
    BY <1>12, <2>1, MeritsCompare
  <2>. QED  BY <1>9, <2>2
<1>14. PICK s1, s2 : s1 = PackScore(c1, l1, v1) /\ s2 = PackScore(c2, l2, v2)
  OBVIOUS
<1>15. l1 < TwentyEightBits /\ l2 < TwentyEightBits
  BY <1>8
<1>16. s1 \in Nat \ {0} /\ s2 \in Nat \ {0}
  BY <1>14, <1>15, PackedCompare
<1>17. s1 < s2 <=> Precedes(c1, l1, v1, c2, l2, v2)
  BY <1>14, <1>15, PackedCompare
<1>18. c1 = c2 /\ l1 = l2 /\ v1 = v2 => s1 = s2
  BY <1>14
<1>. QED  BY <1>10, <1>11, <1>13, <1>14, <1>16, <1>17, <1>18 DEF Precedes

-----------------------------------------------------------------------------
(* The best of a list by its scores: the first that ends the search, or    *)
(* else the first of the highest.                                          *)
NoneYet == [family |-> 0, score |-> kUnsupportedFontScore, first |-> FALSE]
IsBest(js, sc, n, f) ==
  f = [k \in 0..n |-> IF k = 0 THEN NoneYet ELSE Better(f[k - 1], js[k], sc[k])]

LEMMA BestExists ==
  ASSUME NEW js, NEW sc, NEW n \in Nat
  PROVE  \E f : IsBest(js, sc, n, f)
<1> DEFINE bad == {m \in Nat : ~\E f : IsBest(js, sc, m, f)}
<1>1. SUFFICES ASSUME bad # {} PROVE FALSE
  OBVIOUS
<1>2. PICK m \in bad : \A y \in bad : m <= y
  BY <1>1, LeastExists, bad \in SUBSET Nat
<1>3. CASE m = 0
  <2>1. IsBest(js, sc, 0, [i \in {0} |-> NoneYet])
    <3>1. 0..0 = {0}
      OBVIOUS
    <3>. QED  BY <3>1 DEF IsBest
  <2>. QED  BY <1>2, <1>3, <2>1
<1>4. CASE m # 0
  <2>1. m - 1 \in Nat /\ m - 1 \notin bad
    BY <1>2, <1>4
  <2>2. PICK f : IsBest(js, sc, m - 1, f)
    BY <2>1
  <2> DEFINE g == [k \in 0..m |-> IF k = m THEN Better(f[m - 1], js[m], sc[m]) ELSE f[k]]
  <2>3. \A k \in 0..m - 1 : f[k] = IF k = 0 THEN NoneYet ELSE Better(f[k - 1], js[k], sc[k])
    BY <2>1, <2>2 DEF IsBest
  <2>4. \A k \in 0..m : g[k] = IF k = 0 THEN NoneYet ELSE Better(g[k - 1], js[k], sc[k])
    <3>1. \A k \in 0..m - 1 : g[k] = f[k]
      BY <1>2
    <3>2. g[m] = Better(f[m - 1], js[m], sc[m]) /\ m - 1 \in 0..m - 1 /\ m \in Nat
      BY <1>2, <1>4
    <3>3. \A k \in 0..m : k = m \/ (k \in 0..m - 1 /\ (k # 0 => k - 1 \in 0..m - 1))
      BY <3>2
    <3> HIDE DEF g
    <3>. QED  BY <1>4, <2>3, <3>1, <3>2, <3>3
  <2>5. IsBest(js, sc, m, g)
    <3>1. g = [k \in 0..m |-> g[k]]
      OBVIOUS
    <3> HIDE DEF g
    <3>. QED  BY <2>4, <3>1 DEF IsBest
  <2>. QED  BY <1>2, <2>5
<1>. QED  BY <1>3, <1>4

(* What has been found among the first k.                                  *)
FoundSure(js, sc, b, k) ==
  \E m \in 1..k : b.family = js[m] /\ sc[m] = -1 /\ \A i \in 1..m - 1 : sc[i] # -1
FoundBest(js, sc, b, k) ==
  /\ \A i \in 1..k : sc[i] # -1 /\ sc[i] <= b.score
  /\ \/ b.family = 0 /\ b.score = 0
     \/ \E m \in 1..k : /\ b.family = js[m] /\ sc[m] = b.score /\ b.score > 0
                       /\ \A i \in 1..m - 1 : sc[i] < b.score

LEMMA BestIsFound ==
  ASSUME NEW n \in Nat, NEW js, NEW sc \in [1..n -> Nat \cup {-1}], NEW f, IsBest(js, sc, n, f)
  PROVE  IF f[n].first THEN FoundSure(js, sc, f[n], n) ELSE f[n].score \in Nat /\ FoundBest(js, sc, f[n], n)
<1> DEFINE Good(k) == /\ f[k].first \in BOOLEAN
                      /\ IF f[k].first THEN FoundSure(js, sc, f[k], k)
                         ELSE f[k].score \in Nat /\ FoundBest(js, sc, f[k], k)
           bad == {k \in 0..n : ~Good(k)}
<1>1. /\ f[0] = NoneYet
      /\ \A k \in 1..n : f[k] = Better(f[k - 1], js[k], sc[k])
  BY DEF IsBest
<1>2. bad = {}
  <2>1. SUFFICES ASSUME bad # {} PROVE FALSE
    OBVIOUS
  <2>2. PICK k \in bad : \A y \in bad : k <= y
    BY <2>1, LeastExists, bad \in SUBSET Nat
  <2>3. CASE k = 0
    <3>1. NoneYet.family = 0 /\ NoneYet.score = 0 /\ NoneYet.first = FALSE
      BY DEF NoneYet, kUnsupportedFontScore
    <3>2. FoundBest(js, sc, NoneYet, 0)
      BY <3>1 DEF FoundBest
    <3>3. f[0].first = FALSE /\ f[0].score = 0 /\ FoundBest(js, sc, f[0], 0)
      BY <1>1, <3>1, <3>2
    <3>4. f[0].first \in BOOLEAN /\ ~f[0].first
      BY <3>3, Zenon
    <3>5. f[0].score \in Nat
      BY <3>3
    <3>. QED  BY <2>2, <2>3, <3>3, <3>4, <3>5, Zenon
  <2>4. CASE k # 0
    <3>1. k \in 1..n /\ k - 1 \in 0..n /\ k - 1 \notin bad /\ k \in Nat
      BY <2>2, <2>4
    <3>2. PICK b, c, j, s : b = f[k - 1] /\ c = f[k] /\ j = js[k] /\ s = sc[k]
      OBVIOUS
    <3>3. /\ b.first \in BOOLEAN
          /\ b.first => FoundSure(js, sc, b, k - 1)
          /\ ~b.first => b.score \in Nat /\ FoundBest(js, sc, b, k - 1)
      BY <3>1, <3>2
    <3>4. c = Better(b, j, s) /\ s \in Nat \cup {-1}
      BY <1>1, <3>1, <3>2
    <3>5. \A i : i \in 1..k <=> i = k \/ i \in 1..k - 1
      BY <3>1
    <3>6. CASE b.first
      <4>1. c = b
        BY <3>4, <3>6 DEF Better
      <4>2. FoundSure(js, sc, c, k)
        BY <3>3, <3>5, <3>6, <4>1 DEF FoundSure
      <4>. QED  BY <2>2, <3>2, <3>3, <3>6, <4>1, <4>2
    <3>7. CASE ~b.first /\ s = -1
      <4>1. c.family = j /\ c.first = TRUE
        BY <3>4, <3>7 DEF Better, kFirstFontScore
      <4>2. \A i \in 1..k - 1 : sc[i] # -1
        BY <3>3, <3>7 DEF FoundBest
      <4>3. FoundSure(js, sc, c, k)
        <5>1. k \in 1..k /\ c.family = js[k] /\ sc[k] = -1
          BY <3>1, <3>2, <3>7, <4>1
        <5>. QED  BY <4>2, <5>1 DEF FoundSure
      <4>. QED  BY <2>2, <3>2, <4>1, <4>3
    <3>8. CASE ~b.first /\ s # -1 /\ s > b.score
      <4>1. c.family = j /\ c.first = FALSE /\ c.score = s
        BY <3>4, <3>8 DEF Better, kFirstFontScore
      <4>2. \A i \in 1..k - 1 : sc[i] # -1 /\ sc[i] <= b.score /\ sc[i] \in Int
        BY <3>1, <3>3, <3>8 DEF FoundBest
      <4>3. b.score \in Nat /\ s \in Nat
        BY <3>3, <3>4, <3>8
      <4>4. FoundBest(js, sc, c, k)
        <5>1. \A i \in 1..k - 1 : sc[i] < s
          BY <3>8, <4>2, <4>3
        <5>2. \A i \in 1..k : sc[i] # -1 /\ sc[i] <= s
          BY <3>2, <3>5, <3>8, <4>2, <4>3, <5>1
        <5>3. k \in 1..k /\ s > 0
          BY <3>1, <3>8, <4>3
        <5>. QED  BY <3>2, <4>1, <5>1, <5>2, <5>3 DEF FoundBest
      <4>. QED  BY <2>2, <3>2, <4>1, <4>3, <4>4
    <3>9. CASE ~b.first /\ s # -1 /\ ~(s > b.score)
      <4>1. c = b
        BY <3>4, <3>9 DEF Better, kFirstFontScore
      <4>2. b.score \in Nat /\ s \in Nat /\ s <= b.score
        BY <3>3, <3>4, <3>9
      <4>3. FoundBest(js, sc, c, k)
        BY <3>2, <3>3, <3>5, <3>9, <4>1, <4>2 DEF FoundBest
      <4>. QED  BY <2>2, <3>2, <3>3, <3>9, <4>1, <4>2, <4>3
    <3>. QED  BY <3>6, <3>7, <3>8, <3>9
  <2>. QED  BY <2>3, <2>4
<1>. QED  BY <1>2

LEMMA FamilyScoreCases ==
  ASSUME NEW c, NEW ch, NEW vs, NEW variant, NEW locales, NEW j,
         Len(locales) \in 0..FONT_LOCALE_LIMIT, DOMAIN locales = 1..Len(locales)
  PROVE  LET cov == calcCoverageScore(c, ch, vs, locales, j)
             score == calcFamilyScore(c, ch, vs, variant, locales, j)
         IN /\ cov = 0 => score = 0
            /\ cov = -1 => score = -1
            /\ cov # 0 /\ cov # -1 => cov \in 1..3 /\ score \in Nat \ {0}
<1>1. PICK cov \in {-1, 0, 1, 2, 3} : cov = calcCoverageScore(c, ch, vs, locales, j)
  BY CoverageScoreRange
<1>2. CASE cov = 0 \/ cov = -1
  BY <1>1, <1>2 DEF calcFamilyScore, kUnsupportedFontScore, kFirstFontScore
<1>3. CASE cov \in 1..3
  <2>1. calcFamilyScore(c, ch, vs, variant, locales, j) \in Nat \ {0}
    BY <1>1, <1>3, ScoresCompare
  <2>. QED  BY <1>1, <1>3, <2>1
<1>. QED  BY <1>2, <1>3

(* The families of A are those of the list js that can draw the character. *)
Able(c, ch, vs, js, A) ==
  \A j : j \in A <=> CanDraw(c, j, ch, vs) /\ \E k \in DOMAIN js : js[k] = j

Ascending(js) ==
  /\ js \in Seq(Nat \ {0})
  /\ \A k, l \in DOMAIN js : k < l => js[k] < js[l]

LEMMA BestIsChosenWell ==
  ASSUME NEW c, NEW ch, NEW vs, NEW variant, NEW locales, NEW js, NEW A,
         Len(locales) \in 0..FONT_LOCALE_LIMIT, DOMAIN locales = 1..Len(locales),
         Candidates(c, ch, vs) = js, Ascending(js), Able(c, ch, vs, js, A), A # {}
  PROVE  LET chosen == BestCandidate(c, ch, vs, locales, variant)
         IN /\ chosen \in A
            /\ ChosenWell(chosen, A, {j \in A : calcCoverageScore(c, ch, vs, locales, j) = kFirstFontScore},
                          [j \in A |-> Merits(c, ch, vs, variant, locales, j)])
<1> DEFINE Cov(j) == calcCoverageScore(c, ch, vs, locales, j)
           Score(j) == calcFamilyScore(c, ch, vs, variant, locales, j)
           merits == [j \in A |-> Merits(c, ch, vs, variant, locales, j)]
           sure == {j \in A : Cov(j) = kFirstFontScore}
           chosen == BestCandidate(c, ch, vs, locales, variant)
<1>1. PICK n \in Nat : n = Len(js) /\ DOMAIN js = 1..n
  BY DEF Ascending
<1> DEFINE sc == [k \in 1..n |-> Score(js[k])]
           h == CHOOSE h : h = [k \in 0..n |-> IF k = 0 THEN NoneYet ELSE Better(h[k - 1], js[k], Score(js[k]))]
<1>2. \A j : /\ Cov(j) = 0 => Score(j) = 0
             /\ Cov(j) = -1 => Score(j) = -1
             /\ Cov(j) # 0 /\ Cov(j) # -1 => Cov(j) \in 1..3 /\ Score(j) \in Nat \ {0}
             /\ Cov(j) # 0 <=> CanDraw(c, j, ch, vs)
  <2> SUFFICES ASSUME NEW j
               PROVE  /\ Cov(j) = 0 => Score(j) = 0
                      /\ Cov(j) = -1 => Score(j) = -1
                      /\ Cov(j) # 0 /\ Cov(j) # -1 => Cov(j) \in 1..3 /\ Score(j) \in Nat \ {0}
                      /\ Cov(j) # 0 <=> CanDraw(c, j, ch, vs)
    OBVIOUS
  <2>1. Cov(j) # 0 <=> CanDraw(c, j, ch, vs)
    BY CoverageScoreRange, Zenon
  <2>. QED  BY <2>1, FamilyScoreCases
<1>3. sc \in [1..n -> Nat \cup {-1}]
  <2>1. \A j : Score(j) \in Nat \cup {-1}
    BY <1>2
  <2> HIDE DEF Score
  <2>. QED  BY <2>1
<1>4. PICK f : IsBest(js, sc, n, f) /\ chosen = f[n].family
  <2>1. \E e : IsBest(js, sc, n, e)
    BY BestExists
  <2>2. \A e : IsBest(js, sc, n, e)
                <=> e = [k \in 0..n |-> IF k = 0 THEN NoneYet ELSE Better(e[k - 1], js[k], Score(js[k]))]
    <3> SUFFICES ASSUME NEW e
                 PROVE  [k \in 0..n |-> IF k = 0 THEN NoneYet ELSE Better(e[k - 1], js[k], sc[k])]
                        = [k \in 0..n |-> IF k = 0 THEN NoneYet ELSE Better(e[k - 1], js[k], Score(js[k]))]
      BY DEF IsBest
    <3>1. \A k \in 0..n : k = 0 \/ k \in 1..n
      OBVIOUS
    <3>2. \A k \in 1..n : sc[k] = Score(js[k])
      OBVIOUS
    <3> HIDE DEF sc, Score
    <3>. QED  BY <3>1, <3>2
  <2>3. IsBest(js, sc, n, h)
    <3> HIDE DEF sc, Score
    <3>. QED  BY <2>1, <2>2, Zenon
  <2>4. chosen = h[n].family
    BY <1>1 DEF BestCandidate, NoneYet
  <2>. QED  BY <2>3, <2>4
<1>5. PICK b : b = f[n]
  OBVIOUS
<1>6. /\ b.first => FoundSure(js, sc, b, n)
      /\ ~b.first => b.score \in Nat /\ FoundBest(js, sc, b, n)
      /\ chosen = b.family
  BY <1>3, <1>4, <1>5, BestIsFound
<1>7. \A k \in 1..n : /\ sc[k] = Score(js[k])
                      /\ sc[k] = -1 <=> Cov(js[k]) = -1
                      /\ sc[k] = 0 <=> Cov(js[k]) = 0
                      /\ js[k] \in A <=> sc[k] # 0
  <2> SUFFICES ASSUME NEW k \in 1..n
               PROVE  /\ sc[k] = Score(js[k])
                      /\ sc[k] = -1 <=> Cov(js[k]) = -1
                      /\ sc[k] = 0 <=> Cov(js[k]) = 0
                      /\ js[k] \in A <=> sc[k] # 0
    OBVIOUS
  <2>1. sc[k] = Score(js[k])
    OBVIOUS
  <2>2. js[k] \in A <=> CanDraw(c, js[k], ch, vs)
    BY <1>1 DEF Able
  <2> HIDE DEF sc, Score, Cov
  <2>. QED  BY <1>2, <2>1, <2>2
<1>8. \A j \in A : \E k \in 1..n : js[k] = j
  BY <1>1 DEF Able
<1>9. \A k, l \in 1..n : js[k] \in Nat /\ (k < l => js[k] < js[l])
  BY <1>1 DEF Ascending
<1>10. \A j \in A : j \in Nat
  BY <1>8, <1>9
<1>11. \A j \in A : merits[j] = Merits(c, ch, vs, variant, locales, j)
  OBVIOUS
<1>12. sure = {j \in A : Cov(j) = -1}
  BY DEF kFirstFontScore
<1>13. \A j1, j2 \in A : Cov(j1) \in 1..3 /\ Cov(j2) \in 1..3 =>
         /\ LessAt(merits[j1], merits[j2]) => Score(j1) < Score(j2)
         /\ merits[j1] = merits[j2] => Score(j1) = Score(j2)
  <2> SUFFICES ASSUME NEW j1 \in A, NEW j2 \in A, Cov(j1) \in 1..3, Cov(j2) \in 1..3
               PROVE  /\ LessAt(merits[j1], merits[j2]) => Score(j1) < Score(j2)
                      /\ merits[j1] = merits[j2] => Score(j1) = Score(j2)
    OBVIOUS
  <2>1. PICK m1, m2 : /\ m1 = Merits(c, ch, vs, variant, locales, j1) /\ m1 = merits[j1]
                      /\ m2 = Merits(c, ch, vs, variant, locales, j2) /\ m2 = merits[j2]
    BY <1>11
  <2>2. /\ LessAt(m1, m2) => Score(j1) < Score(j2)
        /\ m1 = m2 => Score(j1) = Score(j2)
    BY <2>1, ScoresCompare
  <2>. QED  BY <2>1, <2>2
<1> HIDE DEF sc, Score, Cov, merits, chosen, sure
<1>14. CASE b.first
  <2>1. PICK m \in 1..n : b.family = js[m] /\ sc[m] = -1 /\ \A i \in 1..m - 1 : sc[i] # -1
    BY <1>6, <1>14 DEF FoundSure
  <2>2. chosen \in sure
    BY <1>6, <1>7, <1>12, <2>1
  <2>3. ASSUME NEW j \in sure PROVE chosen <= j
    <3>1. PICK k \in 1..n : js[k] = j
      BY <1>8, <1>12
    <3>2. sc[k] = -1
      BY <1>7, <1>12, <3>1
    <3>3. ~(k < m)
      BY <2>1, <3>2
    <3>. QED  BY <1>6, <1>9, <2>1, <3>1, <3>3
  <2>4. chosen = Min(sure)
    <3>1. \A x \in sure : (\A y \in sure : x <= y) => x = chosen
      BY <1>10, <1>12, <2>2, <2>3
    <3>. QED  BY <2>2, <2>3, <3>1 DEF Min
  <2>5. ChosenWell(chosen, A, sure, merits)
    BY <2>2, <2>4 DEF ChosenWell
  <2>. QED  BY <1>12, <2>2, <2>5 DEF chosen, sure, merits, Cov
<1>15. CASE ~b.first
  <2>1. /\ b.score \in Nat
        /\ \A i \in 1..n : sc[i] # -1 /\ sc[i] <= b.score
        /\ \/ b.family = 0 /\ b.score = 0
           \/ \E m \in 1..n : /\ b.family = js[m] /\ sc[m] = b.score /\ b.score > 0
                             /\ \A i \in 1..m - 1 : sc[i] < b.score
    BY <1>6, <1>15 DEF FoundBest
  <2>2. \A j \in A : Cov(j) \in 1..3
    <3> SUFFICES ASSUME NEW j \in A PROVE Cov(j) \in 1..3
      OBVIOUS
    <3>1. PICK k \in 1..n : js[k] = j
      BY <1>8
    <3>2. Cov(j) # -1 /\ Cov(j) # 0
      BY <1>7, <2>1, <3>1
    <3>. QED  BY <1>2, <3>2
  <2>3. sure = {}
    BY <1>12, <2>2
  <2>4. b.score > 0
    <3>1. PICK j \in A : TRUE
      OBVIOUS
    <3>2. PICK k \in 1..n : js[k] = j
      BY <1>8
    <3>3. sc[k] \in Nat \cup {-1} /\ sc[k] # 0 /\ sc[k] # -1 /\ sc[k] <= b.score
      BY <1>3, <1>7, <2>1, <3>2
    <3>. QED  BY <2>1, <3>3
  <2>5. PICK m \in 1..n : /\ b.family = js[m] /\ sc[m] = b.score
                         /\ \A i \in 1..m - 1 : sc[i] < b.score
    BY <2>1, <2>4
  <2>6. chosen \in A /\ chosen = js[m] /\ Score(chosen) = b.score
    BY <1>6, <1>7, <2>1, <2>4, <2>5
  <2>7. ASSUME NEW j \in A
        PROVE  /\ ~LessAt(merits[chosen], merits[j])
               /\ j < chosen => merits[j] # merits[chosen]
    <3>1. PICK k \in 1..n : js[k] = j
      BY <1>8
    <3>2. PICK x \in Nat : x = Score(j) /\ x <= b.score
      BY <1>3, <1>7, <2>1, <3>1
    <3>3. ~LessAt(merits[chosen], merits[j])
      <4>1. LessAt(merits[chosen], merits[j]) => b.score < x
        BY <1>13, <2>2, <2>6, <3>2
      <4>. QED  BY <2>1, <3>2, <4>1
    <3>4. ASSUME j < chosen PROVE merits[j] # merits[chosen]
      <4>1. k < m
        <5>1. ~(js[m] <= js[k])
          BY <1>9, <2>6, <3>1, <3>4
        <5>2. k = m \/ m < k \/ k < m
          OBVIOUS
        <5>. QED  BY <1>9, <5>1, <5>2
      <4>2. x < b.score
        BY <1>7, <2>5, <3>1, <3>2, <4>1
      <4>3. merits[j] = merits[chosen] => x = b.score
        BY <1>13, <2>2, <2>6, <3>2
      <4>. QED  BY <2>1, <4>2, <4>3
    <3>. QED  BY <3>3, <3>4
  <2>8. ChosenWell(chosen, A, sure, merits)
    BY <2>3, <2>6, <2>7 DEF ChosenWell
  <2>. QED  BY <2>6, <2>8 DEF chosen, sure, merits, Cov
<1>. QED  BY <1>14, <1>15

-----------------------------------------------------------------------------
(* The search stays with the first family it finds.                        *)
IsSearched(c, ch, vs, locales, variant, n, s) ==
  s = [k \in 0..n |-> IF k = 0 THEN [ch |-> ch, family |-> Search(c, ch, vs, locales, variant)]
                      ELSE SearchAgain(c, s[k - 1], vs, locales, variant)]

LEMMA SearchedExists ==
  ASSUME NEW c, NEW ch, NEW vs, NEW locales, NEW variant, NEW n \in Nat
  PROVE  \E s : IsSearched(c, ch, vs, locales, variant, n, s)
<1> DEFINE bad == {m \in Nat : ~\E s : IsSearched(c, ch, vs, locales, variant, m, s)}
           first == [ch |-> ch, family |-> Search(c, ch, vs, locales, variant)]
           Again(t) == SearchAgain(c, t, vs, locales, variant)
<1>1. SUFFICES ASSUME bad # {} PROVE FALSE
  OBVIOUS
<1>2. PICK m \in bad : \A y \in bad : m <= y
  BY <1>1, LeastExists, bad \in SUBSET Nat
<1>3. CASE m = 0
  <2>1. IsSearched(c, ch, vs, locales, variant, 0, [i \in {0} |-> first])
    <3>1. 0..0 = {0}
      OBVIOUS
    <3>. QED  BY <3>1 DEF IsSearched
  <2>. QED  BY <1>2, <1>3, <2>1
<1>4. CASE m # 0
  <2>1. m - 1 \in Nat /\ m - 1 \notin bad
    BY <1>2, <1>4
  <2>2. PICK f : IsSearched(c, ch, vs, locales, variant, m - 1, f)
    BY <2>1
  <2> DEFINE g == [k \in 0..m |-> IF k = m THEN Again(f[m - 1]) ELSE f[k]]
  <2>3. \A k \in 0..m - 1 : f[k] = IF k = 0 THEN first ELSE Again(f[k - 1])
    BY <2>1, <2>2 DEF IsSearched
  <2> HIDE DEF first, Again
  <2>4. \A k \in 0..m : g[k] = IF k = 0 THEN first ELSE Again(g[k - 1])
    <3>1. \A k \in 0..m - 1 : g[k] = f[k]
      BY <1>2
    <3>2. g[m] = Again(f[m - 1]) /\ m - 1 \in 0..m - 1 /\ m \in Nat
      BY <1>2, <1>4
    <3>3. \A k \in 0..m : k = m \/ (k \in 0..m - 1 /\ (k # 0 => k - 1 \in 0..m - 1))
      BY <3>2
    <3> HIDE DEF g
    <3>. QED  BY <1>4, <2>3, <3>1, <3>2, <3>3
  <2>5. IsSearched(c, ch, vs, locales, variant, m, g)
    <3>1. g = [k \in 0..m |-> g[k]]
      OBVIOUS
    <3> HIDE DEF g
    <3>. QED  BY <2>4, <3>1 DEF IsSearched, first, Again
  <2>. QED  BY <1>2, <2>5
<1>. QED  BY <1>3, <1>4

LEMMA FirstSearchWins ==
  ASSUME NEW c, NEW ch, NEW vs, NEW locales, NEW variant, NEW j,
         Search(c, ch, vs, locales, variant) = j, j # 0
  PROVE  getFamilyForChar(c, ch, vs, locales, variant) = j
<1>1. PICK n \in Nat : n = Cardinality(DOMAIN Decomposition)
  <2>1. IsFiniteSet(DOMAIN Decomposition)
    BY FontsAssumption
  <2>. QED  BY <2>1, FS_CardinalityType
<1> DEFINE h == CHOOSE h : h = [k \in 0..n |-> IF k = 0 THEN [ch |-> ch, family |-> Search(c, ch, vs, locales, variant)]
                                              ELSE SearchAgain(c, h[k - 1], vs, locales, variant)]
<1>2. IsSearched(c, ch, vs, locales, variant, n, h)
  <2>1. \E s : IsSearched(c, ch, vs, locales, variant, n, s)
    BY SearchedExists
  <2>. QED  BY <2>1 DEF IsSearched
<1>3. SearchFamily(c, ch, vs, locales, variant) = h[n].family
  BY <1>1 DEF SearchFamily
<1> HIDE DEF h
<1> DEFINE bad == {k \in 0..n : h[k].family # j}
<1>4. /\ h[0] = [ch |-> ch, family |-> j]
      /\ \A k \in 1..n : h[k] = SearchAgain(c, h[k - 1], vs, locales, variant)
  BY <1>2 DEF IsSearched
<1>5. bad = {}
  <2>1. SUFFICES ASSUME bad # {} PROVE FALSE
    OBVIOUS
  <2>2. PICK k \in bad : \A y \in bad : k <= y
    BY <2>1, LeastExists, bad \in SUBSET Nat
  <2>3. CASE k = 0
    BY <1>4, <2>2, <2>3
  <2>4. CASE k # 0
    <3>1. k \in 1..n /\ k - 1 \in 0..n /\ k - 1 \notin bad
      BY <2>2, <2>4
    <3>2. h[k - 1].family = j
      BY <3>1
    <3>3. h[k] = h[k - 1]
      BY <1>4, <3>1, <3>2 DEF SearchAgain
    <3>. QED  BY <2>2, <3>2, <3>3
  <2>. QED  BY <2>3, <2>4
<1>6. h[n].family = j
  BY <1>5
<1>. QED  BY <1>3, <1>6 DEF getFamilyForChar, OrFirst

-----------------------------------------------------------------------------
-----------------------------------------------------------------------------
(***************************************************************************)
(* The members of a SparseBitSet: where a value is.                        *)
(***************************************************************************)

(* A number, its quotient and its remainder.                               *)
LEMMA DivMod ==
  ASSUME NEW a \in Nat, NEW n \in Nat \ {0}
  PROVE  /\ a \div n \in Nat /\ a % n \in 0..n - 1
         /\ a = n * (a \div n) + (a % n)
BY SMT

(* There is only one quotient and remainder.                               *)
LEMMA DivUnique ==
  ASSUME NEW n \in Nat \ {0}, NEW q \in Nat, NEW r \in 0..n - 1, NEW a \in Nat, a = n * q + r
  PROVE  a \div n = q /\ a % n = r
BY SMT

(* Division keeps the order.                                               *)
LEMMA DivMonotone ==
  ASSUME NEW a \in Nat, NEW b \in Nat, NEW n \in Nat \ {0}, a <= b
  PROVE a \div n <= b \div n
BY SMT

ElOf(v) == (v % ValuesPerPage) \div BitsPerEl
BitOf(v) == v % BitsPerEl
WordOf(v) == v \div BitsPerEl

(* A page is a whole number of elements (the sizes of SparseBitSet).       *)
LEMMA Sizes ==
  /\ ElsPerPage \in Nat \ {0} /\ BitsPerEl \in Nat \ {0} /\ ValuesPerPage \in Nat \ {0}
  /\ ValuesPerPage = BitsPerEl * ElsPerPage
<1>1. ValuesPerPage \in Nat \ {0} /\ BitsPerEl \in Nat \ {0} /\ ValuesPerPage % BitsPerEl = 0
  BY BitSetAssumption
<1>2. ElsPerPage \in Nat /\ ValuesPerPage = BitsPerEl * ElsPerPage
  BY <1>1, DivMod DEF ElsPerPage
<1>3. ElsPerPage # 0
  BY <1>1, <1>2, SMT
<1>. QED  BY <1>1, <1>2, <1>3

(* The page, element, bit and word of a value (get in SparseBitSet).       *)
LEMMA Places ==
  ASSUME NEW v \in Nat
  PROVE  /\ PageOf(v) \in Nat /\ ElOf(v) \in 0..ElsPerPage - 1
         /\ BitOf(v) \in 0..BitsPerEl - 1 /\ WordOf(v) \in Nat
         /\ v = BitsPerEl * WordOf(v) + BitOf(v)
         /\ WordOf(v) = ElsPerPage * PageOf(v) + ElOf(v)
         /\ (v % ValuesPerPage) % BitsPerEl = BitOf(v)
         /\ ElOf(v) \in Nat /\ BitOf(v) \in Nat
<1>1. PICK E, B, V \in Nat \ {0} : E = ElsPerPage /\ B = BitsPerEl /\ V = ValuesPerPage /\ V = B * E
  BY Sizes
<1>2. PICK p \in Nat, r \in 0..V - 1 : p = v \div V /\ r = v % V /\ v = V * p + r
  BY DivMod
<1>3. PICK e \in Nat, b \in 0..B - 1 : e = r \div B /\ b = r % B /\ r = B * e + b
  BY DivMod
<1>4. e < E
  BY <1>1, <1>3, SMT
<1>5. E * p + e \in Nat /\ v = B * (E * p + e) + b
  <2>1. V * p = B * (E * p)
    BY <1>1, SMT
  <2>2. B * (E * p + e) = B * (E * p) + B * e
    BY <1>1, <1>3, SMT
  <2>3. PICK x, y \in Int : x = B * (E * p) /\ y = B * e
    OBVIOUS
  <2>4. v = x + (y + b)
    BY <1>2, <1>3, <2>1, <2>3
  <2>5. x + (y + b) = x + y + b
    OBVIOUS
  <2>6. E * p + e \in Nat
    OBVIOUS
  <2>. QED  BY <2>2, <2>3, <2>4, <2>5, <2>6
<1>6. v \div B = E * p + e /\ v % B = b
  BY <1>5, DivUnique
<1>7. PageOf(v) = p /\ ElOf(v) = e /\ BitOf(v) = b /\ WordOf(v) = E * p + e
  BY <1>1, <1>2, <1>3, <1>6 DEF PageOf, ElOf, BitOf, WordOf
<1>8. (v % ValuesPerPage) % BitsPerEl = b
  BY <1>1, <1>2, <1>3
<1>9. e \in 0..E - 1 /\ e \in Nat /\ b \in Nat
  BY <1>1, <1>3, <1>4
<1>. QED  BY <1>1, <1>3, <1>5, <1>7, <1>8, <1>9

(* A value is found where its page, its element and its bit say.           *)
LEMMA ValueAt ==
  ASSUME NEW p \in Nat, NEW e \in 0..ElsPerPage - 1, NEW b \in 0..BitsPerEl - 1
  PROVE  LET v == p * ValuesPerPage + e * BitsPerEl + b
         IN v \in Nat /\ PageOf(v) = p /\ ElOf(v) = e /\ BitOf(v) = b
<1>1. PICK E, B, V \in Nat \ {0} : E = ElsPerPage /\ B = BitsPerEl /\ V = ValuesPerPage /\ V = B * E
  BY Sizes
<1> DEFINE v == p * V + e * B + b  r == B * e + b
<1>2. r \in 0..V - 1
  <2>1. e \in Nat /\ b \in Nat /\ e + 1 <= E /\ b + 1 <= B
    BY <1>1
  <2>2. B * (e + 1) <= B * E
    BY <2>1, SMT
  <2>3. B * (e + 1) = B * e + B
    BY <2>1, SMT
  <2>4. B * e \in Nat
    BY <2>1
  <2> HIDE DEF r
  <2>5. r = B * e + b
    BY DEF r
  <2>. QED  BY <1>1, <2>1, <2>2, <2>3, <2>4, <2>5
<1>3. v \in Nat /\ v = V * p + r
  BY <1>1, SMT
<1> HIDE DEF v, r
<1>4. v \div V = p /\ v % V = r
  BY <1>2, <1>3, DivUnique
<1>5. r \div B = e /\ r % B = b
  <2>1. r = B * e + b /\ e \in Nat /\ b \in 0..B - 1 /\ r \in Nat
    BY <1>1, <1>2 DEF r
  <2>. QED  BY <1>1, <2>1, DivUnique
<1>6. ElOf(v) = e /\ PageOf(v) = p
  BY <1>1, <1>4, <1>5 DEF ElOf, PageOf
<1>7. BitOf(v) = b
  BY <1>1, <1>3, <1>4, <1>5, Places
<1>. QED  BY <1>1, <1>3, <1>6, <1>7 DEF v

(* Pages and words are in the order of their values.                       *)
LEMMA PlacesInOrder ==
  ASSUME NEW u \in Nat, NEW v \in Nat, u <= v
  PROVE  PageOf(u) <= PageOf(v) /\ WordOf(u) <= WordOf(v) /\ (WordOf(u) = WordOf(v) => BitOf(u) <= BitOf(v))
<1>1. PageOf(u) <= PageOf(v) /\ WordOf(u) <= WordOf(v)
  BY Sizes, DivMonotone DEF PageOf, WordOf
<1>2. ASSUME WordOf(u) = WordOf(v) PROVE BitOf(u) <= BitOf(v)
  <2>1. PICK x \in Nat : x = BitsPerEl * WordOf(u)
    BY Places, Sizes
  <2>. QED  BY <1>2, <2>1, Places
<1>. QED  BY <1>1, <1>2

(* Values in order of their elements and bits.                             *)
LEMMA PlacesOrder ==
  ASSUME NEW u \in Nat, NEW v \in Nat
  PROVE  u <= v <=> WordOf(u) < WordOf(v) \/ (WordOf(u) = WordOf(v) /\ BitOf(u) <= BitOf(v))
<1>1. WordOf(u) \in Nat /\ WordOf(v) \in Nat /\ BitOf(u) \in Nat /\ BitOf(v) \in Nat
  BY Places
<1>2. ASSUME u <= v PROVE WordOf(u) < WordOf(v) \/ (WordOf(u) = WordOf(v) /\ BitOf(u) <= BitOf(v))
  BY <1>1, <1>2, PlacesInOrder
<1>3. ASSUME ~(u <= v) PROVE ~(WordOf(u) < WordOf(v) \/ (WordOf(u) = WordOf(v) /\ BitOf(u) <= BitOf(v)))
  <2>1. v <= u /\ u # v
    BY <1>3
  <2>2. WordOf(v) <= WordOf(u) /\ (WordOf(u) = WordOf(v) => BitOf(v) <= BitOf(u))
    BY <2>1, PlacesInOrder
  <2>3. WordOf(v) = WordOf(u) /\ BitOf(u) = BitOf(v) => u = v
    BY Places
  <2>. QED  BY <1>1, <2>1, <2>2, <2>3
<1>. QED  BY <1>2, <1>3

(* The elements of a range: how many there are, and its last bit.          *)
LEMMA ElementsOfRange ==
  ASSUME NEW a \in Nat, NEW e \in Nat, a < e
  PROVE  /\ (e - (a - (a % BitsPerEl)) + BitsPerEl - 1) \div BitsPerEl = WordOf(e - 1) - WordOf(a) + 1
         /\ BitsPerEl - ((BitsPerEl - (e % BitsPerEl)) % BitsPerEl) = BitOf(e - 1) + 1
         /\ WordOf(a) <= WordOf(e - 1)
<1>1. PICK B \in Nat \ {0} : B = BitsPerEl
  BY Sizes
<1>2. PICK l \in Nat : l = e - 1 /\ e = l + 1 /\ a <= l
  OBVIOUS
<1>3. PICK wa, wl \in Nat, ba, bl \in 0..B - 1 :
        /\ wa = WordOf(a) /\ wl = WordOf(l) /\ ba = BitOf(a) /\ bl = BitOf(l)
        /\ a = B * wa + ba /\ l = B * wl + bl
  <2>1. /\ WordOf(a) \in Nat /\ BitOf(a) \in 0..BitsPerEl - 1 /\ a = BitsPerEl * WordOf(a) + BitOf(a)
        /\ WordOf(l) \in Nat /\ BitOf(l) \in 0..BitsPerEl - 1 /\ l = BitsPerEl * WordOf(l) + BitOf(l)
    BY Places
  <2>. QED  BY <1>1, <2>1
<1>4. wa <= wl
  BY <1>2, <1>3, PlacesInOrder
<1>5. a - (a % BitsPerEl) = B * wa
  <2>1. a % BitsPerEl = ba
    BY <1>3 DEF BitOf
  <2>2. PICK x \in Int : x = B * wa
    OBVIOUS
  <2>. QED  BY <1>3, <2>1, <2>2
<1>6. (e - (a - (a % BitsPerEl)) + BitsPerEl - 1) \div BitsPerEl = wl - wa + 1
  <2>1. PICK x, y \in Int : x = B * wa /\ y = B * wl
    OBVIOUS
  <2>2. wl - wa + 1 \in Nat /\ bl \in 0..B - 1
    BY <1>3, <1>4
  <2>3. B * (wl - wa + 1) = y - x + B
    <3>1. B * (wl - wa + 1) = B * wl - B * wa + B
      BY <1>1, <1>3, SMT
    <3>. QED  BY <2>1, <3>1
  <2>4. e - x + B - 1 = (y - x + B) + bl
    BY <1>1, <1>2, <1>3, <2>1
  <2>5. PICK z \in Int : z = e - x + B - 1
    BY <1>1
  <2>6. z = B * (wl - wa + 1) + bl
    BY <2>3, <2>4, <2>5
  <2>7. z \in Nat
    <3>1. PICK q \in Nat : q = wl - wa + 1
      BY <2>2
    <3>2. B * q \in Nat /\ bl \in Nat
      BY <1>1, <2>2
    <3>. QED  BY <2>6, <3>1, <3>2
  <2>8. z \div B = wl - wa + 1
    BY <1>1, <2>2, <2>6, <2>7, DivUnique
  <2>. QED  BY <1>1, <1>5, <2>1, <2>5, <2>8
<1>7. B - ((B - (e % B)) % B) = bl + 1
  <2>1. CASE bl + 1 = B
    <3>1. e = B * (wl + 1) + 0
      <4>1. B * (wl + 1) = B * wl + B
        BY <1>1, <1>3, SMT
      <4>2. PICK x \in Int : x = B * wl
        OBVIOUS
      <4>. QED  BY <1>1, <1>2, <1>3, <2>1, <4>1, <4>2
    <3>2. e % B = 0
      <4>1. PICK q \in Nat, z \in 0..B - 1 : q = wl + 1 /\ z = 0
        BY <1>1
      <4>2. e = B * q + z
        BY <3>1, <4>1
      <4>. QED  BY <1>1, <4>1, <4>2, DivUnique
    <3>3. B = B * 1 + 0
      BY <1>1
    <3>4. B % B = 0
      BY <1>1, <3>3, 0 \in 0..B - 1, DivUnique
    <3>. QED  BY <1>1, <2>1, <3>2, <3>4
  <2>2. CASE bl + 1 # B
    <3>1. bl + 1 \in 0..B - 1 /\ B - (bl + 1) \in 0..B - 1
      BY <1>1, <1>3, <2>2
    <3>2. e = B * wl + (bl + 1)
      <4>1. PICK x \in Int : x = B * wl
        OBVIOUS
      <4>. QED  BY <1>2, <1>3, <4>1
    <3>3. e % B = bl + 1
      <4>1. PICK z \in 0..B - 1, q \in Nat : z = bl + 1 /\ q = wl
        BY <1>3, <3>1
      <4>2. e = B * q + z
        BY <3>2, <4>1
      <4>. QED  BY <1>1, <4>1, <4>2, DivUnique
    <3>4. PICK c \in 0..B - 1 : c = B - (bl + 1)
      BY <3>1
    <3>5. c % B = c
      <4>1. c = B * 0 + c /\ c \in Nat
        BY <1>1
      <4>. QED  BY <1>1, <4>1, DivUnique
    <3>6. B - (e % B) = c
      BY <3>3, <3>4
    <3>7. (B - (e % B)) % B = c
      BY <3>5, <3>6
    <3>8. B - c = bl + 1
      <4>1. bl \in Int /\ B \in Int
        BY <1>1, <1>3
      <4>. QED  BY <3>4, <4>1
    <3>. QED  BY <3>7, <3>8
  <2>. QED  BY <2>1, <2>2
<1>. QED  BY <1>1, <1>2, <1>3, <1>4, <1>6, <1>7

Bits == SUBSET (0..BitsPerEl - 1)
Building(N, m) ==
  [mIndices : [0..m - 1 -> Nat], mZeroPageIndex : Nat \cup {noZeroPage},
   mBitmaps : [0..N * ElsPerPage - 1 -> Bits], nonzeroPageEnd : {m}, currentPage : Nat, firstRow : Nat]

(* The bits a range sets: those of its values.                             *)
LEMMA RangeIsSet ==
  ASSUME NEW N \in Nat, NEW m \in Nat, NEW s \in Building(N, m), NEW r,
         r[1] \in Nat, r[2] \in Nat, r[1] < r[2]
  PROVE  LET t == SetBits(s, r)
             index == s.firstRow * ElsPerPage + ElOf(r[1])
             n == WordOf(r[2] - 1) - WordOf(r[1]) + 1
         IN /\ t \in Building(N, m)
            /\ t.mIndices = s.mIndices /\ t.mZeroPageIndex = s.mZeroPageIndex
            /\ t.nonzeroPageEnd = s.nonzeroPageEnd /\ t.currentPage = s.currentPage
            /\ \A k \in 0..N * ElsPerPage - 1 : k \notin index..index + n - 1 => t.mBitmaps[k] = s.mBitmaps[k]
            /\ \A k \in 0..N * ElsPerPage - 1, v \in Nat :
                  (k \in index..index + n - 1 /\ WordOf(v) = WordOf(r[1]) + (k - index))
                  => (BitOf(v) \in t.mBitmaps[k]
                      <=> BitOf(v) \in s.mBitmaps[k] \/ (r[1] <= v /\ v < r[2]))
<1> DEFINE t == SetBits(s, r)
           ix == s.firstRow * ElsPerPage + (r[1] % ValuesPerPage) \div BitsPerEl
           nE == (r[2] - (r[1] - (r[1] % BitsPerEl)) + BitsPerEl - 1) \div BitsPerEl
           pad == (BitsPerEl - (r[2] % BitsPerEl)) % BitsPerEl
           New(j) == {b \in 0..BitsPerEl-1 : (j = 0 => b >= r[1] % BitsPerEl)
                                              /\ (j = nE - 1 => b < BitsPerEl - pad)}
           maps == [k \in DOMAIN s.mBitmaps |-> IF k \in ix .. ix + nE - 1
                                                THEN s.mBitmaps[k] \cup New(k - ix) ELSE s.mBitmaps[k]]
<1>1. PICK a, e, l \in Nat : a = r[1] /\ e = r[2] /\ a < e /\ l = e - 1
  OBVIOUS
<1>2. PICK D : D = 0..N * ElsPerPage - 1
  OBVIOUS
<1>3. PICK index \in Nat, n \in Nat :
        index = s.firstRow * ElsPerPage + ElOf(a) /\ n = WordOf(l) - WordOf(a) + 1
  <2>1. ElOf(a) \in Nat /\ WordOf(a) \in Nat /\ WordOf(l) \in Nat /\ WordOf(a) <= WordOf(l)
    <3>1. ElOf(a) \in Nat
      BY Places
    <3>2. WordOf(a) <= WordOf(l)
      BY <1>1, PlacesInOrder
    <3>. QED  BY <3>1, <3>2, Places
  <2>2. s.firstRow * ElsPerPage \in Nat
    BY Sizes DEF Building
  <2>. QED  BY <2>1, <2>2
<1>4. s.mBitmaps \in [D -> Bits] /\ DOMAIN s.mBitmaps = D
  BY <1>2 DEF Building
<1>5. t = [s EXCEPT !.mBitmaps = maps]
  BY DEF SetBits
<1>6. ix = index /\ nE = n /\ BitsPerEl - pad = BitOf(l) + 1
  <2>1. ix = index
    BY <1>1, <1>3 DEF ElOf
  <2>2. nE = n
    BY <1>1, <1>3, ElementsOfRange
  <2>3. BitsPerEl - pad = BitOf(l) + 1
    BY <1>1, ElementsOfRange
  <2>. QED  BY <2>1, <2>2, <2>3
<1> HIDE DEF t, ix, nE, pad
<1>7. maps \in [D -> Bits]
  <2>1. ASSUME NEW j PROVE New(j) \in Bits
    BY DEF Bits
  <2>2. ASSUME NEW k \in D PROVE s.mBitmaps[k] \cup New(k - ix) \in Bits
    <3>1. s.mBitmaps[k] \in Bits
      BY <1>4
    <3> HIDE DEF New
    <3>. QED  BY <2>1, <3>1 DEF Bits
  <2> HIDE DEF New
  <2>. QED  BY <1>4, <2>2
<1>8. \A k \in D : maps[k] = IF k \in index..index + n - 1 THEN s.mBitmaps[k] \cup New(k - index)
                              ELSE s.mBitmaps[k]
  BY <1>4, <1>6
<1> HIDE DEF maps
<1>9. /\ t \in Building(N, m) /\ t.mBitmaps = maps
      /\ t.mIndices = s.mIndices /\ t.mZeroPageIndex = s.mZeroPageIndex
      /\ t.nonzeroPageEnd = s.nonzeroPageEnd /\ t.currentPage = s.currentPage
  BY <1>2, <1>5, <1>7 DEF Building
<1>10. \A k \in D : k \notin index..index + n - 1 => maps[k] = s.mBitmaps[k]
  BY <1>8
<1>11. ASSUME NEW k \in D, NEW v \in Nat, k \in index..index + n - 1, WordOf(v) = WordOf(a) + (k - index)
      PROVE  BitOf(v) \in maps[k] <=> BitOf(v) \in s.mBitmaps[k] \/ (a <= v /\ v < e)
  <2>1. BitOf(v) \in maps[k] <=> BitOf(v) \in s.mBitmaps[k] \/ BitOf(v) \in New(k - index)
    <3> HIDE DEF New
    <3>. QED  BY <1>8, <1>11
  <2>2. PICK j \in 0..n - 1 : j = k - index
    BY <1>3, <1>11
  <2>3. v < e <=> v <= l
    BY <1>1
  <2>4. PICK wa, wl, ba, bl, bv \in Nat :
           /\ wa = WordOf(a) /\ wl = WordOf(l) /\ ba = BitOf(a) /\ bl = BitOf(l) /\ bv = BitOf(v)
           /\ bv \in 0..BitsPerEl - 1
    <3>1. PICK B \in Nat \ {0} : B = BitsPerEl
      BY Sizes
    <3>2. WordOf(a) \in Nat /\ BitOf(a) \in 0..B - 1
      BY <3>1, Places
    <3>3. WordOf(l) \in Nat /\ BitOf(l) \in 0..B - 1
      BY <3>1, Places
    <3>4. BitOf(v) \in 0..B - 1
      BY <3>1, Places
    <3>5. PICK wa, ba \in Nat : wa = WordOf(a) /\ ba = BitOf(a)
      BY <3>1, <3>2
    <3>6. PICK wl, bl \in Nat : wl = WordOf(l) /\ bl = BitOf(l)
      BY <3>1, <3>3
    <3>7. PICK bv \in Nat : bv = BitOf(v) /\ bv \in 0..BitsPerEl - 1
      BY <3>1, <3>4
    <3>. QED  BY <3>5, <3>6, <3>7
  <2>5. WordOf(v) = wa + j /\ n - 1 = wl - wa
    BY <1>3, <1>11, <2>2, <2>4
  <2>6. /\ a <= v <=> WordOf(a) < WordOf(v) \/ (WordOf(a) = WordOf(v) /\ BitOf(a) <= BitOf(v))
        /\ v <= l <=> WordOf(v) < WordOf(l) \/ (WordOf(v) = WordOf(l) /\ BitOf(v) <= BitOf(l))
    BY PlacesOrder
  <2>7. a <= v <=> (j = 0 => bv >= ba)
    <3>1. a <= v <=> wa < wa + j \/ (wa = wa + j /\ ba <= bv)
      BY <2>4, <2>5, <2>6
    <3>. QED  BY <2>2, <2>4, <3>1
  <2>8. v <= l <=> (j = n - 1 => bv < bl + 1)
    <3>1. v <= l <=> wa + j < wl \/ (wa + j = wl /\ bv <= bl)
      BY <2>4, <2>5, <2>6
    <3>. QED  BY <2>2, <2>4, <2>5, <3>1
  <2>9. bv \in New(j) <=> (a <= v /\ v <= l)
    <3>1. r[1] % BitsPerEl = ba /\ BitsPerEl - pad = bl + 1 /\ nE = n
      BY <1>1, <1>6, <2>4 DEF BitOf
    <3>2. bv \in New(j) <=> (j = 0 => bv >= ba) /\ (j = n - 1 => bv < bl + 1)
      BY <2>4, <3>1
    <3>. QED  BY <2>7, <2>8, <3>2
  <2> HIDE DEF New
  <2>. QED  BY <2>1, <2>2, <2>3, <2>4, <2>9
<1>. QED  BY <1>1, <1>2, <1>3, <1>9, <1>10, <1>11 DEF t

(* Where a row of elements begins.                                         *)
RowAt(i) == i * ElsPerPage

(* Rows of elements follow each other.                                     *)
LEMMA Rows ==
  ASSUME NEW i \in Nat, NEW j \in Nat
  PROVE  /\ RowAt(i) \in Nat /\ RowAt(i + 1) = RowAt(i) + ElsPerPage /\ RowAt(i + j) = RowAt(i) + RowAt(j)
         /\ i < j => RowAt(i) + ElsPerPage <= RowAt(j)
         /\ i <= j => RowAt(i) <= RowAt(j)
<1>1. PICK E \in Nat : E = ElsPerPage
  BY Sizes
<1>2. i * E \in Nat /\ (i + 1) * E = i * E + E /\ (i + j) * E = i * E + j * E
  BY <1>1, SMT
<1>3. i < j => i * E + E <= j * E
  BY <1>1, SMT
<1>4. i <= j => i * E <= j * E
  BY <1>1, SMT
<1>. QED  BY <1>1, <1>2, <1>3, <1>4 DEF RowAt

(* A word is in the row of its page.                                       *)
LEMMA WordIsInRow ==
  ASSUME NEW v \in Nat
  PROVE  WordOf(v) = RowAt(PageOf(v)) + ElOf(v)
<1>1. PICK E \in Nat, p \in Nat : E = ElsPerPage /\ p = PageOf(v)
  BY Sizes, Places
<1>2. E * p = p * E
  BY <1>1, SMT
<1>. QED  BY <1>1, <1>2, Places DEF RowAt

IsRange(r) == r[1] \in Nat /\ r[2] \in Nat /\ r[1] < r[2]

\* t has pages sp to ep in rows from row0 on, and the skipped ones in zero.
Taken(N, m, s, t, sp, ep, row0, zero) ==
  /\ t \in Building(N, ep + 1) /\ t.mBitmaps = s.mBitmaps
  /\ t.firstRow = row0 /\ t.currentPage = row0 + (ep - sp) + 1 /\ t.mZeroPageIndex = zero
  /\ zero = (IF sp > m /\ s.mZeroPageIndex = noZeroPage THEN RowAt(s.currentPage) ELSE s.mZeroPageIndex)
  /\ row0 = (IF sp < m THEN s.currentPage - 1
             ELSE IF sp > m /\ s.mZeroPageIndex = noZeroPage THEN s.currentPage + 1 ELSE s.currentPage)
  /\ \A p \in 0..ep : t.mIndices[p] = IF p >= sp THEN RowAt(row0 + p - sp)
                                      ELSE IF p >= m THEN zero ELSE s.mIndices[p]

(* The rows a range takes: the shared empty one when pages are skipped for *)
(* the first time, and one for every page but one that is begun.           *)
LEMMA PagesAreTaken ==
  ASSUME NEW N \in Nat, NEW m \in Nat, NEW s \in Building(N, m), NEW r, IsRange(r),
         m # 0 => PageOf(r[1]) >= m - 1 /\ s.currentPage # 0
  PROVE  \E row0 \in Nat, zero \in Nat \cup {noZeroPage} :
            Taken(N, m, s, TakePages(s, r), PageOf(r[1]), PageOf(r[2] - 1), row0, zero)
<1>1. PICK a, e, l \in Nat : a = r[1] /\ e = r[2] /\ a <= l /\ l = r[2] - 1
  BY DEF IsRange
<1>2. PICK sp, ep \in Nat : sp = PageOf(a) /\ ep = PageOf(l) /\ sp <= ep
  <2>1. a \in Nat /\ l \in Nat /\ a <= l
    BY <1>1
  <2>2. PageOf(a) \in Nat /\ PageOf(l) \in Nat
    BY <2>1, Places
  <2>3. PageOf(a) <= PageOf(l)
    BY <2>1, PlacesInOrder
  <2>. QED  BY <2>2, <2>3
<1>3. PICK cp \in Nat : cp = s.currentPage
  BY DEF Building
<1> DEFINE gap == sp > m /\ s.mZeroPageIndex = noZeroPage
           zero == IF gap THEN cp * ElsPerPage ELSE s.mZeroPageIndex
           first == IF zero # s.mZeroPageIndex THEN cp + 1 ELSE cp
           row0 == IF sp < m THEN first - 1 ELSE first
           indices == [j \in 0..ep |-> IF j >= sp THEN (row0 + j - sp) * ElsPerPage
                                       ELSE IF j >= m THEN zero ELSE s.mIndices[j]]
           t == [s EXCEPT !.mZeroPageIndex = zero, !.firstRow = row0,
                          !.currentPage = row0 + (ep - sp) + 1, !.nonzeroPageEnd = ep + 1,
                          !.mIndices = indices]
<1>4. TakePages(s, r) = t
  <2>1. s.nonzeroPageEnd = m
    BY DEF Building
  <2>. QED  BY <1>1, <1>2, <1>3, <2>1 DEF TakePages
<1>5. RowAt(cp) \in Nat /\ RowAt(cp) # noZeroPage
  <2>1. RowAt(cp) \in Nat
    BY <1>3, Rows
  <2>. QED  BY <2>1 DEF noZeroPage
<1>6. zero = (IF gap THEN RowAt(cp) ELSE s.mZeroPageIndex) /\ zero \in Nat \cup {noZeroPage}
  BY <1>5 DEF Building, RowAt
<1>7. first = IF gap THEN cp + 1 ELSE cp
  BY <1>5, <1>6
<1> HIDE DEF zero, first
<1>8. row0 = (IF sp < m THEN cp - 1 ELSE IF gap THEN cp + 1 ELSE cp)
  BY <1>2, <1>7
<1>9. row0 \in Nat
  BY <1>1, <1>2, <1>3, <1>8
<1> HIDE DEF row0
<1>10. \A p \in 0..ep : /\ p >= sp => (row0 + p - sp) * ElsPerPage = RowAt(row0 + p - sp)
                                      /\ row0 + p - sp \in Nat /\ RowAt(row0 + p - sp) \in Nat
                        /\ indices[p] = IF p >= sp THEN RowAt(row0 + p - sp) ELSE IF p >= m THEN zero ELSE s.mIndices[p]
  <2> SUFFICES ASSUME NEW p \in 0..ep
               PROVE  /\ p >= sp => (row0 + p - sp) * ElsPerPage = RowAt(row0 + p - sp)
                                    /\ row0 + p - sp \in Nat /\ RowAt(row0 + p - sp) \in Nat
                      /\ indices[p] = IF p >= sp THEN RowAt(row0 + p - sp) ELSE IF p >= m THEN zero ELSE s.mIndices[p]
    OBVIOUS
  <2>1. (row0 + p - sp) * ElsPerPage = RowAt(row0 + p - sp)
    BY DEF RowAt
  <2>2. p >= sp => row0 + p - sp \in Nat
    BY <1>2, <1>9
  <2>3. p >= sp => RowAt(row0 + p - sp) \in Nat
    BY <2>2, Rows
  <2>. QED  BY <2>1, <2>2, <2>3
<1>11. indices \in [0..ep -> Nat]
  <2> SUFFICES ASSUME NEW p \in 0..ep PROVE indices[p] \in Nat
    OBVIOUS
  <2>1. CASE p >= sp
    BY <1>10, <2>1
  <2>2. CASE ~(p >= sp) /\ p >= m
    <3>1. zero # noZeroPage
      BY <1>2, <1>5, <1>6, <2>2
    <3>. QED  BY <1>6, <1>10, <2>2, <3>1
  <2>3. CASE ~(p >= sp) /\ ~(p >= m)
    <3>1. p \in 0..m - 1
      BY <1>2, <2>3
    <3>2. s.mIndices[p] \in Nat
      BY <3>1 DEF Building
    <3>. QED  BY <1>10, <2>3, <3>2
  <2>. QED  BY <2>1, <2>2, <2>3
<1> HIDE DEF indices, gap
<1>12. /\ t \in Building(N, ep + 1) /\ t.mBitmaps = s.mBitmaps
       /\ t.firstRow = row0 /\ t.currentPage = row0 + (ep - sp) + 1 /\ t.mZeroPageIndex = zero
       /\ t.mIndices = indices
  <2>1. PICK cq \in Nat, end \in Nat : cq = row0 + (ep - sp) + 1 /\ end = ep + 1 /\ end - 1 = ep
    BY <1>2, <1>9
  <2>2. t = [s EXCEPT !.mZeroPageIndex = zero, !.firstRow = row0, !.currentPage = cq,
                      !.nonzeroPageEnd = end, !.mIndices = indices]
    BY <2>1
  <2>3. indices \in [0..end - 1 -> Nat]
    BY <1>11, <2>1
  <2> HIDE DEF t
  <2>4. /\ t \in Building(N, end) /\ t.mBitmaps = s.mBitmaps
        /\ t.firstRow = row0 /\ t.currentPage = cq /\ t.mZeroPageIndex = zero
        /\ t.mIndices = indices
    BY <1>6, <1>9, <2>2, <2>3 DEF Building
  <2>. QED  BY <2>1, <2>4
<1> HIDE DEF t
<1>13. /\ zero = (IF sp > m /\ s.mZeroPageIndex = noZeroPage THEN RowAt(s.currentPage) ELSE s.mZeroPageIndex)
       /\ row0 = (IF sp < m THEN s.currentPage - 1
                  ELSE IF sp > m /\ s.mZeroPageIndex = noZeroPage THEN s.currentPage + 1 ELSE s.currentPage)
  BY <1>3, <1>6, <1>8 DEF gap
<1>14. \A p \in 0..ep : t.mIndices[p] = IF p >= sp THEN RowAt(row0 + p - sp)
                                        ELSE IF p >= m THEN zero ELSE s.mIndices[p]
  BY <1>10, <1>12
<1>15. PageOf(r[1]) = sp /\ PageOf(r[2] - 1) = ep /\ TakePages(s, r) = t
  BY <1>1, <1>2, <1>4
<1>16. row0 \in Nat /\ zero \in Nat \cup {noZeroPage}
  BY <1>6, <1>9
<1>17. Taken(N, m, s, t, sp, ep, row0, zero)
  BY <1>12, <1>13, <1>14 DEF Taken
<1>. QED  BY <1>15, <1>16, <1>17

-----------------------------------------------------------------------------
(***************************************************************************)
(* Building a set, range by range, in the rows that were counted for it.   *)
(***************************************************************************)

(* Where the rows of the pages are, while a set is built: the last page has *)
(* the last row, the rows behind it and the shared one are blank.           *)
Laid(s, N, m) ==
  /\ m \in Nat /\ s \in Building(N, m) /\ s.currentPage <= N
  /\ m = 0 => s.currentPage = 0 /\ s.mZeroPageIndex = noZeroPage
  /\ m # 0 => s.currentPage # 0 /\ s.mIndices[m - 1] = RowAt(s.currentPage - 1)
  /\ \A p \in 0..m - 2 : s.mIndices[p] + ElsPerPage <= RowAt(s.currentPage - 1)
  /\ s.mZeroPageIndex # noZeroPage =>
        /\ s.mZeroPageIndex + ElsPerPage <= RowAt(s.currentPage - 1)
        /\ \A j \in 0..ElsPerPage - 1 : s.mBitmaps[s.mZeroPageIndex + j] = {}
  /\ \A x \in 0..N * ElsPerPage - 1 : x >= RowAt(s.currentPage) => s.mBitmaps[x] = {}

(* The bits of the pages are those of the values of a set.                 *)
HoldsAll(s, m, A) ==
  \A v \in Nat : /\ v \in A => PageOf(v) < m
                 /\ PageOf(v) < m =>
                       (BitOf(v) \in s.mBitmaps[s.mIndices[PageOf(v)] + ElOf(v)] <=> v \in A)

\* The pages sp to ep are behind the rows that were in use, the skipped ones
\* in the shared row.
Placed(m, s, t, sp, ep, row0, zero) ==
  /\ s.currentPage \in Nat /\ m \in Nat /\ (m # 0 => s.currentPage # 0)
  /\ t.currentPage = row0 + (ep - sp) + 1 /\ t.currentPage \in Nat
  /\ s.currentPage <= t.currentPage
  /\ sp < m => row0 = s.currentPage - 1 /\ sp = m - 1
  /\ ~(sp < m) => row0 >= s.currentPage
  /\ zero # noZeroPage =>
        /\ zero + ElsPerPage <= RowAt(row0)
        /\ s.mZeroPageIndex = noZeroPage => zero = RowAt(s.currentPage)
        /\ s.mZeroPageIndex # noZeroPage => zero = s.mZeroPageIndex
  /\ \A p \in 0..sp - 1 :
        /\ t.mIndices[p] \in Nat /\ t.mIndices[p] + ElsPerPage <= RowAt(row0)
        /\ p < m => p \in 0..m - 1 /\ t.mIndices[p] = s.mIndices[p]
        /\ ~(p < m) => t.mIndices[p] = zero /\ zero # noZeroPage
  /\ \A p \in sp..ep : /\ t.mIndices[p] = RowAt(row0 + (p - sp)) /\ row0 + (p - sp) \in Nat
                       /\ ~(p < m) => RowAt(row0 + (p - sp)) >= RowAt(s.currentPage)

(* What is taken for a range leaves the rows in use alone.                 *)
LEMMA RowsTaken ==
  ASSUME NEW N \in Nat, NEW m, NEW s, Laid(s, N, m), NEW sp \in Nat, NEW ep \in Nat, sp <= ep,
         m # 0 => sp >= m - 1,
         NEW t, NEW row0 \in Nat, NEW zero \in Nat \cup {noZeroPage}, Taken(N, m, s, t, sp, ep, row0, zero)
  PROVE  Placed(m, s, t, sp, ep, row0, zero)
<1>1. PICK cp \in Nat : cp = s.currentPage /\ m \in Nat /\ (m # 0 => cp # 0) /\ (m = 0 => cp = 0)
  BY DEF Laid, Building
<1>2. PICK E \in Nat \ {0} : E = ElsPerPage
  BY Sizes
<1>3. /\ zero = (IF sp > m /\ s.mZeroPageIndex = noZeroPage THEN RowAt(cp) ELSE s.mZeroPageIndex)
      /\ row0 = (IF sp < m THEN cp - 1
                 ELSE IF sp > m /\ s.mZeroPageIndex = noZeroPage THEN cp + 1 ELSE cp)
      /\ t.currentPage = row0 + (ep - sp) + 1
      /\ \A p \in 0..ep : t.mIndices[p] = IF p >= sp THEN RowAt(row0 + p - sp)
                                          ELSE IF p >= m THEN zero ELSE s.mIndices[p]
  BY <1>1 DEF Taken
<1>4. t.currentPage \in Nat /\ cp <= t.currentPage
  BY <1>1, <1>3
<1>5. /\ sp < m => row0 = cp - 1 /\ sp = m - 1 /\ cp # 0
      /\ ~(sp < m) => row0 >= cp
  BY <1>1, <1>3
<1>6. RowAt(cp) \in Nat /\ RowAt(cp) # noZeroPage /\ RowAt(row0) \in Nat /\ RowAt(cp + 1) = RowAt(cp) + E
  <2>1. RowAt(cp) \in Nat /\ RowAt(row0) \in Nat /\ RowAt(cp + 1) = RowAt(cp) + E
    BY <1>1, <1>2, Rows
  <2>. QED  BY <2>1 DEF noZeroPage
<1>7. cp # 0 => RowAt(cp - 1) \in Nat /\ RowAt(cp - 1) <= RowAt(row0) /\ RowAt(cp) = RowAt(cp - 1) + E
               /\ (~(sp < m) => RowAt(cp) <= RowAt(row0))
  <2> SUFFICES ASSUME cp # 0
               PROVE  RowAt(cp - 1) \in Nat /\ RowAt(cp - 1) <= RowAt(row0) /\ RowAt(cp) = RowAt(cp - 1) + E
                      /\ (~(sp < m) => RowAt(cp) <= RowAt(row0))
    OBVIOUS
  <2>1. PICK cq \in Nat : cq = cp - 1 /\ cp = cq + 1
    BY <1>1
  <2>2. cq <= row0 /\ (~(sp < m) => cp <= row0)
    BY <1>5, <2>1
  <2>3. RowAt(cq) \in Nat /\ RowAt(cq) <= RowAt(row0) /\ RowAt(cq + 1) = RowAt(cq) + E
    BY <1>2, <2>2, Rows
  <2>4. cp <= row0 => RowAt(cp) <= RowAt(row0)
    BY <1>1, Rows
  <2>. QED  BY <2>1, <2>2, <2>3, <2>4
<1>8. zero # noZeroPage => /\ zero + E <= RowAt(row0)
                           /\ s.mZeroPageIndex = noZeroPage => zero = RowAt(cp)
                           /\ s.mZeroPageIndex # noZeroPage => zero = s.mZeroPageIndex
  <2> SUFFICES ASSUME zero # noZeroPage
               PROVE  /\ zero + E <= RowAt(row0)
                      /\ s.mZeroPageIndex = noZeroPage => zero = RowAt(cp)
                      /\ s.mZeroPageIndex # noZeroPage => zero = s.mZeroPageIndex
    OBVIOUS
  <2>1. CASE s.mZeroPageIndex = noZeroPage
    <3>1. sp > m /\ zero = RowAt(cp)
      BY <1>3, <2>1
    <3>2. row0 = cp + 1
      BY <1>1, <1>3, <2>1, <3>1
    <3>. QED  BY <1>6, <2>1, <3>1, <3>2
  <2>2. CASE s.mZeroPageIndex # noZeroPage
    <3>1. zero = s.mZeroPageIndex
      BY <1>3, <2>2
    <3>2. zero + E <= RowAt(cp - 1) /\ m # 0
      BY <1>1, <1>2, <2>2, <3>1 DEF Laid
    <3>. QED  BY <1>1, <1>2, <1>6, <1>7, <2>2, <3>1, <3>2
  <2>. QED  BY <2>1, <2>2
<1>9. ASSUME NEW p \in 0..sp - 1
      PROVE  /\ t.mIndices[p] \in Nat /\ t.mIndices[p] + E <= RowAt(row0)
             /\ p < m => p \in 0..m - 1 /\ t.mIndices[p] = s.mIndices[p]
             /\ ~(p < m) => t.mIndices[p] = zero /\ zero # noZeroPage
  <2>1. t.mIndices[p] = IF p >= m THEN zero ELSE s.mIndices[p]
    BY <1>3
  <2>2. CASE p < m
    <3>1. p \in 0..m - 1 /\ t.mIndices[p] = s.mIndices[p]
      BY <1>1, <2>1, <2>2
    <3>2. s.mIndices[p] \in Nat
      BY <3>1 DEF Laid, Building
    <3>3. cp # 0
      BY <1>1, <2>2
    <3>4. CASE p = m - 1
      <4>1. s.mIndices[p] = RowAt(cp - 1) /\ ~(sp < m)
        BY <1>1, <2>2, <3>4 DEF Laid
      <4>. QED  BY <1>7, <2>2, <3>1, <3>2, <3>3, <4>1
    <3>5. CASE p # m - 1
      <4>1. p \in 0..m - 2
        BY <1>1, <3>1, <3>5
      <4>2. s.mIndices[p] + E <= RowAt(cp - 1)
        BY <1>1, <1>2, <4>1 DEF Laid
      <4>. QED  BY <1>6, <1>7, <2>2, <3>1, <3>2, <3>3, <4>2
    <3>. QED  BY <3>4, <3>5
  <2>3. CASE ~(p < m)
    <3>1. t.mIndices[p] = zero /\ sp > m
      BY <1>1, <2>1, <2>3
    <3>2. zero # noZeroPage
      BY <1>3, <1>6, <3>1
    <3>. QED  BY <1>8, <2>3, <3>1, <3>2
  <2>. QED  BY <2>2, <2>3
<1>10. ASSUME NEW p \in sp..ep
       PROVE  /\ t.mIndices[p] = RowAt(row0 + (p - sp)) /\ row0 + (p - sp) \in Nat
              /\ ~(p < m) => RowAt(row0 + (p - sp)) >= RowAt(cp)
  <2>1. row0 + p - sp = row0 + (p - sp) /\ row0 + (p - sp) \in Nat /\ p \in 0..ep /\ p >= sp
    OBVIOUS
  <2>2. t.mIndices[p] = RowAt(row0 + (p - sp))
    BY <1>3, <2>1
  <2>3. ASSUME ~(p < m) PROVE RowAt(row0 + (p - sp)) >= RowAt(cp)
    <3>1. cp <= row0 + (p - sp)
      BY <1>1, <1>5, <2>3
    <3>2. RowAt(row0 + (p - sp)) \in Nat
      BY <2>1, Rows
    <3>. QED  BY <1>1, <1>6, <2>1, <3>1, <3>2, Rows
  <2>. QED  BY <2>1, <2>2, <2>3
<1>. QED  BY <1>1, <1>2, <1>3, <1>4, <1>5, <1>8, <1>9, <1>10 DEF Placed

ValuesOf(r) == {v \in Nat : r[1] <= v /\ v < r[2]}

\* u is s with range r added to the values A.
Extended(u, t, N, r, A) ==
  /\ Laid(u, N, PageOf(r[2] - 1) + 1)
  /\ HoldsAll(u, PageOf(r[2] - 1) + 1, A \cup ValuesOf(r))
  /\ u.currentPage = t.currentPage
  /\ u.mZeroPageIndex = t.mZeroPageIndex

(* A range is added to the set that is being built.                        *)
LEMMA RangeIsLaid ==
  ASSUME NEW N \in Nat, NEW m, NEW s, Laid(s, N, m), NEW A, HoldsAll(s, m, A),
         NEW r, IsRange(r), m # 0 => PageOf(r[1]) >= m - 1,
         TakePages(s, r).currentPage <= N
  PROVE  Extended(SetBits(TakePages(s, r), r), TakePages(s, r), N, r, A)
<1>34. PICK R : R = ValuesOf(r)
  OBVIOUS
<1>1. PICK a, e, l \in Nat : a = r[1] /\ e = r[2] /\ a <= l /\ l = e - 1 /\ a < e
  BY DEF IsRange
<1>2. PICK sp, ep \in Nat : sp = PageOf(a) /\ ep = PageOf(l) /\ sp <= ep
  <2>1. PageOf(a) \in Nat /\ PageOf(l) \in Nat
    BY Places
  <2>2. PageOf(a) <= PageOf(l)
    BY <1>1, PlacesInOrder
  <2>. QED  BY <2>1, <2>2
<1>3. PICK t : t = TakePages(s, r)
  OBVIOUS
<1>4. m \in Nat /\ s \in Building(N, m) /\ (m # 0 => s.currentPage # 0)
  BY DEF Laid
<1>5. PICK row0 \in Nat, zero \in Nat \cup {noZeroPage} : Taken(N, m, s, t, sp, ep, row0, zero)
  BY <1>1, <1>2, <1>3, <1>4, PagesAreTaken
<1>6. m # 0 => sp >= m - 1
  BY <1>1, <1>2
<1>28. Placed(m, s, t, sp, ep, row0, zero)
  <2>1. Laid(s, N, m)
    OBVIOUS
  <2>. QED  BY <1>2, <1>5, <1>6, <2>1, RowsTaken
<1>7. PICK cp, cq, E \in Nat : cp = s.currentPage /\ cq = t.currentPage /\ E = ElsPerPage /\ E # 0
  <2>1. s.currentPage \in Nat /\ t.currentPage \in Nat
    BY <1>28 DEF Placed
  <2>. QED  BY <2>1, Sizes
<1>8. /\ cq = row0 + (ep - sp) + 1 /\ cp <= cq /\ cq <= N
      /\ m # 0 => cp # 0
      /\ sp < m => row0 = cp - 1 /\ sp = m - 1
      /\ ~(sp < m) => row0 >= cp
  BY <1>3, <1>7, <1>28 DEF Placed
<1>31. /\ zero # noZeroPage =>
             /\ zero + E <= RowAt(row0)
             /\ s.mZeroPageIndex = noZeroPage => zero = RowAt(cp)
             /\ s.mZeroPageIndex # noZeroPage => zero = s.mZeroPageIndex
       /\ \A p \in 0..sp - 1 :
             /\ t.mIndices[p] \in Nat /\ t.mIndices[p] + E <= RowAt(row0)
             /\ p < m => p \in 0..m - 1 /\ t.mIndices[p] = s.mIndices[p]
             /\ ~(p < m) => t.mIndices[p] = zero /\ zero # noZeroPage
  BY <1>7, <1>28 DEF Placed
<1>32. ASSUME NEW p \in sp..ep
       PROVE  /\ t.mIndices[p] = RowAt(row0 + (p - sp)) /\ row0 + (p - sp) \in Nat
              /\ ~(p < m) => RowAt(row0 + (p - sp)) >= RowAt(cp)
  BY <1>7, <1>28 DEF Placed
<1>9. PICK u : u = SetBits(t, r)
  OBVIOUS
<1>29. PICK D, S : D \in Nat /\ D = RowAt(N) /\ S = 0..D - 1 /\ S = 0..N * ElsPerPage - 1
  BY Rows DEF RowAt
<1>10. D \in Nat /\ S = 0..D - 1 /\ D = RowAt(N)
  BY <1>29
<1>33. S = 0..N * ElsPerPage - 1
  BY <1>29
<1>11. /\ t \in Building(N, ep + 1) /\ t.mBitmaps = s.mBitmaps /\ t.firstRow = row0
       /\ t.mZeroPageIndex = zero
  BY <1>5 DEF Taken
<1>12. PICK index, n \in Nat : /\ index = RowAt(row0) + ElOf(a) /\ n = WordOf(l) - WordOf(a) + 1
                               /\ WordOf(a) \in Nat /\ WordOf(l) \in Nat
  <2>1. WordOf(a) \in Nat /\ WordOf(l) \in Nat /\ ElOf(a) \in Nat /\ RowAt(row0) \in Nat
    BY Places, Rows
  <2>2. WordOf(a) <= WordOf(l)
    BY <1>1, PlacesInOrder
  <2>. QED  BY <2>1, <2>2
<1>13. /\ u \in Building(N, ep + 1)
       /\ u.mIndices = t.mIndices /\ u.mZeroPageIndex = zero /\ u.currentPage = cq
       /\ \A k \in S : k \notin index..index + n - 1 => u.mBitmaps[k] = s.mBitmaps[k]
       /\ \A k \in S, v \in Nat :
             (k \in index..index + n - 1 /\ WordOf(v) = WordOf(a) + (k - index))
             => (BitOf(v) \in u.mBitmaps[k] <=> BitOf(v) \in s.mBitmaps[k] \/ (a <= v /\ v < e))
  <2>1. ep + 1 \in Nat /\ r[1] \in Nat /\ r[2] \in Nat /\ r[1] < r[2]
    BY <1>1
  <2>2. t.firstRow * ElsPerPage + ElOf(r[1]) = index /\ WordOf(r[2] - 1) - WordOf(r[1]) + 1 = n
    BY <1>1, <1>11, <1>12 DEF RowAt
  <2>3. S = 0..N * ElsPerPage - 1
    BY <1>33
  <2>4. /\ u \in Building(N, ep + 1)
        /\ u.mIndices = t.mIndices /\ u.mZeroPageIndex = t.mZeroPageIndex
        /\ u.currentPage = t.currentPage
        /\ \A k \in 0..N * ElsPerPage - 1 : k \notin index..index + n - 1 => u.mBitmaps[k] = t.mBitmaps[k]
        /\ \A k \in 0..N * ElsPerPage - 1, v \in Nat :
              (k \in index..index + n - 1 /\ WordOf(v) = WordOf(r[1]) + (k - index))
              => (BitOf(v) \in u.mBitmaps[k] <=> BitOf(v) \in t.mBitmaps[k] \/ (r[1] <= v /\ v < r[2]))
    <3>1. PICK q \in Nat : q = ep + 1
      BY <2>1
    <3>2. t \in Building(N, q)
      BY <1>11, <3>1
    <3>3. LET w == SetBits(t, r)
              ix == t.firstRow * ElsPerPage + ElOf(r[1])
              nn == WordOf(r[2] - 1) - WordOf(r[1]) + 1
         IN /\ w \in Building(N, q)
            /\ w.mIndices = t.mIndices /\ w.mZeroPageIndex = t.mZeroPageIndex
            /\ w.nonzeroPageEnd = t.nonzeroPageEnd /\ w.currentPage = t.currentPage
            /\ \A k \in 0..N * ElsPerPage - 1 : k \notin ix..ix + nn - 1 => w.mBitmaps[k] = t.mBitmaps[k]
            /\ \A k \in 0..N * ElsPerPage - 1, v \in Nat :
                  (k \in ix..ix + nn - 1 /\ WordOf(v) = WordOf(r[1]) + (k - ix))
                  => (BitOf(v) \in w.mBitmaps[k]
                      <=> BitOf(v) \in t.mBitmaps[k] \/ (r[1] <= v /\ v < r[2]))
      BY <2>1, <3>1, <3>2, RangeIsSet
    <3>. QED  BY <1>9, <2>2, <3>1, <3>3
  <2>. QED  BY <1>1, <1>7, <1>11, <2>3, <2>4
<1>14. PICK ra, rl, rp : /\ ra = RowAt(row0) /\ rl = RowAt(cq - 1) /\ rp = RowAt(cq)
                         /\ ra \in Nat /\ rl \in Nat /\ ra <= rl /\ rp = rl + E /\ rp <= D
                         /\ cq - 1 = row0 + (ep - sp) /\ cq - 1 \in Nat
  <2>1. PICK c \in Nat : c = cq - 1 /\ c = row0 + (ep - sp) /\ row0 <= c /\ cq = c + 1
    BY <1>2, <1>8
  <2>2. RowAt(row0) \in Nat /\ RowAt(c) \in Nat /\ RowAt(row0) <= RowAt(c) /\ RowAt(c + 1) = RowAt(c) + E
    BY <1>7, <2>1, Rows
  <2>3. RowAt(cq) <= RowAt(N)
    BY <1>7, <1>8, Rows
  <2>. QED  BY <1>10, <2>1, <2>2, <2>3
\* The bits that are written lie in the rows taken.
<1>15. index + n - 1 < rp /\ ra <= index
  <2>1. PICK d \in Nat : d = ep - sp /\ ep = sp + d /\ cq - 1 = row0 + d
    <3>1. cq - 1 = row0 + (ep - sp)
      BY <1>14
    <3>. QED  BY <1>2, <3>1
  <2>2. RowAt(sp) \in Nat /\ RowAt(d) \in Nat /\ RowAt(sp + d) = RowAt(sp) + RowAt(d) /\ RowAt(row0 + d) = RowAt(row0) + RowAt(d)
    BY <2>1, Rows
  <2>5. RowAt(ep) = RowAt(sp) + RowAt(d) /\ rl = ra + RowAt(d)
    BY <1>14, <2>1, <2>2
  <2>3. WordOf(a) = RowAt(sp) + ElOf(a) /\ WordOf(l) = RowAt(ep) + ElOf(l)
    BY <1>2, WordIsInRow
  <2>4. ElOf(a) \in 0..E - 1 /\ ElOf(l) \in 0..E - 1
    BY <1>7, Places
  <2>6. ra \in Nat /\ rp = rl + E /\ index = ra + ElOf(a) /\ n = WordOf(l) - WordOf(a) + 1
    BY <1>12, <1>14
  <2>7. PICK el, ea, x, y \in Nat : el = ElOf(l) /\ ea = ElOf(a) /\ x = RowAt(sp) /\ y = RowAt(d) /\ el < E
    BY <2>2, <2>4
  <2>8. n = y + el - ea + 1
    BY <2>3, <2>5, <2>6, <2>7
  <2>9. rl = ra + y /\ index = ra + ea
    BY <2>5, <2>6, <2>7
  <2>. QED  BY <1>7, <2>6, <2>7, <2>8, <2>9
\* Every value of the pages of the range.
<1>16. ASSUME NEW v \in Nat, PageOf(v) \in sp..ep
       PROVE  /\ t.mIndices[PageOf(v)] + ElOf(v) \in S
              /\ BitOf(v) \in u.mBitmaps[t.mIndices[PageOf(v)] + ElOf(v)]
                   <=> BitOf(v) \in s.mBitmaps[t.mIndices[PageOf(v)] + ElOf(v)] \/ v \in R
  <2>1. PICK d \in Nat : d = PageOf(v) - sp /\ PageOf(v) = sp + d /\ row0 + d <= cq - 1
    <3>1. PICK p \in Nat : p = PageOf(v)
      BY Places
    <3>2. sp <= p /\ p <= ep /\ cq - 1 = row0 + (ep - sp)
      BY <1>14, <1>16, <3>1
    <3>. QED  BY <1>2, <3>1, <3>2
  <2>2. PICK k : k = t.mIndices[PageOf(v)] + ElOf(v) /\ k = RowAt(row0 + d) + ElOf(v)
    BY <1>16, <1>32, <2>1
  <2>3. /\ RowAt(d) \in Nat /\ RowAt(row0 + d) = ra + RowAt(d) /\ RowAt(PageOf(v)) = RowAt(sp) + RowAt(d)
        /\ RowAt(row0 + d) <= rl /\ RowAt(sp) \in Nat
    <3>1. RowAt(sp) \in Nat /\ RowAt(d) \in Nat /\ RowAt(sp + d) = RowAt(sp) + RowAt(d) /\ RowAt(row0 + d) = RowAt(row0) + RowAt(d)
      BY Rows
    <3>2. row0 + d \in Nat /\ cq - 1 \in Nat
      BY <1>14
    <3>3. RowAt(row0 + d) <= RowAt(cq - 1)
      BY <2>1, <3>2, Rows
    <3>. QED  BY <1>14, <2>1, <3>1, <3>3
  <2>4. WordOf(a) = RowAt(sp) + ElOf(a) /\ WordOf(v) = RowAt(PageOf(v)) + ElOf(v) /\ WordOf(v) \in Nat
    BY <1>2, WordIsInRow, Places
  <2>5. ElOf(a) \in 0..E - 1 /\ ElOf(v) \in 0..E - 1
    BY <1>7, Places
  <2>6. k \in S /\ k \in Nat
    <3>1. k \in Nat /\ k < rp
      <4>1. PICK x, el \in Nat : x = RowAt(row0 + d) /\ el = ElOf(v) /\ k = x + el /\ x <= rl /\ el < E
        BY <1>14, <2>2, <2>3, <2>5
      <4>. QED  BY <1>7, <1>14, <4>1
    <3>. QED  BY <1>7, <1>10, <1>14, <3>1
  <2>7. WordOf(v) = WordOf(a) + (k - index)
    <3>1. PICK ea, ev, x, y \in Nat : ea = ElOf(a) /\ ev = ElOf(v) /\ x = RowAt(sp) /\ y = RowAt(d)
      BY <2>3, <2>5
    <3>2. index = ra + ea /\ k = ra + y + ev
      BY <1>12, <1>14, <2>2, <2>3, <3>1
    <3>3. WordOf(a) = x + ea /\ WordOf(v) = x + y + ev
      BY <2>3, <2>4, <3>1
    <3>. QED  BY <1>14, <3>1, <3>2, <3>3
  <2>8. /\ a <= v <=> WordOf(a) < WordOf(v) \/ (WordOf(a) = WordOf(v) /\ BitOf(a) <= BitOf(v))
        /\ v <= l <=> WordOf(v) < WordOf(l) \/ (WordOf(v) = WordOf(l) /\ BitOf(v) <= BitOf(l))
    BY PlacesOrder
  <2>9. v \in R <=> a <= v /\ v < e
    BY <1>1, <1>34 DEF ValuesOf
  <2>10. CASE k \in index..index + n - 1
    BY <1>13, <2>2, <2>6, <2>7, <2>9, <2>10
  <2>11. CASE k \notin index..index + n - 1
    <3>1. u.mBitmaps[k] = s.mBitmaps[k]
      BY <1>13, <2>6, <2>11
    <3>2. ~(a <= v /\ v <= l)
      <4>1. PICK wa, wl, wv \in Nat : wa = WordOf(a) /\ wl = WordOf(l) /\ wv = WordOf(v)
        BY <1>12, <2>4
      <4>2. wv = wa + (k - index) /\ n = wl - wa + 1
        BY <1>12, <2>7, <4>1
      <4>3. ~(index <= k /\ k <= index + n - 1)
        BY <2>6, <2>11
      <4>4. ~(wa <= wv /\ wv <= wl)
        BY <2>6, <4>1, <4>2, <4>3
      <4>5. ASSUME a <= v, v <= l PROVE wa <= wv /\ wv <= wl
        BY <2>8, <4>1, <4>5
      <4>. QED  BY <4>4, <4>5
    <3>3. v \notin R
      BY <1>1, <2>9, <3>2
    <3>. QED  BY <2>2, <2>6, <3>1, <3>3
  <2>. QED  BY <2>10, <2>11
<1>17. ASSUME NEW x \in S, x < ra \/ x >= rp PROVE u.mBitmaps[x] = s.mBitmaps[x]
  <2>1. x \notin index..index + n - 1
    <3>1. x \in Nat
      BY <1>10
    <3>2. rp \in Nat /\ ra \in Nat
      BY <1>7, <1>14
    <3>3. ~(index <= x /\ x <= index + n - 1)
      BY <1>15, <1>17, <3>1, <3>2
    <3>. QED  BY <3>1, <3>3
  <2>. QED  BY <1>13, <2>1
<1>18. ASSUME NEW x \in S, x >= RowAt(cp) PROVE s.mBitmaps[x] = {}
  BY <1>7, <1>18, <1>33 DEF Laid
<1>19. ASSUME zero # noZeroPage, NEW j \in 0..E - 1
       PROVE  zero + j \in S /\ s.mBitmaps[zero + j] = {} /\ u.mBitmaps[zero + j] = {}
  <2>1. zero \in Nat /\ zero + E <= ra
    BY <1>14, <1>19, <1>31
  <2>2. zero + j \in S /\ zero + j < ra
    <3>1. PICK z, x \in Nat : z = zero /\ x = z + j /\ j < E /\ z + E <= ra
      BY <1>7, <1>19, <2>1
    <3>2. x < ra
      BY <1>14, <3>1
    <3>3. x <= D - 1
      BY <1>7, <1>10, <1>14, <3>1, <3>2
    <3>. QED  BY <1>10, <3>1, <3>2, <3>3
  <2>3. s.mBitmaps[zero + j] = {}
    <3>1. CASE s.mZeroPageIndex = noZeroPage
      <4>1. zero = RowAt(cp) /\ zero + j >= RowAt(cp)
        BY <1>19, <1>31, <2>1, <3>1
      <4>. QED  BY <1>18, <2>2, <4>1
    <3>2. CASE s.mZeroPageIndex # noZeroPage
      BY <1>7, <1>19, <1>31, <3>2 DEF Laid
    <3>. QED  BY <3>1, <3>2
  <2>. QED  BY <1>17, <2>2, <2>3
<1>20. Laid(u, N, ep + 1)
  <2>1. PICK q \in Nat : q = ep + 1 /\ q # 0 /\ q - 1 = ep /\ q - 2 = ep - 1
    BY <1>2
  <2>2. cq # 0 /\ u.mIndices[ep] = rl
    <3>1. ep \in sp..ep
      BY <1>2
    <3>2. t.mIndices[ep] = RowAt(row0 + (ep - sp))
      BY <1>32, <3>1
    <3>3. cq # 0
      BY <1>2, <1>8
    <3>. QED  BY <1>13, <1>14, <3>2, <3>3
  <2>3. \A p \in 0..ep - 1 : u.mIndices[p] + E <= rl
    <3> SUFFICES ASSUME NEW p \in 0..ep - 1 PROVE t.mIndices[p] + E <= rl
      BY <1>13
    <3>1. CASE p < sp
      <4>1. p \in 0..sp - 1
        BY <1>2, <3>1
      <4>2. t.mIndices[p] \in Nat /\ t.mIndices[p] + E <= ra
        BY <1>14, <1>31, <4>1
      <4>. QED  BY <1>7, <1>14, <4>2
    <3>2. CASE ~(p < sp)
      <4>1. PICK d \in Nat : d = row0 + (p - sp) /\ d < cq - 1 /\ t.mIndices[p] = RowAt(d)
        <5>1. p \in sp..ep /\ p < ep /\ cq - 1 = row0 + (ep - sp)
          BY <1>2, <1>14, <3>2
        <5>2. t.mIndices[p] = RowAt(row0 + (p - sp)) /\ row0 + (p - sp) \in Nat
          BY <1>32, <5>1
        <5>3. row0 + (p - sp) < cq - 1
          BY <1>2, <5>1
        <5>. QED  BY <5>2, <5>3
      <4>2. cq - 1 \in Nat
        BY <1>14
      <4>3. RowAt(d) + E <= RowAt(cq - 1)
        BY <1>7, <4>1, <4>2, Rows
      <4>. QED  BY <1>14, <4>1, <4>3
    <3>. QED  BY <3>1, <3>2
  <2>4. zero # noZeroPage => zero + E <= rl
    BY <1>7, <1>14, <1>31
  <2>5. zero # noZeroPage => \A j \in 0..E - 1 : u.mBitmaps[zero + j] = {}
    BY <1>19
  <2>6. \A x \in S : x >= rp => u.mBitmaps[x] = {}
    <3> SUFFICES ASSUME NEW x \in S, x >= rp PROVE u.mBitmaps[x] = {}
      OBVIOUS
    <3>1. RowAt(cp) <= rp /\ RowAt(cp) \in Nat
      <4>1. RowAt(cp) <= RowAt(cq) /\ RowAt(cp) \in Nat
        BY <1>7, <1>8, Rows
      <4>. QED  BY <1>14, <4>1
    <3>2. x >= RowAt(cp)
      BY <1>7, <1>10, <1>14, <3>1
    <3>. QED  BY <1>17, <1>18, <3>2
  <2>7. u.currentPage = cq /\ u.mZeroPageIndex = zero /\ u \in Building(N, q) /\ cq <= N
    BY <1>8, <1>13, <2>1
  <2>8. S = 0..N * ElsPerPage - 1
    BY <1>33
  <2>9. RowAt(u.currentPage - 1) = rl /\ RowAt(u.currentPage) = rp
    BY <1>14, <2>7
  <2>10. Laid(u, N, q)
    BY <1>7, <2>1, <2>2, <2>3, <2>4, <2>5, <2>6, <2>7, <2>8, <2>9 DEF Laid
  <2>. QED  BY <2>1, <2>10
<1>21. ASSUME NEW v \in Nat
       PROVE  /\ v \in A \cup R => PageOf(v) < ep + 1
              /\ PageOf(v) < ep + 1 =>
                    (BitOf(v) \in u.mBitmaps[u.mIndices[PageOf(v)] + ElOf(v)] <=> v \in A \cup R)
  <2>1. PICK p \in Nat, el \in 0..E - 1 : p = PageOf(v) /\ el = ElOf(v)
    BY <1>7, Places
  <2>2. /\ v \in A => p < m
        /\ p < m => (BitOf(v) \in s.mBitmaps[s.mIndices[p] + el] <=> v \in A)
    BY <2>1 DEF HoldsAll
  <2>3. m <= ep + 1
    BY <1>2, <1>4, <1>6
  <2>4. v \in R => sp <= p /\ p <= ep
    <3>1. ASSUME v \in R PROVE a <= v /\ v <= l
      BY <1>1, <1>34, <3>1 DEF ValuesOf
    <3>2. v \in R => PageOf(a) <= PageOf(v) /\ PageOf(v) <= PageOf(l)
      BY <3>1, PlacesInOrder
    <3>. QED  BY <1>2, <2>1, <3>2
  <2>5. v \in A \cup R => p < ep + 1
    BY <1>2, <1>4, <2>1, <2>2, <2>3, <2>4
  <2>6. CASE p \in sp..ep
    <3>1. PICK k \in S : k = t.mIndices[p] + el /\ (BitOf(v) \in u.mBitmaps[k] <=> BitOf(v) \in s.mBitmaps[k] \/ v \in R)
      BY <1>16, <2>1, <2>6
    <3>2. BitOf(v) \in s.mBitmaps[k] <=> v \in A
      <4>1. CASE p < m
        <5>1. sp < m /\ p = sp /\ p = m - 1 /\ row0 = cp - 1 /\ m # 0
          <6>1. sp <= p /\ p < m /\ m # 0
            BY <1>4, <2>1, <2>6, <4>1
          <6>2. sp < m
            BY <1>2, <1>4, <2>1, <6>1
          <6>3. sp = m - 1 /\ row0 = cp - 1
            BY <1>8, <6>2
          <6>. QED  BY <1>2, <1>4, <2>1, <6>1, <6>2, <6>3
        <5>2. t.mIndices[p] = RowAt(row0)
          <6>1. t.mIndices[p] = RowAt(row0 + (p - sp)) /\ row0 + (p - sp) = row0
            BY <1>2, <1>32, <2>6, <5>1
          <6>. QED  BY <6>1
        <5>3. s.mIndices[p] = RowAt(cp - 1)
          BY <1>7, <5>1 DEF Laid
        <5>. QED  BY <2>2, <3>1, <4>1, <5>1, <5>2, <5>3
      <4>2. CASE ~(p < m)
        <5>1. PICK d : d = RowAt(row0 + (p - sp)) /\ d = t.mIndices[p] /\ d >= RowAt(cp) /\ d \in Nat
          BY <1>32, <2>6, <4>2, Rows
        <5>2. k >= RowAt(cp)
          <6>1. RowAt(cp) \in Nat /\ k = d + el
            BY <1>7, <3>1, <5>1, Rows
          <6>. QED  BY <1>7, <2>1, <5>1, <6>1
        <5>3. s.mBitmaps[k] = {}
          BY <1>18, <5>2
        <5>. QED  BY <2>2, <4>2, <5>3
      <4>. QED  BY <4>1, <4>2
    <3>. QED  BY <1>13, <2>1, <2>5, <3>1, <3>2
  <2>7. CASE p < sp
    <3>1. p \in 0..sp - 1 /\ v \notin R
      BY <1>2, <2>1, <2>4, <2>7
    <3>2. PICK i \in Nat : i = t.mIndices[p] /\ i + E <= ra
      BY <1>14, <1>31, <3>1
    <3>3. i + el \in S /\ i + el < ra
      <4>1. i + el \in Nat /\ i + el < ra
        <5>1. el \in Nat /\ el < E
          BY <1>7, <2>1
        <5>. QED  BY <1>7, <1>14, <3>2, <5>1
      <4>2. ra < D
        BY <1>7, <1>10, <1>14
      <4>. QED  BY <1>10, <1>14, <4>1, <4>2
    <3>4. u.mBitmaps[i + el] = s.mBitmaps[i + el]
      BY <1>17, <3>3
    <3>5. BitOf(v) \in s.mBitmaps[i + el] <=> v \in A
      <4>1. CASE p < m
        BY <1>31, <2>2, <3>1, <3>2, <4>1
      <4>2. CASE ~(p < m)
        <5>1. i = zero /\ zero # noZeroPage
          BY <1>31, <3>1, <3>2, <4>2
        <5>2. s.mBitmaps[i + el] = {}
          BY <1>19, <2>1, <5>1
        <5>. QED  BY <2>2, <4>2, <5>2
      <4>. QED  BY <4>1, <4>2
    <3>. QED  BY <1>13, <2>1, <2>5, <3>1, <3>2, <3>4, <3>5
  <2>8. CASE p > ep
    BY <1>2, <2>1, <2>5, <2>8
  <2>. QED  BY <1>2, <2>1, <2>6, <2>7, <2>8
<1>22. HoldsAll(u, ep + 1, A \cup R)
  BY <1>21 DEF HoldsAll
<1>. QED  BY <1>1, <1>2, <1>3, <1>7, <1>9, <1>11, <1>13, <1>20, <1>22, <1>34 DEF Extended

(* What is found by going on from state to state, each of the states in    *)
(* the set of its number.                                                  *)
IsIteration(a, n, first, step, kinds, g) ==
  /\ g = [k \in a..n |-> IF k = a THEN first ELSE step[k][g[k - 1]]]
  /\ \A k \in a..n : g[k] \in kinds[k]

(* There is such a function, where each step leads into the next set.      *)
LEMMA IterationExists ==
  ASSUME NEW a \in Nat, NEW n \in Nat, a <= n, NEW kinds, NEW first \in kinds[a], NEW step,
         \A k \in a..n : k # a => \A x \in kinds[k - 1] : step[k][x] \in kinds[k]
  PROVE  \E g : IsIteration(a, n, first, step, kinds, g)
<1> DEFINE bad == {m \in a..n : ~ \E g : IsIteration(a, m, first, step, kinds, g)}
<1>1. SUFFICES ASSUME bad # {} PROVE FALSE
  <2>1. n \in a..n
    OBVIOUS
  <2>. QED  BY <2>1
<1>2. PICK m \in bad : \A y \in bad : m <= y
  BY <1>1, LeastExists, bad \in SUBSET Nat
<1>3. m \in a..n /\ m \in Nat /\ ~ \E g : IsIteration(a, m, first, step, kinds, g)
  BY <1>2
<1>4. CASE m = a
  <2> DEFINE g == [k \in a..a |-> first]
  <2>1. \A k \in a..a : k = a
    OBVIOUS
  <2>2. g = [k \in a..a |-> IF k = a THEN first ELSE step[k][g[k - 1]]]
    BY <2>1
  <2>3. \A k \in a..a : g[k] \in kinds[k]
    BY <2>1
  <2> HIDE DEF g
  <2>4. IsIteration(a, a, first, step, kinds, g)
    BY <2>2, <2>3 DEF IsIteration
  <2>. QED  BY <1>3, <1>4, <2>4
<1>5. CASE m # a
  <2>1. m - 1 \in a..n /\ m - 1 \in a..m - 1 /\ ~ (m <= m - 1)
    BY <1>3, <1>5
  <2>2. PICK f : IsIteration(a, m - 1, first, step, kinds, f)
    <3>1. m - 1 \notin bad
      BY <1>2, <2>1
    <3>. QED  BY <2>1, <3>1
  <2>3. \A k \in a..m - 1 : f[k] = (IF k = a THEN first ELSE step[k][f[k - 1]]) /\ f[k] \in kinds[k]
    BY <2>2 DEF IsIteration
  <2> DEFINE g == [k \in a..m |-> IF k = m THEN step[m][f[m - 1]] ELSE f[k]]
  <2>4. \A k \in a..m - 1 : g[k] = f[k]
    BY <1>3
  <2>5. g[m] = step[m][f[m - 1]] /\ g[m - 1] = f[m - 1]
    BY <1>3, <2>1
  <2>6. \A k \in a..m : k = m \/ (k \in a..m - 1 /\ (k # a => k - 1 \in a..m - 1))
    BY <1>3
  <2>7. g = [k \in a..m |-> g[k]]
    OBVIOUS
  <2> HIDE DEF g
  <2>8. step[m][f[m - 1]] \in kinds[m]
    BY <1>3, <1>5, <2>1, <2>3
  <2>9. \A k \in a..m : g[k] = (IF k = a THEN first ELSE step[k][g[k - 1]]) /\ g[k] \in kinds[k]
    <3> SUFFICES ASSUME NEW k \in a..m
                 PROVE  g[k] = (IF k = a THEN first ELSE step[k][g[k - 1]]) /\ g[k] \in kinds[k]
      OBVIOUS
    <3>1. CASE k = m
      BY <1>5, <2>5, <2>8, <3>1
    <3>2. CASE k # m
      <4>1. k \in a..m - 1 /\ (k # a => k - 1 \in a..m - 1)
        BY <2>6, <3>2
      <4>. QED  BY <2>3, <2>4, <4>1
    <3>. QED  BY <3>1, <3>2
  <2>10. IsIteration(a, m, first, step, kinds, g)
    BY <2>7, <2>9 DEF IsIteration
  <2>. QED  BY <1>3, <2>10
<1>. QED  BY <1>4, <1>5


(* What holds first and from one number to the next holds of all.          *)
LEMMA ReachesAll ==
  ASSUME NEW n \in Nat, NEW T, 0 \in T, \A k \in 1..n : k - 1 \in T => k \in T
  PROVE  \A k \in 0..n : k \in T
<1> DEFINE bad == {k \in 0..n : k \notin T}
<1>1. SUFFICES ASSUME bad # {} PROVE FALSE
  OBVIOUS
<1>2. PICK k \in bad : \A y \in bad : k <= y
  BY <1>1, LeastExists, bad \in SUBSET Nat
<1>3. k \in 0..n /\ k \notin T
  BY <1>2
<1>4. k # 0
  BY <1>3
<1>5. k \in 1..n /\ k - 1 \in 0..n /\ ~(k <= k - 1)
  BY <1>3, <1>4
<1>6. k - 1 \in T
  BY <1>2, <1>5
<1>. QED  BY <1>3, <1>5, <1>6

IsRangeList(ranges) ==
  /\ ranges \in Seq(Nat \X Nat)
  /\ Len(ranges) \in Nat /\ DOMAIN ranges = 1..Len(ranges)
  /\ \A k \in 1..Len(ranges) : IsRange(ranges[k])
  /\ \A k \in 2..Len(ranges) : ranges[k - 1][2] <= ranges[k][1]
Values(ranges, k) == {v \in Nat : \E i \in 1..k : ranges[i][1] <= v /\ v < ranges[i][2]}
\* The pages of the first k ranges end here.
PagesOf(ranges, k) == IF k = 0 THEN 0 ELSE PageOf(ranges[k][2] - 1) + 1

(* A range begins on the last page of the one before it or behind it.      *)
LEMMA PagesGoOn ==
  ASSUME NEW ranges, IsRangeList(ranges), NEW k \in 1..Len(ranges)
  PROVE  /\ k - 1 \in 0..Len(ranges) /\ IsRange(ranges[k])
         /\ PagesOf(ranges, k) \in Nat \ {0} /\ PagesOf(ranges, k - 1) \in Nat
         /\ PagesOf(ranges, k) = PageOf(ranges[k][2] - 1) + 1
         /\ PagesOf(ranges, k - 1) # 0 => PageOf(ranges[k][1]) >= PagesOf(ranges, k - 1) - 1
         /\ PageOf(ranges[k][1]) \in Nat /\ PageOf(ranges[k][2] - 1) \in Nat
         /\ PageOf(ranges[k][1]) <= PageOf(ranges[k][2] - 1)
<1>1. PICK n \in Nat : n = Len(ranges) /\ k \in 1..n
  BY DEF IsRangeList
<1>2. IsRange(ranges[k])
  BY DEF IsRangeList
<1>3. PICK a, l \in Nat : a = ranges[k][1] /\ l = ranges[k][2] - 1 /\ a <= l
  BY <1>2 DEF IsRange
<1>4. PageOf(a) \in Nat /\ PageOf(l) \in Nat /\ PageOf(a) <= PageOf(l)
  <2>1. PageOf(a) \in Nat /\ PageOf(l) \in Nat
    BY Places
  <2>. QED  BY <1>3, <2>1, PlacesInOrder
<1>5. k # 0 /\ k - 1 \in 0..n
  BY <1>1
<1>6. PagesOf(ranges, k) = PageOf(l) + 1
  BY <1>3, <1>5 DEF PagesOf
<1>7. CASE k = 1
  <2>1. PagesOf(ranges, k - 1) = 0
    BY <1>7 DEF PagesOf
  <2>. QED  BY <1>1, <1>2, <1>3, <1>4, <1>5, <1>6, <2>1
<1>8. CASE k # 1
  <2>1. k \in 2..n /\ k - 1 \in 1..n /\ k - 1 # 0
    BY <1>1, <1>8
  <2>2. IsRange(ranges[k - 1]) /\ ranges[k - 1][2] <= ranges[k][1]
    BY <1>1, <2>1 DEF IsRangeList
  <2>3. PICK e \in Nat : e = ranges[k - 1][2] - 1 /\ e <= a
    BY <1>3, <2>2 DEF IsRange
  <2>4. PageOf(e) \in Nat
    BY Places
  <2>5. PageOf(e) <= PageOf(a)
    BY <2>3, PlacesInOrder
  <2>6. PagesOf(ranges, k - 1) = PageOf(e) + 1
    BY <2>1, <2>3 DEF PagesOf
  <2>. QED  BY <1>1, <1>2, <1>3, <1>4, <1>5, <1>6, <2>4, <2>5, <2>6
<1>. QED  BY <1>7, <1>8

Counted(m) == [nPages : Nat, haveZeroPage : BOOLEAN, nonzeroPageEnd : {m}]

(* Counting the pages of a range (calcNumPages).                           *)
LEMMA PagesAreCounted ==
  ASSUME NEW m \in Nat, NEW c \in Counted(m), NEW r, IsRange(r), m # 0 => PageOf(r[1]) >= m - 1
  PROVE  /\ CountPages(c, r) \in Counted(PageOf(r[2] - 1) + 1)
         /\ c.nPages <= CountPages(c, r).nPages
<1>1. PICK a, l \in Nat : a = r[1] /\ l = r[2] - 1 /\ a <= l
  BY DEF IsRange
<1>2. PICK sp, ep \in Nat : sp = PageOf(r[1]) /\ ep = PageOf(r[2] - 1) /\ sp <= ep
  <2>1. PageOf(a) \in Nat /\ PageOf(l) \in Nat
    BY Places
  <2>2. PageOf(a) <= PageOf(l)
    BY <1>1, PlacesInOrder
  <2>. QED  BY <1>1, <2>1, <2>2
<1>3. PICK n \in Nat, h \in BOOLEAN : n = c.nPages /\ h = c.haveZeroPage /\ c.nonzeroPageEnd = m
  BY DEF Counted
<1> DEFINE more == (ep - sp) + (IF sp >= m THEN 1 ELSE 0) + (IF sp > m /\ ~h THEN 1 ELSE 0)
<1>4. more \in Nat
  BY <1>2
<1>5. CountPages(c, r) = [nPages |-> n + (ep - sp) + (IF sp >= m THEN 1 ELSE 0) + (IF sp > m /\ ~h THEN 1 ELSE 0),
                          haveZeroPage |-> h \/ sp > m, nonzeroPageEnd |-> ep + 1]
  BY <1>2, <1>3 DEF CountPages
<1>6. n + (ep - sp) + (IF sp >= m THEN 1 ELSE 0) + (IF sp > m /\ ~h THEN 1 ELSE 0) = n + more
  BY <1>2
<1> HIDE DEF more
<1>7. n + more \in Nat /\ n <= n + more
  BY <1>4
<1>. QED  BY <1>2, <1>3, <1>5, <1>6, <1>7 DEF Counted

(* The loop that builds the set takes the rows that were counted for it.   *)
LEMMA CountedAreTaken ==
  ASSUME NEW N \in Nat, NEW m, NEW s, Laid(s, N, m), NEW c \in Counted(m), NEW r, IsRange(r),
         m # 0 => PageOf(r[1]) >= m - 1,
         c.nPages = s.currentPage, c.haveZeroPage <=> s.mZeroPageIndex # noZeroPage
  PROVE  /\ TakePages(s, r).currentPage = CountPages(c, r).nPages
         /\ CountPages(c, r).haveZeroPage <=> TakePages(s, r).mZeroPageIndex # noZeroPage
<1>1. PICK a, l \in Nat : a = r[1] /\ l = r[2] - 1 /\ a <= l
  BY DEF IsRange
<1>2. PICK sp, ep \in Nat : sp = PageOf(r[1]) /\ ep = PageOf(r[2] - 1) /\ sp <= ep
  <2>1. PageOf(a) \in Nat /\ PageOf(l) \in Nat
    BY Places
  <2>2. PageOf(a) <= PageOf(l)
    BY <1>1, PlacesInOrder
  <2>. QED  BY <1>1, <2>1, <2>2
<1>3. m \in Nat /\ s \in Building(N, m) /\ (m # 0 => s.currentPage # 0)
  BY DEF Laid
<1>4. PICK t : t = TakePages(s, r)
  OBVIOUS
<1>5. PICK row0 \in Nat, zero \in Nat \cup {noZeroPage} : Taken(N, m, s, t, sp, ep, row0, zero)
  BY <1>2, <1>3, <1>4, PagesAreTaken
<1>6. PICK cp \in Nat, h \in BOOLEAN : /\ cp = s.currentPage /\ cp = c.nPages /\ h = c.haveZeroPage
                                       /\ c.nonzeroPageEnd = m
                                       /\ h <=> s.mZeroPageIndex # noZeroPage
  BY <1>3 DEF Counted, Building
<1>7. CountPages(c, r) = [nPages |-> cp + (ep - sp) + (IF sp >= m THEN 1 ELSE 0) + (IF sp > m /\ ~h THEN 1 ELSE 0),
                          haveZeroPage |-> h \/ sp > m, nonzeroPageEnd |-> ep + 1]
  BY <1>2, <1>6 DEF CountPages
<1>8. /\ t.currentPage = row0 + (ep - sp) + 1 /\ t.mZeroPageIndex = zero
      /\ zero = (IF sp > m /\ ~h THEN RowAt(cp) ELSE s.mZeroPageIndex)
      /\ row0 = (IF sp < m THEN cp - 1 ELSE IF sp > m /\ ~h THEN cp + 1 ELSE cp)
  BY <1>5, <1>6 DEF Taken
<1>9. RowAt(cp) # noZeroPage
  <2>1. RowAt(cp) \in Nat
    BY Rows
  <2>. QED  BY <2>1 DEF noZeroPage
<1>10. t.currentPage = CountPages(c, r).nPages
  BY <1>2, <1>3, <1>6, <1>7, <1>8
<1>11. h \/ sp > m <=> zero # noZeroPage
  BY <1>2, <1>3, <1>6, <1>8, <1>9
<1>12. CountPages(c, r).haveZeroPage = (h \/ sp > m)
  BY <1>7
<1>13. TakePages(s, r).mZeroPageIndex = zero
  BY <1>4, <1>8
<1>14. CountPages(c, r).haveZeroPage <=> TakePages(s, r).mZeroPageIndex # noZeroPage
  BY <1>11, <1>12, <1>13, Zenon
<1>. QED  BY <1>4, <1>10, <1>14

\* The counts of the first ranges, and the set that is built of them.
Counts(ranges) ==
  CHOOSE c : c = [k \in 0..Len(ranges) |->
                    IF k = 0 THEN [nPages |-> 0, haveZeroPage |-> FALSE, nonzeroPageEnd |-> 0]
                    ELSE CountPages(c[k - 1], ranges[k])]
Builds(ranges, N) ==
  CHOOSE b : b = [k \in 0..Len(ranges) |->
                    IF k = 0 THEN Blank(N) ELSE SetBits(TakePages(b[k - 1], ranges[k]), ranges[k])]

(* The counts of calcNumPages for the first ranges.                        *)
LEMMA CountsAre ==
  ASSUME NEW ranges, IsRangeList(ranges)
  PROVE  /\ calcNumPages(ranges) = Counts(ranges)[Len(ranges)].nPages
         /\ Counts(ranges)[0] = [nPages |-> 0, haveZeroPage |-> FALSE, nonzeroPageEnd |-> 0]
         /\ \A k \in 1..Len(ranges) : Counts(ranges)[k] = CountPages(Counts(ranges)[k - 1], ranges[k])
         /\ \A k \in 0..Len(ranges) : /\ Counts(ranges)[k] \in Counted(PagesOf(ranges, k))
                                      /\ Counts(ranges)[k].nPages <= calcNumPages(ranges)
<1>1. PICK n \in Nat : n = Len(ranges)
  BY DEF IsRangeList
<1> DEFINE first == [nPages |-> 0, haveZeroPage |-> FALSE, nonzeroPageEnd |-> 0]
           kinds == [k \in 0..n |-> Counted(PagesOf(ranges, k))]
           step == [k \in 0..n |-> [x \in Counted(PagesOf(ranges, k - 1)) |-> CountPages(x, ranges[k])]]
           f == CHOOSE f : f = [k \in 0..n |-> IF k = 0 THEN first ELSE CountPages(f[k - 1], ranges[k])]
<1>2. first \in kinds[0]
  <2>1. PagesOf(ranges, 0) = 0
    BY DEF PagesOf
  <2>. QED  BY <2>1 DEF Counted
<1>3. \A k \in 0..n : k # 0 => k \in 1..n /\ k - 1 \in 0..n /\ ~(k <= k - 1)
  OBVIOUS
<1>4. ASSUME NEW k \in 1..n, NEW x \in Counted(PagesOf(ranges, k - 1))
      PROVE  /\ CountPages(x, ranges[k]) \in Counted(PagesOf(ranges, k))
             /\ x.nPages <= CountPages(x, ranges[k]).nPages
  <2>1. /\ IsRange(ranges[k]) /\ PagesOf(ranges, k - 1) \in Nat
        /\ PagesOf(ranges, k) = PageOf(ranges[k][2] - 1) + 1
        /\ PagesOf(ranges, k - 1) # 0 => PageOf(ranges[k][1]) >= PagesOf(ranges, k - 1) - 1
    BY <1>1, PagesGoOn
  <2>. QED  BY <2>1, PagesAreCounted
<1>5. \A k \in 0..n : k # 0 => \A x \in kinds[k - 1] :
         step[k][x] \in kinds[k] /\ step[k][x] = CountPages(x, ranges[k])
  <2> SUFFICES ASSUME NEW k \in 0..n, k # 0, NEW x \in kinds[k - 1]
               PROVE  step[k][x] \in kinds[k] /\ step[k][x] = CountPages(x, ranges[k])
    OBVIOUS
  <2>1. k \in 1..n /\ k - 1 \in 0..n
    BY <1>3
  <2>2. x \in Counted(PagesOf(ranges, k - 1))
    BY <2>1
  <2>3. CountPages(x, ranges[k]) \in Counted(PagesOf(ranges, k))
    BY <1>4, <2>1, <2>2
  <2>. QED  BY <2>1, <2>2, <2>3
<1> HIDE DEF step, kinds, first
<1>6. PICK g : IsIteration(0, n, first, step, kinds, g)
  <2>1. 0 \in Nat /\ 0 <= n
    BY <1>1
  <2>. QED  BY <1>1, <1>2, <1>5, <2>1, IterationExists
<1>7. g = [k \in 0..n |-> IF k = 0 THEN first ELSE CountPages(g[k - 1], ranges[k])]
  BY <1>3, <1>5, <1>6 DEF IsIteration
<1>8. f = [k \in 0..n |-> IF k = 0 THEN first ELSE CountPages(f[k - 1], ranges[k])]
  BY <1>7
<1>9. Counts(ranges) = f /\ calcNumPages(ranges) = f[n].nPages
  BY <1>1 DEF Counts, calcNumPages, first
<1> HIDE DEF f
<1>10. f[0] = first /\ \A k \in 1..n : k \in 0..n /\ k # 0 /\ f[k] = CountPages(f[k - 1], ranges[k])
  BY <1>8
<1>11. \A k \in 0..n : f[k] \in kinds[k]
  <2> DEFINE T == {k \in 0..n : f[k] \in kinds[k]}
  <2>1. 0 \in T
    BY <1>2, <1>10
  <2>2. ASSUME NEW k \in 1..n, k - 1 \in T PROVE k \in T
    <3>1. k \in 0..n /\ k # 0 /\ f[k - 1] \in kinds[k - 1]
      BY <2>2
    <3>2. step[k][f[k - 1]] \in kinds[k] /\ step[k][f[k - 1]] = CountPages(f[k - 1], ranges[k])
      BY <1>5, <3>1
    <3>. QED  BY <1>10, <3>1, <3>2
  <2> HIDE DEF T
  <2>3. \A k \in 0..n : k \in T
    BY <2>1, <2>2, ReachesAll
  <2>. QED  BY <2>3 DEF T
<1>12. \A k \in 0..n : f[k] \in Counted(PagesOf(ranges, k)) /\ f[k].nPages \in Nat
  BY <1>11 DEF kinds, Counted
<1>13. \A k \in 0..n : f[k].nPages <= f[n].nPages
  <2> DEFINE T == {k \in 0..n : \A j \in 0..k : f[j].nPages <= f[k].nPages}
  <2>1. 0 \in T
    <3>1. \A j \in 0..0 : j = 0
      OBVIOUS
    <3>2. f[0].nPages <= f[0].nPages /\ 0 \in 0..n
      BY <1>12
    <3>. QED  BY <3>1, <3>2
  <2>2. ASSUME NEW k \in 1..n, k - 1 \in T PROVE k \in T
    <3>1. k \in 0..n /\ k - 1 \in 0..n
      OBVIOUS
    <3>2. f[k - 1].nPages <= f[k].nPages
      BY <1>4, <1>10, <1>12, <3>1
    <3>3. ASSUME NEW j \in 0..k PROVE f[j].nPages <= f[k].nPages
      <4>1. CASE j = k
        BY <1>12, <3>1, <4>1
      <4>2. CASE j # k
        <5>1. j \in 0..k - 1 /\ j \in 0..n
          BY <4>2
        <5>2. f[j].nPages <= f[k - 1].nPages
          BY <2>2, <5>1
        <5>. QED  BY <1>12, <3>1, <3>2, <5>1, <5>2
      <4>. QED  BY <4>1, <4>2
    <3>. QED  BY <3>1, <3>3
  <2> HIDE DEF T
  <2>3. n \in T
    BY <2>1, <2>2, ReachesAll
  <2>. QED  BY <2>3 DEF T
<1>. QED  BY <1>1, <1>9, <1>10, <1>12, <1>13 DEF first

\* A set built of the first k ranges.
BuiltOf(ranges, k, N) ==
  {s \in Building(N, PagesOf(ranges, k)) :
     /\ Laid(s, N, PagesOf(ranges, k)) /\ HoldsAll(s, PagesOf(ranges, k), Values(ranges, k))
     /\ s.currentPage = Counts(ranges)[k].nPages
     /\ Counts(ranges)[k].haveZeroPage <=> s.mZeroPageIndex # noZeroPage}

(* Before the first range the set is blank.                                *)
LEMMA BlankIsBuilt ==
  ASSUME NEW ranges, IsRangeList(ranges), NEW N \in Nat
  PROVE  Blank(N) \in BuiltOf(ranges, 0, N)
<1>1. PICK s : s = Blank(N)
  OBVIOUS
<1>2. PagesOf(ranges, 0) = 0 /\ Values(ranges, 0) = {}
  BY DEF PagesOf, Values
<1>3. PICK D \in Nat : D = N * ElsPerPage
  BY Sizes
<1>4. s = [mIndices |-> <<>>, mZeroPageIndex |-> noZeroPage,
           mBitmaps |-> [k \in 0 .. D - 1 |-> {}],
           nonzeroPageEnd |-> 0, currentPage |-> 0, firstRow |-> 0]
  BY <1>1, <1>3 DEF Blank
<1>5. s \in Building(N, 0)
  <2>1. <<>> \in [0..0 - 1 -> Nat]
    <3>1. 0..0 - 1 = {}
      OBVIOUS
    <3>. QED  BY <3>1
  <2>2. [k \in 0 .. D - 1 |-> {}] \in [0..D - 1 -> Bits]
    BY DEF Bits
  <2>. QED  BY <1>3, <1>4, <2>1, <2>2 DEF Building
<1>6. \A x \in 0..D - 1 : s.mBitmaps[x] = {}
  BY <1>4
<1>7. s.currentPage = 0 /\ s.mZeroPageIndex = noZeroPage
  BY <1>4
<1>8. Laid(s, N, 0)
  <2>1. 0..0 - 2 = {}
    OBVIOUS
  <2>. QED  BY <1>3, <1>5, <1>6, <1>7, <2>1 DEF Laid
<1>9. HoldsAll(s, 0, {})
  <2>1. \A v \in Nat : ~(PageOf(v) < 0)
    <3> SUFFICES ASSUME NEW v \in Nat PROVE ~(PageOf(v) < 0)
      OBVIOUS
    <3>1. PageOf(v) \in Nat
      BY Places
    <3>. QED  BY <3>1
  <2>. QED  BY <2>1 DEF HoldsAll
<1>10. Counts(ranges)[0] = [nPages |-> 0, haveZeroPage |-> FALSE, nonzeroPageEnd |-> 0]
  BY CountsAre
<1>. QED  BY <1>1, <1>2, <1>5, <1>7, <1>8, <1>9, <1>10 DEF BuiltOf

(* One more range is built (the loop of initFromRanges).                   *)
LEMMA BuildingGoesOn ==
  ASSUME NEW ranges, IsRangeList(ranges), NEW N \in Nat, N = calcNumPages(ranges),
         NEW k \in 1..Len(ranges), NEW s \in BuiltOf(ranges, k - 1, N)
  PROVE  SetBits(TakePages(s, ranges[k]), ranges[k]) \in BuiltOf(ranges, k, N)
<1>1. PICK m, r, c, A : m = PagesOf(ranges, k - 1) /\ r = ranges[k] /\ c = Counts(ranges)[k - 1] /\ A = Values(ranges, k - 1)
  OBVIOUS
<1>2. /\ k - 1 \in 0..Len(ranges) /\ IsRange(r) /\ m \in Nat
      /\ PagesOf(ranges, k) = PageOf(r[2] - 1) + 1
      /\ m # 0 => PageOf(r[1]) >= m - 1
  BY <1>1, PagesGoOn
<1>3. /\ s \in Building(N, m) /\ Laid(s, N, m) /\ HoldsAll(s, m, A)
      /\ s.currentPage = c.nPages /\ (c.haveZeroPage <=> s.mZeroPageIndex # noZeroPage)
  BY <1>1 DEF BuiltOf
<1>4. /\ c \in Counted(m) /\ CountPages(c, r) = Counts(ranges)[k]
      /\ Counts(ranges)[k].nPages <= N
  <2>1. k \in 0..Len(ranges)
    BY DEF IsRangeList
  <2>. QED  BY <1>1, <1>2, <2>1, CountsAre
<1>5. /\ TakePages(s, r).currentPage = Counts(ranges)[k].nPages
      /\ Counts(ranges)[k].haveZeroPage <=> TakePages(s, r).mZeroPageIndex # noZeroPage
  BY <1>2, <1>3, <1>4, CountedAreTaken
<1>6. PICK u : u = SetBits(TakePages(s, r), r)
  OBVIOUS
<1>7. /\ Laid(u, N, PagesOf(ranges, k))
      /\ HoldsAll(u, PagesOf(ranges, k), A \cup ValuesOf(r))
      /\ u.currentPage = Counts(ranges)[k].nPages
      /\ u.mZeroPageIndex = TakePages(s, r).mZeroPageIndex
  <2>1. TakePages(s, r).currentPage <= N
    BY <1>4, <1>5
  <2>2. Extended(SetBits(TakePages(s, r), r), TakePages(s, r), N, r, A)
    BY <1>2, <1>3, <2>1, RangeIsLaid
  <2>. QED  BY <1>2, <1>5, <1>6, <2>2 DEF Extended
<1>8. A \cup ValuesOf(r) = Values(ranges, k)
  <2>1. \A i : i \in 1..k <=> i \in 1..k - 1 \/ i = k
    BY DEF IsRangeList
  <2>2. ASSUME NEW v \in Nat
        PROVE  v \in Values(ranges, k) <=> v \in A \/ v \in ValuesOf(r)
    BY <1>1, <2>1 DEF Values, ValuesOf
  <2>3. A \in SUBSET Nat /\ Values(ranges, k) \in SUBSET Nat /\ ValuesOf(r) \in SUBSET Nat
    BY <1>1 DEF Values, ValuesOf
  <2>. QED  BY <2>2, <2>3
<1>9. u \in Building(N, PagesOf(ranges, k))
  BY <1>7 DEF Laid
<1>. QED  BY <1>1, <1>5, <1>6, <1>7, <1>8, <1>9 DEF BuiltOf

(* The set is built in the rows that were counted (initFromRanges).        *)
LEMMA BuildsAre ==
  ASSUME NEW ranges, IsRangeList(ranges)
  PROVE  /\ calcNumPages(ranges) \in Nat
         /\ Builds(ranges, calcNumPages(ranges))[Len(ranges)]
              \in BuiltOf(ranges, Len(ranges), calcNumPages(ranges))
<1>1. PICK n \in Nat : n = Len(ranges)
  BY DEF IsRangeList
<1>2. PICK N \in Nat : N = calcNumPages(ranges)
  <2>1. n \in 0..n
    OBVIOUS
  <2>2. Counts(ranges)[n] \in Counted(PagesOf(ranges, n)) /\ calcNumPages(ranges) = Counts(ranges)[n].nPages
    BY <1>1, <2>1, CountsAre
  <2>3. Counts(ranges)[n].nPages \in Nat
    BY <2>2 DEF Counted
  <2>. QED  BY <2>2, <2>3
<1> DEFINE first == Blank(N)
           kinds == [k \in 0..n |-> BuiltOf(ranges, k, N)]
           step == [k \in 0..n |-> [x \in BuiltOf(ranges, k - 1, N) |-> SetBits(TakePages(x, ranges[k]), ranges[k])]]
           f == CHOOSE f : f = [k \in 0..n |-> IF k = 0 THEN first ELSE SetBits(TakePages(f[k - 1], ranges[k]), ranges[k])]
<1>3. first \in kinds[0]
  <2>1. first \in BuiltOf(ranges, 0, N) /\ 0 \in 0..n
    BY BlankIsBuilt
  <2>. QED  BY <2>1
<1>4. \A k \in 0..n : k # 0 => k \in 1..n /\ k - 1 \in 0..n /\ ~(k <= k - 1)
  OBVIOUS
<1>5. \A k \in 0..n : k # 0 => \A x \in kinds[k - 1] :
         step[k][x] \in kinds[k] /\ step[k][x] = SetBits(TakePages(x, ranges[k]), ranges[k])
  <2> SUFFICES ASSUME NEW k \in 0..n, k # 0, NEW x \in kinds[k - 1]
               PROVE  step[k][x] \in kinds[k] /\ step[k][x] = SetBits(TakePages(x, ranges[k]), ranges[k])
    OBVIOUS
  <2>1. k \in 1..n /\ k - 1 \in 0..n
    BY <1>4
  <2>2. x \in BuiltOf(ranges, k - 1, N)
    BY <2>1
  <2>3. SetBits(TakePages(x, ranges[k]), ranges[k]) \in BuiltOf(ranges, k, N)
    BY <1>1, <1>2, <2>1, <2>2, BuildingGoesOn
  <2>. QED  BY <2>1, <2>2, <2>3
<1> HIDE DEF step, kinds, first
<1>6. PICK g : IsIteration(0, n, first, step, kinds, g)
  <2>1. 0 \in Nat /\ 0 <= n
    BY <1>1
  <2>. QED  BY <1>1, <1>3, <1>5, <2>1, IterationExists
<1>7. g = [k \in 0..n |-> IF k = 0 THEN first ELSE SetBits(TakePages(g[k - 1], ranges[k]), ranges[k])]
  BY <1>4, <1>5, <1>6 DEF IsIteration
<1>8. f = [k \in 0..n |-> IF k = 0 THEN first ELSE SetBits(TakePages(f[k - 1], ranges[k]), ranges[k])]
  BY <1>7
<1>9. Builds(ranges, N) = f
  BY <1>1 DEF Builds, first
<1> HIDE DEF f
<1>10. f[0] = first /\ \A k \in 1..n : k \in 0..n /\ k # 0 /\ f[k] = SetBits(TakePages(f[k - 1], ranges[k]), ranges[k])
  BY <1>8
<1>11. \A k \in 0..n : f[k] \in kinds[k]
  <2> DEFINE T == {k \in 0..n : f[k] \in kinds[k]}
  <2>1. 0 \in T
    BY <1>3, <1>10
  <2>2. ASSUME NEW k \in 1..n, k - 1 \in T PROVE k \in T
    <3>1. k \in 0..n /\ k # 0 /\ f[k - 1] \in kinds[k - 1]
      BY <2>2
    <3>2. step[k][f[k - 1]] \in kinds[k] /\ step[k][f[k - 1]] = SetBits(TakePages(f[k - 1], ranges[k]), ranges[k])
      BY <1>5, <3>1
    <3>. QED  BY <1>10, <3>1, <3>2
  <2> HIDE DEF T
  <2>3. \A k \in 0..n : k \in T
    BY <2>1, <2>2, ReachesAll
  <2>. QED  BY <2>3 DEF T
<1>12. f[n] \in BuiltOf(ranges, n, N)
  <2>1. n \in 0..n
    OBVIOUS
  <2>. QED  BY <1>11, <2>1 DEF kinds
<1>. QED  BY <1>1, <1>2, <1>9, <1>12

-----------------------------------------------------------------------------
(***************************************************************************)
(* What a finished set answers.                                            *)
(***************************************************************************)

\* What a set of code points answers when it holds the members of A.
Reads(set, A) ==
  /\ set.mMaxVal \in Nat /\ A \in SUBSET Nat
  /\ \A v \in A : v < set.mMaxVal
  /\ \A v \in Nat : get(set, v) <=> v \in A
  /\ \A from \in Nat :
        \/ nextSetBit(set, from) = kNotFound /\ \A v \in A : v < from
        \/ /\ nextSetBit(set, from) \in A /\ from <= nextSetBit(set, from)
           /\ \A v \in A : from <= v => nextSetBit(set, from) <= v

(* A set without ranges has no members.                                    *)
LEMMA EmptyIsRead == Reads(EmptySet, {})
<1>1. EmptySet.mMaxVal = 0
  BY DEF EmptySet
<1>2. \A v \in Nat : ~get(EmptySet, v)
  BY <1>1 DEF get
<1>3. \A from \in Nat : nextSetBit(EmptySet, from) = kNotFound
  BY <1>1 DEF nextSetBit
<1>. QED  BY <1>1, <1>2, <1>3 DEF Reads

(* The least number of a set that has one.                                 *)
LEMMA LeastIs ==
  ASSUME NEW T \in SUBSET Nat, T # {}
  PROVE  Min(T) \in T /\ \A y \in T : Min(T) <= y
<1>1. \E x \in T : \A y \in T : x <= y
  BY LeastExists
<1>. QED  BY <1>1 DEF Min

At(p, e, b) == p * ValuesPerPage + e * BitsPerEl + b

(* The place of a value made of a page, an element and a bit.              *)
LEMMA AtIs ==
  ASSUME NEW p \in Nat, NEW e \in 0..ElsPerPage - 1, NEW b \in 0..BitsPerEl - 1
  PROVE  /\ At(p, e, b) \in Nat /\ PageOf(At(p, e, b)) = p
         /\ ElOf(At(p, e, b)) = e /\ BitOf(At(p, e, b)) = b
BY ValueAt DEF At

(* Values in the order of their pages, elements and bits.                  *)
LEMMA AtInOrder ==
  ASSUME NEW u \in Nat, NEW v \in Nat
  PROVE  /\ PageOf(u) < PageOf(v) => u < v
         /\ PageOf(u) = PageOf(v) =>
               (u <= v <=> ElOf(u) < ElOf(v) \/ (ElOf(u) = ElOf(v) /\ BitOf(u) <= BitOf(v)))
<1>1. PICK pu, pv, eu, ev, bu, bv \in Nat :
        pu = PageOf(u) /\ pv = PageOf(v) /\ eu = ElOf(u) /\ ev = ElOf(v) /\ bu = BitOf(u) /\ bv = BitOf(v)
  BY Places
<1>2. ASSUME pu < pv PROVE u < v
  <2>1. ASSUME v <= u PROVE FALSE
    <3>1. PageOf(v) <= PageOf(u)
      BY <2>1, PlacesInOrder
    <3>. QED  BY <1>1, <1>2, <3>1
  <2>. QED  BY <2>1
<1>3. ASSUME pu = pv PROVE u <= v <=> eu < ev \/ (eu = ev /\ bu <= bv)
  <2>1. PICK x \in Nat : x = RowAt(pu)
    BY Rows
  <2>2. WordOf(u) = x + eu /\ WordOf(v) = x + ev
    BY <1>1, <1>3, <2>1, WordIsInRow
  <2>3. u <= v <=> WordOf(u) < WordOf(v) \/ (WordOf(u) = WordOf(v) /\ BitOf(u) <= BitOf(v))
    BY PlacesOrder
  <2>. QED  BY <1>1, <2>1, <2>2, <2>3
<1>. QED  BY <1>1, <1>2, <1>3

(* A value is at its place.                                                *)
LEMMA AtItsPlace ==
  ASSUME NEW v \in Nat
  PROVE  v = At(PageOf(v), ElOf(v), BitOf(v))
<1>1. PICK u \in Nat : /\ u = At(PageOf(v), ElOf(v), BitOf(v))
                       /\ PageOf(u) = PageOf(v) /\ ElOf(u) = ElOf(v) /\ BitOf(u) = BitOf(v)
  <2>1. PageOf(v) \in Nat /\ ElOf(v) \in 0..ElsPerPage - 1 /\ BitOf(v) \in 0..BitsPerEl - 1
    BY Places
  <2>. QED  BY <2>1, AtIs
<1>2. ElOf(v) \in Nat /\ BitOf(v) \in Nat
  BY Places
<1>3. u <= v /\ v <= u
  BY <1>1, <1>2, AtInOrder
<1>. QED  BY <1>1, <1>3

\* v is the first value of the elements js of a page.
FirstOfRow(v, row, page, js) ==
  /\ v \in Nat /\ PageOf(v) = page /\ ElOf(v) \in js /\ BitOf(v) \in row[ElOf(v)]
  /\ \A u \in Nat : (PageOf(u) = page /\ ElOf(u) \in js /\ BitOf(u) \in row[ElOf(u)]) => v <= u

(* FirstBit finds the least value of a row (nextSetBit).                   *)
LEMMA FirstBitIs ==
  ASSUME NEW row \in [0..ElsPerPage - 1 -> Bits], NEW page \in Nat,
         NEW js \in SUBSET (0..ElsPerPage - 1), NEW j0 \in js, row[j0] # {}
  PROVE  FirstOfRow(FirstBit(row, page, js), row, page, js)
<1> DEFINE T == {i \in js : row[i] # {}}
<1>1. T \in SUBSET Nat /\ T # {}
  <2>1. \A i \in js : i \in Nat
    BY Sizes
  <2>. QED  BY <2>1
<1>2. PICK j : j = Min(T) /\ j \in T /\ \A y \in T : j <= y
  BY <1>1, LeastIs
<1>3. j \in js /\ j \in 0..ElsPerPage - 1 /\ row[j] # {} /\ row[j] \in Bits
  BY <1>2
<1>4. row[j] \in SUBSET Nat
  <2>1. \A b \in 0..BitsPerEl - 1 : b \in Nat
    BY Sizes
  <2>. QED  BY <1>3, <2>1 DEF Bits
<1>5. PICK b : b = Min(row[j]) /\ b \in row[j] /\ \A y \in row[j] : b <= y
  BY <1>3, <1>4, LeastIs
<1>6. b \in 0..BitsPerEl - 1
  BY <1>3, <1>5 DEF Bits
<1>7. PICK v \in Nat : v = At(page, j, b) /\ PageOf(v) = page /\ ElOf(v) = j /\ BitOf(v) = b
  BY <1>3, <1>6, AtIs
<1>8. FirstBit(row, page, js) = v
  BY <1>2, <1>5, <1>7 DEF FirstBit, At
<1>9. ASSUME NEW u \in Nat, PageOf(u) = page, ElOf(u) \in js, BitOf(u) \in row[ElOf(u)]
      PROVE  v <= u
  <2>1. j <= ElOf(u) /\ ElOf(u) \in Nat /\ j \in Nat
    <3>1. ElOf(u) \in T
      BY <1>9
    <3>. QED  BY <1>1, <1>2, <3>1
  <2>2. ElOf(u) = j => b <= BitOf(u)
    BY <1>5, <1>9
  <2>. QED  BY <1>7, <1>9, <2>1, <2>2, AtInOrder
<1> HIDE DEF T
<1>. QED  BY <1>3, <1>5, <1>7, <1>8, <1>9 DEF FirstOfRow

(* A page is as long as ValuesPerPage says.                                *)
LEMMA PageBehind ==
  ASSUME NEW x \in Nat
  PROVE  PageOf(x + ValuesPerPage) = PageOf(x) + 1
<1>1. PICK V \in Nat \ {0} : V = ValuesPerPage
  BY Sizes
<1>2. PICK q \in Nat, r \in 0..V - 1 : q = x \div V /\ x = V * q + r
  BY DivMod
<1>3. x + V = V * (q + 1) + r
  <2>1. V * (q + 1) = V * q + V
    BY <1>1, SMT
  <2>2. PICK y \in Int : y = V * q
    OBVIOUS
  <2>. QED  BY <1>1, <1>2, <2>1, <2>2
<1>4. PICK a, s \in Nat : a = x + V /\ s = q + 1 /\ a = V * s + r
  BY <1>3
<1>5. a \div V = s
  BY <1>4, DivUnique
<1>. QED  BY <1>1, <1>2, <1>4, <1>5 DEF PageOf

\* A finished set: the values of A, the last of them max - 1.
FinishedOf(set, A, N, m, s, max) ==
  /\ Laid(s, N, m) /\ HoldsAll(s, m, A) /\ set = Finish(s, max)
  /\ A \in SUBSET Nat /\ max - 1 \in A /\ \A v \in A : v < max
  /\ m = PageOf(max - 1) + 1
IsFinished(set, A) ==
  \E N \in Nat, m \in Nat, max \in Nat \ {0} : \E s : FinishedOf(set, A, N, m, s, max)

(* A finished set answers get and nextSetBit as its values say.            *)
LEMMA FinishedIsRead ==
  ASSUME NEW set, NEW A, IsFinished(set, A)
  PROVE  Reads(set, A)
<1>12. PICK N \in Nat, m \in Nat, max \in Nat \ {0} : \E s : FinishedOf(set, A, N, m, s, max)
  BY DEF IsFinished
<1>13. PICK s : FinishedOf(set, A, N, m, s, max)
  BY <1>12
<1>1. /\ Laid(s, N, m) /\ HoldsAll(s, m, A) /\ set = Finish(s, max)
      /\ A \in SUBSET Nat /\ max - 1 \in A /\ \A v \in A : v < max
      /\ m = PageOf(max - 1) + 1
  BY <1>13 DEF FinishedOf
<1>2. PICK l \in Nat : l = max - 1 /\ max = l + 1 /\ m = PageOf(l) + 1 /\ PageOf(l) \in Nat
  <2>1. max - 1 \in Nat
    OBVIOUS
  <2>. QED  BY <1>1, <2>1, Places
<1>3. PICK E, B \in Nat \ {0} : E = ElsPerPage /\ B = BitsPerEl
  BY Sizes
<1>4. /\ set.mMaxVal = max /\ set.mIndices = s.mIndices /\ set.mBitmaps = s.mBitmaps
      /\ set.mZeroPageIndex = s.mZeroPageIndex
  BY <1>1 DEF Finish
<1> DEFINE Cell(p, j) == s.mBitmaps[s.mIndices[p] + j]
<1>5. \A v \in Nat : v < max => PageOf(v) < m
  <2> SUFFICES ASSUME NEW v \in Nat, v < max PROVE PageOf(v) < m
    OBVIOUS
  <2>1. PageOf(v) \in Nat /\ v <= l
    BY <1>2, Places
  <2>2. PageOf(v) <= PageOf(l)
    BY <2>1, PlacesInOrder
  <2>. QED  BY <1>2, <2>1, <2>2
<1>6. ASSUME NEW v \in Nat, PageOf(v) < m
      PROVE  BitOf(v) \in Cell(PageOf(v), ElOf(v)) <=> v \in A
  BY <1>1, <1>6 DEF HoldsAll
<1>7. ASSUME NEW p \in 0..m - 1, NEW j \in 0..E - 1
      PROVE  Cell(p, j) \in Bits
  <2>1. PICK cp \in Nat : /\ cp = s.currentPage /\ cp # 0 /\ cp <= N /\ s \in Building(N, m)
                          /\ s.mIndices[m - 1] = RowAt(cp - 1)
                          /\ \A q \in 0..m - 2 : s.mIndices[q] + E <= RowAt(cp - 1)
    <3>1. m # 0
      OBVIOUS
    <3>2. s.currentPage \in Nat
      BY <1>1 DEF Laid, Building
    <3>. QED  BY <1>1, <1>3, <3>1, <3>2 DEF Laid
  <2>2. PICK i \in Nat : i = s.mIndices[p]
    BY <2>1 DEF Building
  <2>3. PICK D, x \in Nat : D = RowAt(N) /\ x = RowAt(cp - 1) /\ x + E <= D
    <3>1. PICK c \in Nat : c = cp - 1 /\ c < N
      BY <2>1
    <3>2. RowAt(c) \in Nat /\ RowAt(N) \in Nat /\ RowAt(c) + E <= RowAt(N)
      BY <1>3, <3>1, Rows
    <3>. QED  BY <3>1, <3>2
  <2>4. i <= x
    <3>1. CASE p = m - 1
      BY <2>1, <2>2, <2>3, <3>1
    <3>2. CASE p # m - 1
      <4>1. p \in 0..m - 2
        BY <3>2
      <4>2. s.mIndices[p] + E <= x
        BY <2>1, <2>3, <4>1
      <4>. QED  BY <1>3, <2>2, <2>3, <4>2
    <3>. QED  BY <3>1, <3>2
  <2>5. i + j \in 0..D - 1
    BY <1>3, <2>3, <2>4
  <2>6. D = N * ElsPerPage
    BY <2>3 DEF RowAt
  <2>7. s.mBitmaps[i + j] \in Bits
    BY <2>1, <2>5, <2>6 DEF Building
  <2>. QED  BY <2>2, <2>7
<1>8. ASSUME NEW p \in 0..m - 1, NEW j \in 0..E - 1, s.mIndices[p] = s.mZeroPageIndex
      PROVE  Cell(p, j) = {}
  <2>1. s.mIndices[p] \in Nat
    BY <1>1 DEF Laid, Building
  <2>2. s.mZeroPageIndex # noZeroPage
    BY <1>8, <2>1 DEF noZeroPage
  <2>. QED  BY <1>1, <1>3, <1>8, <2>2 DEF Laid
<1>9. ASSUME NEW v \in Nat PROVE get(set, v) <=> v \in A
  <2>1. get(set, v) <=> v < max /\ BitOf(v) \in Cell(PageOf(v), ElOf(v))
    <3>1. (v % ValuesPerPage) % BitsPerEl = BitOf(v)
      BY Places
    <3>. QED  BY <1>4, <3>1 DEF get, ElOf
  <2>2. CASE v < max
    BY <1>5, <1>6, <2>1, <2>2
  <2>3. CASE ~(v < max)
    BY <1>1, <2>1, <2>3
  <2>. QED  BY <2>2, <2>3
<1>10. ASSUME NEW from \in Nat
       PROVE  \/ nextSetBit(set, from) = kNotFound /\ \A v \in A : v < from
              \/ /\ nextSetBit(set, from) \in A /\ from <= nextSetBit(set, from)
                 /\ \A v \in A : from <= v => nextSetBit(set, from) <= v
  <2>1. CASE from >= max
    <3>1. nextSetBit(set, from) = kNotFound
      BY <1>4, <2>1 DEF nextSetBit
    <3>. QED  BY <1>1, <2>1, <3>1
  <2>2. CASE ~(from >= max)
    <3> DEFINE fromPage == PageOf(from)
               offset == (from % ValuesPerPage) \div BitsPerEl
               Cells(page) == [j \in 0..ElsPerPage - 1 |-> set.mBitmaps[set.mIndices[page] + j]]
               here == [Cells(fromPage) EXCEPT ![offset] = {b \in @ : b >= from % BitsPerEl}]
               later == {page \in fromPage + 1 .. PageOf(set.mMaxVal + ValuesPerPage - 1) - 1 :
                          /\ set.mIndices[page] # set.mZeroPageIndex
                          /\ \E j \in 0..ElsPerPage - 1 : Cells(page)[j] # {}}
    <3>1. nextSetBit(set, from) =
            IF \E j \in offset..ElsPerPage - 1 : here[j] # {}
            THEN FirstBit(here, fromPage, offset..ElsPerPage - 1)
            ELSE IF later # {} THEN FirstBit(Cells(Min(later)), Min(later), 0..ElsPerPage - 1)
            ELSE kNotFound
      BY <1>4, <2>2 DEF nextSetBit
    <3>2. PICK fp \in 0..m - 1, o \in 0..E - 1, fb \in 0..B - 1 :
             fp = fromPage /\ o = offset /\ fb = from % BitsPerEl /\ fb = BitOf(from) /\ o = ElOf(from)
      <4>1. PageOf(from) < m /\ PageOf(from) \in Nat
        BY <1>5, <2>2, Places
      <4>2. ElOf(from) \in 0..E - 1 /\ BitOf(from) \in 0..B - 1
        BY <1>3, Places
      <4>. QED  BY <4>1, <4>2 DEF ElOf, BitOf
    <3>3. ASSUME NEW p \in 0..m - 1
          PROVE  Cells(p) \in [0..E - 1 -> Bits] /\ \A j \in 0..E - 1 : Cells(p)[j] = Cell(p, j)
      BY <1>3, <1>4, <1>7
    <3>4. later = {p \in fp + 1..m - 1 : /\ s.mIndices[p] # s.mZeroPageIndex
                                         /\ \E j \in 0..E - 1 : Cells(p)[j] # {}}
      <4>1. PageOf(set.mMaxVal + ValuesPerPage - 1) - 1 = m - 1
        <5>1. set.mMaxVal + ValuesPerPage - 1 = l + ValuesPerPage
          BY <1>2, <1>4, Sizes
        <5>2. PageOf(l + ValuesPerPage) = PageOf(l) + 1
          BY PageBehind
        <5>. QED  BY <1>2, <5>1, <5>2
      <4>. QED  BY <1>3, <1>4, <3>2, <4>1
    <3>5. here \in [0..E - 1 -> Bits]
      <4>1. {b \in Cells(fp)[o] : b >= fb} \in Bits
        <5>1. Cells(fp)[o] \in Bits
          BY <3>2, <3>3
        <5> HIDE DEF Cells
        <5>. QED  BY <5>1 DEF Bits
      <4>2. here = [Cells(fp) EXCEPT ![o] = {b \in Cells(fp)[o] : b >= fb}]
        BY <3>2
      <4>3. Cells(fp) \in [0..E - 1 -> Bits]
        BY <3>3
      <4> HIDE DEF here, Cells
      <4>. QED  BY <4>1, <4>2, <4>3
    <3>6. /\ \A j \in 0..E - 1 : j # o => here[j] = Cell(fp, j)
          /\ here[o] = {b \in Cell(fp, o) : b >= fb}
      <4>1. DOMAIN Cells(fp) = 0..E - 1 /\ \A j \in 0..E - 1 : Cells(fp)[j] = Cell(fp, j)
        BY <3>3
      <4>2. here = [Cells(fp) EXCEPT ![o] = {b \in Cells(fp)[o] : b >= fb}]
        BY <3>2
      <4> HIDE DEF here, Cells, Cell
      <4>. QED  BY <4>1, <4>2
    <3> HIDE DEF here
    \* A value of the first page is in what is searched when it is not before from.
    <3>7. ASSUME NEW v \in Nat, PageOf(v) = fp
          PROVE  (ElOf(v) \in o..E - 1 /\ BitOf(v) \in here[ElOf(v)]) <=> (v \in A /\ from <= v)
      <4>1. ElOf(v) \in 0..E - 1 /\ BitOf(v) \in Nat
        BY <1>3, Places
      <4>2. BitOf(v) \in Cell(fp, ElOf(v)) <=> v \in A
        BY <1>6, <3>7
      <4>3. from <= v <=> o < ElOf(v) \/ (o = ElOf(v) /\ fb <= BitOf(v))
        BY <3>2, <3>7, AtInOrder
      <4>4. CASE ElOf(v) = o
        BY <3>6, <4>1, <4>2, <4>3, <4>4
      <4>5. CASE ElOf(v) # o
        BY <3>6, <4>1, <4>2, <4>3, <4>5
      <4>. QED  BY <4>4, <4>5
    <3>8. ASSUME NEW v \in A, from <= v
          PROVE  v \in Nat /\ PageOf(v) \in fp..m - 1 /\ ElOf(v) \in 0..E - 1
      <4>1. v \in Nat /\ PageOf(v) < m /\ PageOf(v) \in Nat /\ ElOf(v) \in 0..E - 1
        BY <1>1, <1>3, <1>5, Places
      <4>2. PageOf(from) <= PageOf(v)
        BY <3>8, <4>1, PlacesInOrder
      <4>. QED  BY <3>2, <4>1, <4>2
    <3>9. CASE \E j \in offset..ElsPerPage - 1 : here[j] # {}
      <4>1. PICK j \in o..E - 1 : here[j] # {}
        BY <1>3, <3>2, <3>9
      <4>2. PICK v : v = nextSetBit(set, from) /\ v = FirstBit(here, fp, o..E - 1)
        BY <1>3, <3>1, <3>2, <3>9
      <4>3. FirstOfRow(v, here, fp, o..E - 1)
        <5>1. o..E - 1 \in SUBSET (0..E - 1) /\ fp \in Nat
          OBVIOUS
        <5>. QED  BY <1>3, <3>5, <4>1, <4>2, <5>1, FirstBitIs
      <4>4. v \in A /\ from <= v
        BY <3>7, <4>3 DEF FirstOfRow
      <4>5. ASSUME NEW u \in A, from <= u PROVE v <= u
        <5>1. u \in Nat /\ PageOf(u) \in fp..m - 1 /\ v \in Nat /\ PageOf(v) = fp
          BY <3>8, <4>3, <4>5 DEF FirstOfRow
        <5>2. CASE PageOf(u) = fp
          BY <3>7, <4>3, <4>5, <5>1, <5>2 DEF FirstOfRow
        <5>3. CASE PageOf(u) # fp
          <6>1. PageOf(v) < PageOf(u)
            BY <5>1, <5>3
          <6>2. v < u
            BY <5>1, <6>1, AtInOrder
          <6>. QED  BY <5>1, <6>2
        <5>. QED  BY <5>2, <5>3
      <4>. QED  BY <4>2, <4>4, <4>5
    <3>10. CASE ~(\E j \in offset..ElsPerPage - 1 : here[j] # {})
      <4>1. ASSUME NEW v \in A, from <= v
            PROVE  v \in Nat /\ PageOf(v) \in later /\ PageOf(v) \in fp + 1..m - 1 /\ ElOf(v) \in 0..E - 1
        <5>1. v \in Nat /\ PageOf(v) \in fp..m - 1 /\ ElOf(v) \in 0..E - 1
          BY <3>8, <4>1
        <5>2. PageOf(v) # fp
          <6>1. ASSUME PageOf(v) = fp PROVE FALSE
            <7>1. ElOf(v) \in o..E - 1 /\ BitOf(v) \in here[ElOf(v)]
              BY <3>7, <4>1, <5>1, <6>1
            <7>. QED  BY <1>3, <3>2, <3>10, <7>1
          <6>. QED  BY <6>1
        <5>3. PageOf(v) \in 0..m - 1 /\ PageOf(v) < m /\ PageOf(v) \in fp + 1..m - 1
          BY <5>1, <5>2
        <5>4. BitOf(v) \in Cell(PageOf(v), ElOf(v))
          BY <1>6, <5>1, <5>3
        <5>5. s.mIndices[PageOf(v)] # s.mZeroPageIndex
          BY <1>8, <5>1, <5>3, <5>4
        <5>6. Cells(PageOf(v))[ElOf(v)] # {}
          BY <3>3, <5>1, <5>3, <5>4
        <5> HIDE DEF later, Cells, Cell
        <5>. QED  BY <3>4, <5>1, <5>3, <5>5, <5>6
      <4>2. CASE later = {}
        <5>1. nextSetBit(set, from) = kNotFound
          BY <3>1, <3>10, <4>2
        <5>2. \A v \in A : v < from
          <6> SUFFICES ASSUME NEW v \in A PROVE v < from
            OBVIOUS
          <6>1. ~(from <= v) /\ v \in Nat
            BY <1>1, <4>1, <4>2
          <6>. QED  BY <6>1
        <5>. QED  BY <5>1, <5>2
      <4>3. CASE later # {}
        <5>1. later \in SUBSET Nat
          <6>1. \A p \in fp + 1..m - 1 : p \in Nat
            OBVIOUS
          <6> HIDE DEF later, Cells
          <6>. QED  BY <3>4, <6>1
        <5>2. PICK p : p = Min(later) /\ p \in later /\ \A y \in later : p <= y
          <6> HIDE DEF later
          <6>. QED  BY <4>3, <5>1, LeastIs
        <5>3. p \in fp + 1..m - 1 /\ p \in 0..m - 1 /\ \E j \in 0..E - 1 : Cells(p)[j] # {}
          <6> HIDE DEF Cells, later
          <6>1. p \in fp + 1..m - 1 /\ \E j \in 0..E - 1 : Cells(p)[j] # {}
            BY <3>4, <5>2
          <6>2. fp \in Nat
            BY <3>2
          <6>3. p \in 0..m - 1
            BY <6>1, <6>2
          <6>. QED  BY <6>1, <6>3
        <5>4. PICK v : v = nextSetBit(set, from) /\ v = FirstBit(Cells(p), p, 0..E - 1)
          <6> HIDE DEF later, Cells
          <6>. QED  BY <1>3, <3>1, <3>10, <4>3, <5>2
        <5>5. FirstOfRow(v, Cells(p), p, 0..E - 1)
          <6>1. p \in Nat /\ Cells(p) \in [0..E - 1 -> Bits]
            BY <3>3, <5>3
          <6> HIDE DEF Cells
          <6>. QED  BY <1>3, <5>3, <5>4, <6>1, FirstBitIs
        <5>6. ASSUME NEW u \in Nat, PageOf(u) = p
              PROVE  ElOf(u) \in 0..E - 1 /\ (BitOf(u) \in Cells(p)[ElOf(u)] <=> u \in A)
          <6>1. ElOf(u) \in 0..E - 1
            BY <1>3, Places
          <6>2. Cells(p)[ElOf(u)] = Cell(p, ElOf(u))
            BY <3>3, <5>3, <6>1
          <6>3. BitOf(u) \in Cell(p, ElOf(u)) <=> u \in A
            BY <1>6, <5>3, <5>6
          <6> HIDE DEF Cells, Cell
          <6>. QED  BY <6>1, <6>2, <6>3
        <5> HIDE DEF Cells, later
        <5>7. v \in Nat /\ PageOf(v) = p /\ v \in A
          BY <5>5, <5>6 DEF FirstOfRow
        <5>8. from <= v
          <6>1. PageOf(from) < PageOf(v)
            BY <3>2, <5>3, <5>7
          <6>2. from < v
            BY <5>7, <6>1, AtInOrder
          <6>. QED  BY <5>7, <6>2
        <5>9. ASSUME NEW u \in A, from <= u PROVE v <= u
          <6>1. u \in Nat /\ PageOf(u) \in later /\ PageOf(u) \in fp + 1..m - 1 /\ ElOf(u) \in 0..E - 1
            BY <4>1, <5>9
          <6>2. p <= PageOf(u)
            BY <5>2, <6>1
          <6>3. CASE PageOf(u) = p
            BY <5>5, <5>6, <6>1, <6>3 DEF FirstOfRow
          <6>4. CASE PageOf(u) # p
            <7>1. PageOf(v) < PageOf(u)
              BY <5>3, <5>7, <6>1, <6>2, <6>4
            <7>2. v < u
              BY <5>7, <6>1, <7>1, AtInOrder
            <7>. QED  BY <5>7, <6>1, <7>2
          <6>. QED  BY <6>3, <6>4
        <5>. QED  BY <5>4, <5>7, <5>8, <5>9
      <4>. QED  BY <4>2, <4>3
    <3>. QED  BY <3>9, <3>10
  <2>. QED  BY <2>1, <2>2
<1>11. max \in Nat
  OBVIOUS
<1>. QED  BY <1>1, <1>4, <1>9, <1>10, <1>11 DEF Reads

-----------------------------------------------------------------------------
(***************************************************************************)
(* Lists of ranges: a set made of one has its values.                      *)
(***************************************************************************)

Vals(ranges) == Values(ranges, Len(ranges))
LastEnd(ranges) == IF Len(ranges) = 0 THEN 0 ELSE ranges[Len(ranges)][2]

(* The values of a list of ranges lie before its end.                      *)
LEMMA ValsEnd ==
  ASSUME NEW ranges, IsRangeList(ranges)
  PROVE  /\ LastEnd(ranges) \in Nat /\ Vals(ranges) \in SUBSET Nat
         /\ \A v \in Vals(ranges) : v < LastEnd(ranges)
         /\ Len(ranges) # 0 => /\ LastEnd(ranges) # 0 /\ LastEnd(ranges) = ranges[Len(ranges)][2]
                               /\ LastEnd(ranges) - 1 \in Vals(ranges)
         /\ Len(ranges) = 0 => ranges = <<>> /\ Vals(ranges) = {} /\ LastEnd(ranges) = 0
<1>1. PICK n \in Nat : n = Len(ranges)
  BY DEF IsRangeList
<1>2. \A k \in 1..n : ranges[k][1] \in Nat /\ ranges[k][2] \in Nat /\ ranges[k][1] < ranges[k][2]
  BY <1>1 DEF IsRangeList, IsRange
<1>3. ASSUME n # 0
      PROVE  /\ LastEnd(ranges) \in Nat /\ LastEnd(ranges) # 0 /\ LastEnd(ranges) = ranges[n][2]
             /\ \A k \in 1..n : ranges[k][2] <= ranges[n][2]
  <2>1. n \in 1..n
    BY <1>1, <1>3
  <2>2. ranges[n][1] \in Nat /\ ranges[n][2] \in Nat /\ ranges[n][1] < ranges[n][2]
    BY <1>2, <2>1
  <2> DEFINE T == {k \in 0..n : \A i \in 1..k : ranges[i][2] <= ranges[k][2]}
  <2>3. 0 \in T
    <3>1. 0 \in 0..n /\ 1..0 = {}
      BY <1>1
    <3>. QED  BY <3>1
  <2>4. ASSUME NEW k \in 1..n, k - 1 \in T PROVE k \in T
    <3>1. k \in 0..n
      BY <1>1
    <3>2. ASSUME NEW i \in 1..k PROVE ranges[i][2] <= ranges[k][2]
      <4>1. CASE i = k
        BY <1>2, <4>1
      <4>2. CASE i # k
        <5>1. i \in 1..k - 1 /\ k \in 2..n /\ k - 1 \in 1..n /\ i \in 1..n
          BY <1>1, <4>2
        <5>2. ranges[i][2] <= ranges[k - 1][2]
          BY <2>4, <5>1
        <5>3. ranges[k - 1][2] <= ranges[k][1]
          BY <1>1, <5>1 DEF IsRangeList
        <5>. QED  BY <1>2, <5>1, <5>2, <5>3
      <4>. QED  BY <4>1, <4>2
    <3>. QED  BY <3>1, <3>2
  <2> HIDE DEF T
  <2>5. n \in T
    <3>1. n \in 0..n
      BY <1>1
    <3>. QED  BY <1>1, <2>3, <2>4, <3>1, ReachesAll
  <2>. QED  BY <1>1, <1>3, <2>2, <2>5 DEF LastEnd, T
<1>4. Vals(ranges) \in SUBSET Nat
  BY DEF Vals, Values
<1>5. CASE n = 0
  <2>1. ranges = <<>>
    BY <1>1, <1>5 DEF IsRangeList
  <2>2. 1..n = {}
    BY <1>5
  <2>3. Vals(ranges) = {}
    BY <1>1, <2>2 DEF Vals, Values
  <2>. QED  BY <1>1, <1>5, <2>1, <2>3 DEF LastEnd
<1>6. CASE n # 0
  <2>1. ASSUME NEW v \in Vals(ranges) PROVE v < LastEnd(ranges)
    <3>1. PICK i \in 1..n : v < ranges[i][2] /\ v \in Nat
      BY <1>1, <2>1 DEF Vals, Values
    <3>. QED  BY <1>2, <1>3, <1>6, <3>1
  <2>2. LastEnd(ranges) - 1 \in Vals(ranges)
    <3>1. n \in 1..n
      BY <1>1, <1>6
    <3>2. PICK l \in Nat : l = LastEnd(ranges) - 1
      BY <1>3, <1>6
    <3>3. ranges[n][1] <= l /\ l < ranges[n][2]
      BY <1>2, <1>3, <1>6, <3>1, <3>2
    <3>. QED  BY <1>1, <3>1, <3>2, <3>3 DEF Vals, Values
  <2>. QED  BY <1>1, <1>3, <1>4, <1>6, <2>1, <2>2
<1>. QED  BY <1>5, <1>6

(* A set made of a list of ranges reads as its values.                     *)
LEMMA RangesAreRead ==
  ASSUME NEW ranges, IsRangeList(ranges)
  PROVE  /\ LastEnd(ranges) < kMaximumCapacity => Reads(initFromRanges(ranges), Vals(ranges))
         /\ ~(LastEnd(ranges) < kMaximumCapacity) => initFromRanges(ranges) = EmptySet
         /\ initFromRanges(ranges).mMaxVal <= LastEnd(ranges)
<1>1. PICK n \in Nat : n = Len(ranges)
  BY DEF IsRangeList
<1>2. /\ LastEnd(ranges) \in Nat /\ Vals(ranges) \in SUBSET Nat
      /\ \A v \in Vals(ranges) : v < LastEnd(ranges)
      /\ n # 0 => LastEnd(ranges) # 0 /\ LastEnd(ranges) = ranges[n][2] /\ LastEnd(ranges) - 1 \in Vals(ranges)
      /\ n = 0 => ranges = <<>> /\ Vals(ranges) = {} /\ LastEnd(ranges) = 0
  BY <1>1, ValsEnd
<1>3. EmptySet.mMaxVal = 0
  BY DEF EmptySet
<1>4. CASE n = 0
  <2>1. initFromRanges(ranges) = EmptySet
    BY <1>2, <1>4 DEF initFromRanges
  <2>2. Reads(initFromRanges(ranges), Vals(ranges))
    BY <1>2, <1>4, <2>1, EmptyIsRead
  <2>. QED  BY <1>2, <1>3, <1>4, <2>1, <2>2
<1>5. CASE n # 0
  <2>1. ranges # <<>> /\ Last(ranges)[2] = LastEnd(ranges)
    BY <1>1, <1>2, <1>5 DEF Last
  <2>2. kMaximumCapacity \in Nat
    BY BitSetAssumption
  <2>3. CASE ~(LastEnd(ranges) < kMaximumCapacity)
    <3>1. initFromRanges(ranges) = EmptySet
      BY <1>2, <2>1, <2>2, <2>3 DEF initFromRanges
    <3>. QED  BY <1>2, <1>3, <2>3, <3>1
  <2>4. CASE LastEnd(ranges) < kMaximumCapacity
    <3>0. PICK N \in Nat : N = calcNumPages(ranges)
      BY BuildsAre
    <3>1. PICK s : s = Builds(ranges, N)[n] /\ s \in BuiltOf(ranges, n, N)
      BY <1>1, <3>0, BuildsAre
    <3>2. initFromRanges(ranges) = Finish(s, LastEnd(ranges))
      BY <1>1, <1>2, <2>1, <2>2, <2>4, <3>0, <3>1 DEF initFromRanges, Builds
    <3>3. PICK max \in Nat \ {0} : max = LastEnd(ranges)
      BY <1>2, <1>5
    <3>4. PICK m \in Nat : m = PagesOf(ranges, n) /\ m = PageOf(max - 1) + 1
      <4>1. n \in 1..Len(ranges)
        BY <1>1, <1>5
      <4>2. PagesOf(ranges, n) \in Nat /\ PagesOf(ranges, n) = PageOf(ranges[n][2] - 1) + 1
        BY <4>1, PagesGoOn
      <4>. QED  BY <1>2, <1>5, <3>3, <4>2
    <3>5. Laid(s, N, m) /\ HoldsAll(s, m, Vals(ranges))
      BY <1>1, <3>1, <3>4 DEF BuiltOf, Vals
    <3>6. PICK set : set = initFromRanges(ranges)
      OBVIOUS
    <3>7. IsFinished(set, Vals(ranges))
      <4>1. set = Finish(s, max) /\ max - 1 \in Vals(ranges) /\ \A v \in Vals(ranges) : v < max
        BY <1>2, <1>5, <3>2, <3>3, <3>6
      <4>2. Vals(ranges) \in SUBSET Nat /\ N \in Nat /\ m \in Nat /\ max \in Nat \ {0} /\ m = PageOf(max - 1) + 1
        BY <1>2, <3>4
      <4>3. FinishedOf(set, Vals(ranges), N, m, s, max)
        BY <3>5, <4>1, <4>2 DEF FinishedOf
      <4>. QED  BY <4>2, <4>3 DEF IsFinished
    <3>8. set.mMaxVal = LastEnd(ranges)
      BY <3>2, <3>6 DEF Finish
    <3>. QED  BY <1>2, <2>4, <3>6, <3>7, <3>8, FinishedIsRead
  <2>. QED  BY <2>3, <2>4
<1>. QED  BY <1>4, <1>5

-----------------------------------------------------------------------------
CoverKind == [ok : BOOLEAN, ranges : Seq(Nat \X Nat)]
GroupKind == [ok : BOOLEAN, ranges : Seq(Nat \X Nat), done : BOOLEAN]
Between(start, end) == {v \in Nat : start <= v /\ v < end}

(* A range behind the last one is appended.                                *)
LEMMA AppendedRange ==
  ASSUME NEW ranges, IsRangeList(ranges), NEW start \in Nat, NEW end \in Nat, start < end,
         LastEnd(ranges) <= start
  PROVE  LET new == Append(ranges, <<start, end>>)
         IN IsRangeList(new) /\ LastEnd(new) = end /\ Vals(new) = Vals(ranges) \cup Between(start, end)
<1>1. PICK n \in Nat : n = Len(ranges) /\ ranges \in Seq(Nat \X Nat) /\ DOMAIN ranges = 1..n
  BY DEF IsRangeList
<1>2. PICK new : new = Append(ranges, <<start, end>>)
  OBVIOUS
<1>3. PICK q \in Nat : q = n + 1
  OBVIOUS
<1>4. /\ new \in Seq(Nat \X Nat) /\ Len(new) = q /\ DOMAIN new = 1..q
      /\ new[q] = <<start, end>> /\ \A k \in 1..n : new[k] = ranges[k]
  <2>1. <<start, end>> \in Nat \X Nat
    OBVIOUS
  <2>. QED  BY <1>1, <1>2, <1>3, <2>1
<1>5. LastEnd(new) = end
  BY <1>3, <1>4 DEF LastEnd
<1>6. \A k \in 1..q : IsRange(new[k])
  <2> SUFFICES ASSUME NEW k \in 1..q PROVE IsRange(new[k])
    OBVIOUS
  <2>1. CASE k = q
    BY <1>4, <2>1 DEF IsRange
  <2>2. CASE k # q
    <3>1. k \in 1..n
      BY <1>3, <2>2
    <3>. QED  BY <1>1, <1>4, <3>1 DEF IsRangeList
  <2>. QED  BY <2>1, <2>2
<1>7. ASSUME NEW k \in 2..q PROVE new[k - 1][2] <= new[k][1]
  <2>1. CASE k = q
    <3>1. k - 1 = n /\ n # 0 /\ n \in 1..n
      BY <1>1, <1>3, <2>1
    <3>2. new[k - 1] = ranges[n] /\ ranges[n][2] = LastEnd(ranges)
      BY <1>1, <1>4, <3>1 DEF LastEnd
    <3>. QED  BY <1>4, <2>1, <3>2
  <2>2. CASE k # q
    <3>1. k \in 2..n /\ k \in 1..n /\ k - 1 \in 1..n
      BY <1>1, <1>3, <2>2
    <3>. QED  BY <1>1, <1>4, <3>1 DEF IsRangeList
  <2>. QED  BY <2>1, <2>2
<1>8. IsRangeList(new)
  BY <1>3, <1>4, <1>6, <1>7 DEF IsRangeList
<1>9. Vals(new) = Vals(ranges) \cup Between(start, end)
  <2>1. ASSUME NEW v \in Nat PROVE v \in Vals(new) <=> v \in Vals(ranges) \/ v \in Between(start, end)
    <3>1. v \in Vals(new) <=> \E i \in 1..q : new[i][1] <= v /\ v < new[i][2]
      BY <1>4 DEF Vals, Values
    <3>2. v \in Vals(ranges) <=> \E i \in 1..n : ranges[i][1] <= v /\ v < ranges[i][2]
      BY <1>1 DEF Vals, Values
    <3>3. v \in Between(start, end) <=> new[q][1] <= v /\ v < new[q][2]
      BY <1>4 DEF Between
    <3>4. \A i : i \in 1..q <=> i \in 1..n \/ i = q
      BY <1>3
    <3>. QED  BY <1>4, <3>1, <3>2, <3>3, <3>4
  <2>2. Vals(new) \in SUBSET Nat /\ Vals(ranges) \in SUBSET Nat /\ Between(start, end) \in SUBSET Nat
    BY DEF Vals, Values, Between
  <2>. QED  BY <2>1, <2>2
<1>. QED  BY <1>2, <1>5, <1>8, <1>9

(* The last range is made longer.                                          *)
LEMMA ExtendedRange ==
  ASSUME NEW ranges, IsRangeList(ranges), Len(ranges) # 0, NEW end \in Nat, LastEnd(ranges) <= end
  PROVE  LET new == [ranges EXCEPT ![Len(ranges)][2] = end]
         IN IsRangeList(new) /\ LastEnd(new) = end
            /\ Vals(new) = Vals(ranges) \cup Between(LastEnd(ranges), end)
<1>1. PICK n \in Nat : n = Len(ranges) /\ ranges \in Seq(Nat \X Nat) /\ DOMAIN ranges = 1..n /\ n # 0
  BY DEF IsRangeList
<1>2. n \in 1..n
  BY <1>1
<1>3. PICK a, e \in Nat : ranges[n] = <<a, e>> /\ e = LastEnd(ranges) /\ a < e
  <2>1. ranges[n] \in Nat \X Nat
    BY <1>1, <1>2
  <2>2. IsRange(ranges[n])
    BY <1>1, <1>2 DEF IsRangeList
  <2>. QED  BY <1>1, <2>1, <2>2 DEF LastEnd, IsRange
<1>4. PICK new : new = [ranges EXCEPT ![Len(ranges)][2] = end]
  OBVIOUS
<1>5. new = [ranges EXCEPT ![n] = <<a, end>>]
  <2>1. [ranges[n] EXCEPT ![2] = end] = <<a, end>>
    BY <1>3
  <2>. QED  BY <1>1, <1>2, <1>4, <2>1
<1>6. /\ new \in Seq(Nat \X Nat) /\ Len(new) = n /\ DOMAIN new = 1..n
      /\ new[n] = <<a, end>> /\ \A k \in 1..n : k # n => new[k] = ranges[k]
  <2>1. <<a, end>> \in Nat \X Nat
    BY <1>3
  <2>. QED  BY <1>1, <1>2, <1>5, <2>1
<1>7. LastEnd(new) = end
  BY <1>1, <1>6 DEF LastEnd
<1>8. a < end /\ e <= end
  BY <1>3
<1>9. \A k \in 1..n : IsRange(new[k])
  <2> SUFFICES ASSUME NEW k \in 1..n PROVE IsRange(new[k])
    OBVIOUS
  <2>1. CASE k = n
    BY <1>3, <1>6, <1>8, <2>1 DEF IsRange
  <2>2. CASE k # n
    BY <1>1, <1>6, <2>2 DEF IsRangeList
  <2>. QED  BY <2>1, <2>2
<1>10. ASSUME NEW k \in 2..n PROVE new[k - 1][2] <= new[k][1]
  <2>1. k - 1 \in 1..n /\ k - 1 # n /\ k \in 1..n /\ ranges[k - 1][2] <= ranges[k][1]
    BY <1>1 DEF IsRangeList
  <2>2. new[k - 1] = ranges[k - 1]
    BY <1>6, <2>1
  <2>3. new[k][1] = ranges[k][1]
    <3>1. CASE k = n
      BY <1>3, <1>6, <3>1
    <3>2. CASE k # n
      BY <1>6, <2>1, <3>2
    <3>. QED  BY <3>1, <3>2
  <2>. QED  BY <2>1, <2>2, <2>3
<1>11. IsRangeList(new)
  BY <1>1, <1>6, <1>9, <1>10 DEF IsRangeList
<1>12. Vals(new) = Vals(ranges) \cup Between(e, end)
  <2>1. ASSUME NEW v \in Nat PROVE v \in Vals(new) <=> v \in Vals(ranges) \/ v \in Between(e, end)
    <3>1. v \in Vals(new) <=> \E i \in 1..n : new[i][1] <= v /\ v < new[i][2]
      BY <1>6 DEF Vals, Values
    <3>2. v \in Vals(ranges) <=> \E i \in 1..n : ranges[i][1] <= v /\ v < ranges[i][2]
      BY <1>1 DEF Vals, Values
    <3>3. (new[n][1] <= v /\ v < new[n][2]) <=> (ranges[n][1] <= v /\ v < ranges[n][2]) \/ v \in Between(e, end)
      BY <1>3, <1>6, <1>8 DEF Between
    <3>4. \A i \in 1..n : i # n => new[i] = ranges[i]
      BY <1>6
    <3>. QED  BY <1>2, <3>1, <3>2, <3>3, <3>4
  <2>2. Vals(new) \in SUBSET Nat /\ Vals(ranges) \in SUBSET Nat /\ Between(e, end) \in SUBSET Nat
    BY DEF Vals, Values, Between
  <2>. QED  BY <2>1, <2>2
<1>. QED  BY <1>3, <1>4, <1>7, <1>11, <1>12

Kept(c, d) ==
  /\ c \in CoverKind => d \in CoverKind
  /\ c \in GroupKind => d \in GroupKind /\ d.done = c.done

\* d is c with a range added, or what can be kept of it.
Added(c, d, start, end) ==
  /\ IsRangeList(d.ranges)
  /\ LastEnd(d.ranges) \in {LastEnd(c.ranges), end}
  /\ \A v \in Vals(d.ranges) : v \in Vals(c.ranges) \/ v \in Between(start, end)
  /\ LastEnd(c.ranges) <= start =>
        d.ok = c.ok /\ LastEnd(d.ranges) = end /\ Vals(d.ranges) = Vals(c.ranges) \cup Between(start, end)

(* A range that is appended is added.                                      *)
LEMMA RangeIsAppended ==
  ASSUME NEW c \in CoverKind \cup GroupKind, IsRangeList(c.ranges),
         NEW start \in Nat, NEW end \in Nat, start < end, LastEnd(c.ranges) <= start
  PROVE  LET d == AddTo(c, <<start, end>>)
         IN Kept(c, d) /\ Added(c, d, start, end)
<1>1. PICK d : d = AddTo(c, <<start, end>>)
  OBVIOUS
<1>2. PICK new : new = Append(c.ranges, <<start, end>>)
  OBVIOUS
<1>3. IsRangeList(new) /\ LastEnd(new) = end /\ Vals(new) = Vals(c.ranges) \cup Between(start, end)
  BY <1>2, AppendedRange
<1>4. new \in Seq(Nat \X Nat)
  BY <1>3 DEF IsRangeList
<1>5. d = [c EXCEPT !.ranges = new]
  BY <1>1, <1>2 DEF AddTo
<1>6. Kept(c, d) /\ d.ranges = new /\ d.ok = c.ok
  <2>1. ASSUME c \in CoverKind PROVE d \in CoverKind /\ d.ranges = new /\ d.ok = c.ok
    BY <1>4, <1>5, <2>1 DEF CoverKind
  <2>2. ASSUME c \in GroupKind PROVE d \in GroupKind /\ d.ranges = new /\ d.ok = c.ok /\ d.done = c.done
    BY <1>4, <1>5, <2>2 DEF GroupKind
  <2>. QED  BY <2>1, <2>2 DEF Kept
<1>. QED  BY <1>1, <1>3, <1>6 DEF Added

(* A range that makes the last one longer is added.                        *)
LEMMA RangeIsExtended ==
  ASSUME NEW c \in CoverKind \cup GroupKind, IsRangeList(c.ranges), Len(c.ranges) # 0,
         NEW start \in Nat, NEW end \in Nat, start < end,
         start <= LastEnd(c.ranges), LastEnd(c.ranges) <= end
  PROVE  LET d == ExtendTo(c, end)
         IN Kept(c, d) /\ Added(c, d, start, end)
<1>1. PICK d : d = ExtendTo(c, end)
  OBVIOUS
<1>2. PICK e \in Nat : e = LastEnd(c.ranges)
  BY ValsEnd
<1>3. PICK new : new = [c.ranges EXCEPT ![Len(c.ranges)][2] = end]
  OBVIOUS
<1>4. IsRangeList(new) /\ LastEnd(new) = end /\ Vals(new) = Vals(c.ranges) \cup Between(e, end)
  BY <1>2, <1>3, ExtendedRange
<1>5. new \in Seq(Nat \X Nat)
  BY <1>4 DEF IsRangeList
<1>6. d = [c EXCEPT !.ranges = new]
  <2>1. CASE c \in CoverKind
    BY <1>1, <1>3, <2>1 DEF ExtendTo, CoverKind
  <2>2. CASE c \in GroupKind
    BY <1>1, <1>3, <2>2 DEF ExtendTo, GroupKind
  <2>. QED  BY <2>1, <2>2
<1>7. Kept(c, d) /\ d.ranges = new /\ d.ok = c.ok
  <2>1. ASSUME c \in CoverKind PROVE d \in CoverKind /\ d.ranges = new /\ d.ok = c.ok
    BY <1>5, <1>6, <2>1 DEF CoverKind
  <2>2. ASSUME c \in GroupKind PROVE d \in GroupKind /\ d.ranges = new /\ d.ok = c.ok /\ d.done = c.done
    BY <1>5, <1>6, <2>2 DEF GroupKind
  <2>. QED  BY <2>1, <2>2 DEF Kept
<1>8. \A v \in Between(e, end) : v \in Between(start, end)
  BY <1>2 DEF Between
<1>9. e <= start => Between(e, end) = Between(start, end)
  <2>1. e <= start => e = start
    BY <1>2
  <2>. QED  BY <2>1
<1>. QED  BY <1>1, <1>2, <1>4, <1>7, <1>8, <1>9 DEF Added

(* A range that is refused changes nothing but ok.                         *)
LEMMA RangeIsRefused ==
  ASSUME NEW c \in CoverKind \cup GroupKind, IsRangeList(c.ranges),
         NEW start \in Nat, NEW end \in Nat, start < end, start < LastEnd(c.ranges)
  PROVE  LET d == Failed(c)
         IN Kept(c, d) /\ Added(c, d, start, end)
<1>1. PICK d : d = Failed(c)
  OBVIOUS
<1>2. PICK e \in Nat : e = LastEnd(c.ranges)
  BY ValsEnd
<1>3. Kept(c, d) /\ d.ranges = c.ranges
  <2>1. ASSUME c \in CoverKind PROVE d \in CoverKind /\ d.ranges = c.ranges
    BY <1>1, <2>1 DEF Failed, CoverKind
  <2>2. ASSUME c \in GroupKind PROVE d \in GroupKind /\ d.ranges = c.ranges /\ d.done = c.done
    BY <1>1, <2>2 DEF Failed, GroupKind
  <2>. QED  BY <2>1, <2>2 DEF Kept
<1>4. ~(e <= start)
  BY <1>2
<1>. QED  BY <1>1, <1>2, <1>3, <1>4 DEF Added

(* addRange adds a range in order, and never anything else.                *)
LEMMA RangeIsAdded ==
  ASSUME NEW c \in CoverKind \cup GroupKind, IsRangeList(c.ranges),
         NEW start \in Nat, NEW end \in Nat, start < end
  PROVE  LET d == addRange(c, start, end)
         IN Kept(c, d) /\ Added(c, d, start, end)
<1>1. PICK e \in Nat : /\ e = LastEnd(c.ranges) /\ (c.ranges = <<>> => e = 0)
                       /\ Len(c.ranges) = 0 <=> c.ranges = <<>>
                       /\ c.ranges # <<>> => Last(c.ranges)[2] = e
  <2>1. /\ LastEnd(c.ranges) \in Nat
        /\ Len(c.ranges) = 0 => c.ranges = <<>> /\ LastEnd(c.ranges) = 0
        /\ Len(c.ranges) # 0 => LastEnd(c.ranges) = c.ranges[Len(c.ranges)][2]
    BY ValsEnd
  <2>2. c.ranges = <<>> => Len(c.ranges) = 0
    OBVIOUS
  <2>. QED  BY <2>1, <2>2 DEF Last
<1>2. CASE c.ranges = <<>> \/ e < start
  <2>1. addRange(c, start, end) = AddTo(c, <<start, end>>)
    BY <1>1, <1>2 DEF addRange
  <2>2. LastEnd(c.ranges) <= start
    BY <1>1, <1>2
  <2>. QED  BY <2>1, <2>2, RangeIsAppended
<1>3. CASE ~(c.ranges = <<>> \/ e < start) /\ e = start
  <2>1. addRange(c, start, end) = ExtendTo(c, end)
    BY <1>1, <1>3 DEF addRange
  <2>2. start <= LastEnd(c.ranges) /\ LastEnd(c.ranges) <= end /\ Len(c.ranges) # 0
    BY <1>1, <1>3
  <2>. QED  BY <2>1, <2>2, RangeIsExtended
<1>4. CASE ~(c.ranges = <<>> \/ e < start) /\ e # start
  <2>1. addRange(c, start, end) = Failed(c)
    BY <1>1, <1>4 DEF addRange
  <2>2. start < LastEnd(c.ranges)
    BY <1>1, <1>4
  <2>. QED  BY <2>1, <2>2, RangeIsRefused
<1>. QED  BY <1>2, <1>3, <1>4

(* So does addRangeCmap4.                                                  *)
LEMMA RangeIsAddedCmap4 ==
  ASSUME NEW c \in CoverKind \cup GroupKind, IsRangeList(c.ranges),
         NEW start \in Nat, NEW end \in Nat, start < end
  PROVE  LET d == addRangeCmap4(c, start, end)
         IN Kept(c, d) /\ Added(c, d, start, end)
<1>1. PICK e \in Nat : /\ e = LastEnd(c.ranges) /\ (c.ranges = <<>> => e = 0)
                       /\ Len(c.ranges) = 0 <=> c.ranges = <<>>
                       /\ c.ranges # <<>> => Last(c.ranges)[2] = e
  <2>1. /\ LastEnd(c.ranges) \in Nat
        /\ Len(c.ranges) = 0 => c.ranges = <<>> /\ LastEnd(c.ranges) = 0
        /\ Len(c.ranges) # 0 => LastEnd(c.ranges) = c.ranges[Len(c.ranges)][2]
    BY ValsEnd
  <2>2. c.ranges = <<>> => Len(c.ranges) = 0
    OBVIOUS
  <2>. QED  BY <2>1, <2>2 DEF Last
<1>2. CASE c.ranges # <<>> /\ e > end
  <2>1. addRangeCmap4(c, start, end) = Failed(c)
    BY <1>1, <1>2 DEF addRangeCmap4
  <2>2. start < LastEnd(c.ranges)
    BY <1>1, <1>2
  <2>. QED  BY <2>1, <2>2, RangeIsRefused
<1>3. CASE ~(c.ranges # <<>> /\ e > end) /\ (c.ranges = <<>> \/ e < start)
  <2>1. addRangeCmap4(c, start, end) = AddTo(c, <<start, end>>)
    BY <1>1, <1>3 DEF addRangeCmap4
  <2>2. LastEnd(c.ranges) <= start
    BY <1>1, <1>3
  <2>. QED  BY <2>1, <2>2, RangeIsAppended
<1>4. CASE ~(c.ranges # <<>> /\ e > end) /\ ~(c.ranges = <<>> \/ e < start)
  <2>1. addRangeCmap4(c, start, end) = ExtendTo(c, end)
    BY <1>1, <1>4 DEF addRangeCmap4
  <2>2. start <= LastEnd(c.ranges) /\ LastEnd(c.ranges) <= end /\ Len(c.ranges) # 0
    BY <1>1, <1>4
  <2>. QED  BY <2>1, <2>2, RangeIsExtended
<1>. QED  BY <1>2, <1>3, <1>4

\* d is c with the members of S added, which are not before start nor behind
\* end, or what can be kept of it.
AddedAll(c, d, start, end, S) ==
  /\ d \in CoverKind /\ IsRangeList(d.ranges)
  /\ LastEnd(d.ranges) <= LastEnd(c.ranges) \/ LastEnd(d.ranges) <= end
  /\ \A v \in Vals(d.ranges) : v \in Vals(c.ranges) \/ v \in S
  /\ c.ok /\ LastEnd(c.ranges) <= start =>
        d.ok /\ LastEnd(d.ranges) <= end /\ Vals(d.ranges) = Vals(c.ranges) \cup S

(* Before the first single code nothing has been added.                    *)
LEMMA NothingAdded ==
  ASSUME NEW c \in CoverKind, IsRangeList(c.ranges), NEW start \in Nat
  PROVE  AddedAll(c, c, start, start, {})
<1>1. LastEnd(c.ranges) \in Nat
  BY ValsEnd
<1>. QED  BY <1>1 DEF AddedAll

(* A code that is not given adds nothing.                                  *)
LEMMA NoneMore ==
  ASSUME NEW c \in CoverKind, IsRangeList(c.ranges), NEW start \in Nat, NEW x \in Nat,
         NEW d, NEW S, AddedAll(c, d, start, x, S)
  PROVE  AddedAll(c, d, start, x + 1, S)
<1>1. LastEnd(c.ranges) \in Nat /\ LastEnd(d.ranges) \in Nat
  BY ValsEnd DEF AddedAll
<1>. QED  BY <1>1 DEF AddedAll

(* A code that is given is added to those before it.                       *)
LEMMA OneMore ==
  ASSUME NEW c \in CoverKind, IsRangeList(c.ranges), NEW start \in Nat, NEW x \in Nat, start <= x,
         NEW d, NEW S, AddedAll(c, d, start, x, S),
         NEW e \in CoverKind, IF d.ok THEN Added(d, e, x, x + 1) ELSE e = d
  PROVE  AddedAll(c, e, start, x + 1, S \cup {x})
<1>1. LastEnd(c.ranges) \in Nat /\ LastEnd(d.ranges) \in Nat
  BY ValsEnd DEF AddedAll
<1>2. \A v : v \in Between(x, x + 1) <=> v = x
  BY DEF Between
<1>3. Between(x, x + 1) = {x}
  BY <1>2
<1>4. CASE ~d.ok
  <2>1. e = d
    BY <1>4
  <2>. QED  BY <1>1, <1>4, <2>1 DEF AddedAll
<1>5. CASE d.ok
  <2>1. /\ IsRangeList(e.ranges)
        /\ LastEnd(e.ranges) \in {LastEnd(d.ranges), x + 1}
        /\ \A v \in Vals(e.ranges) : v \in Vals(d.ranges) \/ v = x
        /\ LastEnd(d.ranges) <= x =>
              e.ok = d.ok /\ LastEnd(e.ranges) = x + 1 /\ Vals(e.ranges) = Vals(d.ranges) \cup {x}
    BY <1>2, <1>3, <1>5 DEF Added
  <2>2. /\ LastEnd(d.ranges) <= LastEnd(c.ranges) \/ LastEnd(d.ranges) <= x
        /\ \A v \in Vals(d.ranges) : v \in Vals(c.ranges) \/ v \in S
        /\ c.ok /\ LastEnd(c.ranges) <= start =>
              d.ok /\ LastEnd(d.ranges) <= x /\ Vals(d.ranges) = Vals(c.ranges) \cup S
    BY DEF AddedAll
  <2>3. LastEnd(e.ranges) <= LastEnd(c.ranges) \/ LastEnd(e.ranges) <= x + 1
    BY <1>1, <2>1, <2>2
  <2>4. \A v \in Vals(e.ranges) : v \in Vals(c.ranges) \/ v \in S \cup {x}
    BY <2>1, <2>2
  <2>5. ASSUME c.ok, LastEnd(c.ranges) <= start
        PROVE  e.ok /\ LastEnd(e.ranges) <= x + 1 /\ Vals(e.ranges) = Vals(c.ranges) \cup (S \cup {x})
    <3>1. d.ok /\ LastEnd(d.ranges) <= x /\ Vals(d.ranges) = Vals(c.ranges) \cup S
      BY <2>2, <2>5
    <3>2. e.ok = d.ok /\ LastEnd(e.ranges) = x + 1 /\ Vals(e.ranges) = Vals(d.ranges) \cup {x}
      BY <2>1, <3>1
    <3>3. Vals(e.ranges) = Vals(c.ranges) \cup (S \cup {x})
      BY <3>1, <3>2
    <3>4. e.ok /\ LastEnd(e.ranges) <= x + 1
      BY <3>1, <3>2
    <3>. QED  BY <3>3, <3>4
  <2>. QED  BY <2>1, <2>3, <2>4, <2>5 DEF AddedAll
<1>. QED  BY <1>4, <1>5

(* The same of AddOne, which stops after a failure.                        *)
LEMMA OneIsAdded ==
  ASSUME NEW twice \in BOOLEAN, NEW c \in CoverKind, IsRangeList(c.ranges),
         NEW start \in Nat, NEW x \in Nat, start <= x,
         NEW d, NEW S, AddedAll(c, d, start, x, S)
  PROVE  AddedAll(c, AddOne(twice, d, x), start, x + 1, S \cup {x})
<1>1. PICK e : e = AddOne(twice, d, x)
  OBVIOUS
<1>2. d \in CoverKind /\ IsRangeList(d.ranges) /\ d \in CoverKind \cup GroupKind /\ x + 1 \in Nat /\ x < x + 1
  BY DEF AddedAll
<1>3. CASE d.ok
  <2>1. e = IF twice THEN addRangeCmap4(d, x, x + 1) ELSE addRange(d, x, x + 1)
    BY <1>1, <1>3 DEF AddOne
  <2>2. Kept(d, e) /\ Added(d, e, x, x + 1)
    <3>1. CASE twice
      BY <1>2, <2>1, <3>1, RangeIsAddedCmap4
    <3>2. CASE ~twice
      BY <1>2, <2>1, <3>2, RangeIsAdded
    <3>. QED  BY <3>1, <3>2
  <2>3. e \in CoverKind
    BY <1>2, <2>2 DEF Kept
  <2>. QED  BY <1>1, <1>3, <2>2, <2>3, OneMore
<1>4. CASE ~d.ok
  <2>1. e = d
    BY <1>1, <1>4 DEF AddOne
  <2>. QED  BY <1>1, <1>2, <1>4, <2>1, OneMore
<1>. QED  BY <1>3, <1>4

(* Single codes are added one by one (getCoverageFormat4).                 *)
LEMMA SinglesAreAdded ==
  ASSUME NEW twice \in BOOLEAN, NEW c \in CoverKind, IsRangeList(c.ranges),
         NEW start \in Nat, NEW end \in Nat, start <= end, NEW chars
  PROVE  AddedAll(c, AddSingles(twice, c, start, end, chars), start, end + 1, chars \cap (start..end))
<1> DEFINE n == end - start + 1
           Given(k) == chars \cap (start..start + k - 1)
           Next1(x, k) == IF start + k - 1 \in chars THEN AddOne(twice, x, start + k - 1) ELSE x
           Kind(k) == {d \in CoverKind : AddedAll(c, d, start, start + k, Given(k))}
           kinds == [k \in 0..n |-> Kind(k)]
           step == [k \in 0..n |-> [x \in Kind(k - 1) |-> Next1(x, k)]]
           f == CHOOSE f : f = [k \in 0..n |-> IF k = 0 THEN c ELSE Next1(f[k - 1], k)]
<1>1. n \in Nat /\ start + n = end + 1 /\ start + n - 1 = end
  OBVIOUS
<1>2. c \in Kind(0)
  <2>1. Given(0) = {}
    OBVIOUS
  <2>2. AddedAll(c, c, start, start + 0, {})
    BY NothingAdded
  <2>. QED  BY <2>1, <2>2
<1>3. ASSUME NEW k \in 1..n, NEW x \in Kind(k - 1) PROVE Next1(x, k) \in Kind(k)
  <2>1. PICK y \in Nat : y = start + k - 1 /\ y = start + (k - 1) /\ y + 1 = start + k /\ start <= y
    OBVIOUS
  <2>2. AddedAll(c, x, start, y, Given(k - 1))
    BY <2>1
  <2>3. start + (k - 1) - 1 = y - 1 /\ start + k - 1 = y
    BY <2>1
  <2>4. start..y = (start..y - 1) \cup {y}
    BY <2>1
  <2>5. CASE y \in chars
    <3>1. Next1(x, k) = AddOne(twice, x, y)
      BY <2>1, <2>5
    <3>2. Given(k) = Given(k - 1) \cup {y}
      BY <2>3, <2>4, <2>5
    <3>3. AddedAll(c, AddOne(twice, x, y), start, y + 1, Given(k - 1) \cup {y})
      BY <2>1, <2>2, OneIsAdded
    <3> HIDE DEF Next1, Given
    <3>. QED  BY <2>1, <3>1, <3>2, <3>3 DEF AddedAll
  <2>6. CASE y \notin chars
    <3>1. Next1(x, k) = x
      BY <2>1, <2>6
    <3>2. Given(k) = Given(k - 1)
      BY <2>3, <2>4, <2>6
    <3>3. AddedAll(c, x, start, y + 1, Given(k - 1))
      BY <2>1, <2>2, NoneMore
    <3> HIDE DEF Next1, Given
    <3>. QED  BY <2>1, <3>1, <3>2, <3>3 DEF AddedAll
  <2>. QED  BY <2>5, <2>6
<1>4. \A k \in 0..n : k # 0 => k \in 1..n /\ k - 1 \in 0..n
  BY <1>1
<1>5. \A k \in 0..n : k # 0 => \A x \in kinds[k - 1] :
         step[k][x] \in kinds[k] /\ step[k][x] = Next1(x, k)
  <2> SUFFICES ASSUME NEW k \in 0..n, k # 0, NEW x \in kinds[k - 1]
               PROVE  step[k][x] \in kinds[k] /\ step[k][x] = Next1(x, k)
    OBVIOUS
  <2> HIDE DEF n, Kind, Next1
  <2>1. k \in 1..n /\ k - 1 \in 0..n
    BY <1>4
  <2>2. x \in Kind(k - 1)
    BY <2>1
  <2>3. Next1(x, k) \in Kind(k)
    BY <1>3, <2>1, <2>2
  <2>. QED  BY <2>1, <2>2, <2>3
<1> HIDE DEF Kind
<1>6. c \in kinds[0]
  BY <1>1, <1>2
<1> HIDE DEF n, step, kinds
<1>7. PICK g : IsIteration(0, n, c, step, kinds, g)
  <2>1. 0 \in Nat /\ 0 <= n
    BY <1>1
  <2> HIDE DEF Next1
  <2>. QED  BY <1>1, <1>5, <1>6, <2>1, IterationExists
<1>8. g = [k \in 0..n |-> IF k = 0 THEN c ELSE Next1(g[k - 1], k)]
  <2> HIDE DEF Next1
  <2>. QED  BY <1>4, <1>5, <1>7 DEF IsIteration
<1>9. f = [k \in 0..n |-> IF k = 0 THEN c ELSE Next1(f[k - 1], k)]
  <2> HIDE DEF Next1
  <2>. QED  BY <1>8
<1>10. AddSingles(twice, c, start, end, chars) = f[n]
  BY DEF AddSingles, n
<1> HIDE DEF f, Next1
<1>11. f[0] = c /\ \A k \in 1..n : k \in 0..n /\ k # 0 /\ f[k] = Next1(f[k - 1], k)
  BY <1>1, <1>9
<1> DEFINE T == {k \in 0..n : f[k] \in kinds[k]}
<1>12. 0 \in T
  BY <1>1, <1>6, <1>11
<1>13. ASSUME NEW k \in 1..n, k - 1 \in T PROVE k \in T
  <2>1. k \in 0..n /\ k # 0 /\ f[k - 1] \in kinds[k - 1]
    BY <1>11, <1>13
  <2>2. step[k][f[k - 1]] \in kinds[k] /\ step[k][f[k - 1]] = Next1(f[k - 1], k)
    BY <1>5, <2>1
  <2>. QED  BY <1>11, <2>1, <2>2
<1> HIDE DEF T
<1>14. n \in T
  <2>1. n \in 0..n
    BY <1>1
  <2>. QED  BY <1>1, <1>12, <1>13, <2>1, ReachesAll
<1>15. f[n] \in Kind(n)
  BY <1>14 DEF T, kinds
<1>16. AddedAll(c, f[n], start, start + n, Given(n))
  BY <1>15 DEF Kind
<1>17. Given(n) = chars \cap (start..end)
  BY <1>1
<1> HIDE DEF Given
<1>. QED  BY <1>1, <1>10, <1>16, <1>17

-----------------------------------------------------------------------------
(***************************************************************************)
(* Tables of format 4.                                                     *)
(***************************************************************************)

SegmentKind == [start : 0..kMaxCodePoint, end : 0..kMaxCodePoint, delta : Nat,
                glyphs : {NoTable} \cup Seq(Nat)]
\* The code points a segment gives a glyph.
Glyphs(s) == {v \in s.start .. s.end : HasGlyphId(s, v)}

(* A segment whose glyph ids do not reach 0 maps all its codes: the last   *)
(* glyph id is larger than the segment is long.                            *)
LEMMA WholeSegment ==
  ASSUME NEW s \in SegmentKind, s.start <= s.end, s.glyphs = NoTable,
         (s.end + s.delta) % GlyphIds > s.end - s.start
  PROVE  Glyphs(s) = s.start .. s.end
<1>1. PICK G \in Nat \ {0} : G = GlyphIds
  BY ReaderAssumption
<1>2. PICK a, e, x \in Nat : a = s.start /\ e = s.end /\ x = s.delta /\ a <= e
  BY DEF SegmentKind
<1>3. PICK q \in Nat, r \in 0..G - 1 : r = (e + x) % G /\ e + x = G * q + r /\ r > e - a
  <2>1. PICK y \in Nat : y = e + x
    OBVIOUS
  <2>2. y \div G \in Nat /\ y % G \in 0..G - 1 /\ y = G * (y \div G) + (y % G)
    BY DivMod
  <2>. QED  BY <1>1, <1>2, <2>1, <2>2
<1>4. ASSUME NEW v \in a..e PROVE HasGlyphId(s, v)
  <2>1. PICK d \in Nat : d = e - v /\ v = e - d /\ d <= e - a
    OBVIOUS
  <2>2. PICK w \in 0..G - 1 : w = r - d /\ w # 0
    BY <1>3, <2>1
  <2>3. PICK y \in Nat : y = v + x
    OBVIOUS
  <2>4. y = G * q + w
    <3>1. PICK z \in Int : z = G * q
      OBVIOUS
    <3>. QED  BY <1>3, <2>1, <2>2, <2>3, <3>1
  <2>5. y % G = w
    BY <2>4, DivUnique
  <2>. QED  BY <1>1, <1>2, <2>2, <2>3, <2>5 DEF HasGlyphId
<1>. QED  BY <1>2, <1>4 DEF Glyphs

(* A segment adds the code points it gives a glyph.                        *)
LEMMA SegmentIsAdded ==
  ASSUME NEW c \in CoverKind, IsRangeList(c.ranges), NEW s \in SegmentKind, s.start <= s.end
  PROVE  AddedAll(c, AddSegment(c, s), s.start, s.end + 1, Glyphs(s))
<1>1. PICK a, e \in Nat : a = s.start /\ e = s.end /\ a <= e
  BY DEF SegmentKind
<1>2. PICK d : d = AddSegment(c, s)
  OBVIOUS
<1>3. CASE s.glyphs = NoTable /\ (s.end + s.delta) % GlyphIds > s.end - s.start
  <2>1. d = addRangeCmap4(c, a, e + 1)
    BY <1>1, <1>2, <1>3 DEF AddSegment
  <2>2. c \in CoverKind \cup GroupKind /\ e + 1 \in Nat /\ a < e + 1
    BY <1>1
  <2>3. Kept(c, d) /\ Added(c, d, a, e + 1)
    BY <2>1, <2>2, RangeIsAddedCmap4
  <2>4. Glyphs(s) = a..e
    BY <1>1, <1>3, WholeSegment
  <2>5. Between(a, e + 1) = a..e
    BY DEF Between
  <2>6. LastEnd(c.ranges) \in Nat
    BY ValsEnd
  <2>7. AddedAll(c, d, a, e + 1, a..e)
    BY <2>2, <2>3, <2>5, <2>6 DEF Added, Kept, AddedAll
  <2>. QED  BY <1>1, <1>2, <2>4, <2>7
<1>4. CASE ~(s.glyphs = NoTable /\ (s.end + s.delta) % GlyphIds > s.end - s.start)
  <2> DEFINE chars == {j \in s.start .. s.end : HasGlyphId(s, j)}
  <2>1. d = AddSingles(TRUE, c, a, e, chars)
    BY <1>1, <1>2, <1>4 DEF AddSegment, AddSingly
  <2>2. chars \cap (a..e) = Glyphs(s)
    BY <1>1 DEF Glyphs
  <2> HIDE DEF chars
  <2>3. AddedAll(c, AddSingles(TRUE, c, a, e, chars), a, e + 1, chars \cap (a..e))
    BY <1>1, SinglesAreAdded
  <2>. QED  BY <1>1, <1>2, <2>1, <2>2, <2>3
<1>. QED  BY <1>3, <1>4

SegmentsMap(t, k) == {v \in Nat : \E i \in 1..k : v \in Glyphs(t.segments[i])}
SegmentsInOrder(t, k) ==
  /\ \A i \in 1..k : t.segments[i].start <= t.segments[i].end
  /\ \A i \in 1..k - 1 : t.segments[i].end < t.segments[i + 1].start
\* What is known when k segments have been read.
SegmentsRead(t, k) ==
  {d \in CoverKind :
     /\ IsRangeList(d.ranges) /\ LastEnd(d.ranges) <= kMaxCodePoint + 1
     /\ \A v \in Vals(d.ranges) : v \in SegmentsMap(t, k)
     /\ SegmentsInOrder(t, k) =>
           /\ d.ok /\ Vals(d.ranges) = SegmentsMap(t, k)
           /\ LastEnd(d.ranges) <= IF k = 0 THEN 0 ELSE t.segments[k].end + 1}

(* Reading begins with no ranges.                                          *)
LEMMA NoRangesKind == NoRanges \in CoverKind /\ IsRangeList(NoRanges.ranges)
                      /\ LastEnd(NoRanges.ranges) = 0 /\ Vals(NoRanges.ranges) = {} /\ NoRanges.ok
<1>1. NoRanges.ranges = <<>> /\ NoRanges.ok = TRUE /\ <<>> \in Seq(Nat \X Nat) /\ Len(<<>>) = 0
  BY DEF NoRanges
<1>2. NoRanges \in CoverKind
  BY DEF NoRanges, CoverKind
<1>3. 1..0 = {} /\ 2..0 = {}
  OBVIOUS
<1>4. IsRangeList(<<>>)
  BY <1>1, <1>3 DEF IsRangeList
<1>5. LastEnd(<<>>) = 0 /\ Vals(<<>>) = {}
  BY <1>1, <1>4, ValsEnd
<1>. QED  BY <1>1, <1>2, <1>4, <1>5

(* The segments of a table.                                                *)
LEMMA SegmentsOfTable ==
  ASSUME NEW t, IsTable(t), NEW i \in 1..Len(t.segments)
  PROVE  t.segments[i] \in SegmentKind /\ t.segments[i].end \in Nat
<1>1. t.segments \in Seq(SegmentKind)
  BY DEF IsTable, SegmentKind
<1>2. t.segments[i] \in SegmentKind
  BY <1>1
<1>3. \A v \in 0..kMaxCodePoint : v \in Nat
  BY ReaderAssumption
<1>. QED  BY <1>2, <1>3 DEF SegmentKind

(* One more segment is read.                                               *)
LEMMA OneSegmentMore ==
  ASSUME NEW t, IsTable(t), NEW k \in 1..Len(t.segments), NEW c \in SegmentsRead(t, k - 1)
  PROVE  ReadSegment(c, t.segments[k]) \in SegmentsRead(t, k)
<1>1. PICK s \in SegmentKind : s = t.segments[k]
  BY SegmentsOfTable
<1>2. PICK a, e, M \in Nat : a = s.start /\ e = s.end /\ M = kMaxCodePoint /\ a <= M /\ e <= M
  BY ReaderAssumption DEF SegmentKind
<1>3. k \in Nat /\ k # 0 /\ k - 1 \in Nat
  BY DEF IsTable
<1>4. /\ c \in CoverKind /\ IsRangeList(c.ranges) /\ LastEnd(c.ranges) <= M + 1
      /\ \A v \in Vals(c.ranges) : v \in SegmentsMap(t, k - 1)
      /\ SegmentsInOrder(t, k - 1) =>
            /\ c.ok /\ Vals(c.ranges) = SegmentsMap(t, k - 1)
            /\ LastEnd(c.ranges) <= IF k - 1 = 0 THEN 0 ELSE t.segments[k - 1].end + 1
  BY <1>2 DEF SegmentsRead
<1>5. SegmentsMap(t, k) = SegmentsMap(t, k - 1) \cup Glyphs(s)
  <2>1. \A i : i \in 1..k <=> i \in 1..k - 1 \/ i = k
    BY <1>3
  <2>2. Glyphs(s) \in SUBSET Nat
    BY <1>2 DEF Glyphs
  <2>. QED  BY <1>1, <2>1, <2>2 DEF SegmentsMap
<1>6. ASSUME SegmentsInOrder(t, k)
      PROVE  /\ SegmentsInOrder(t, k - 1) /\ a <= e
             /\ c.ok /\ Vals(c.ranges) = SegmentsMap(t, k - 1) /\ LastEnd(c.ranges) <= a
  <2>1. SegmentsInOrder(t, k - 1)
    <3>1. \A i : i \in 1..k - 1 => i \in 1..k
      BY <1>3
    <3>2. \A i : i \in 1..(k - 1) - 1 => i \in 1..k - 1
      BY <1>3
    <3>. QED  BY <1>6, <3>1, <3>2 DEF SegmentsInOrder
  <2>2. a <= e
    <3>1. k \in 1..k
      BY <1>3
    <3>. QED  BY <1>1, <1>2, <1>6, <3>1 DEF SegmentsInOrder
  <2>3. LastEnd(c.ranges) \in Nat
    BY <1>4, ValsEnd
  <2>4. LastEnd(c.ranges) <= a
    <3>1. CASE k = 1
      BY <1>2, <1>4, <2>1, <2>3, <3>1
    <3>2. CASE k # 1
      <4>1. k - 1 \in 1..k - 1 /\ k - 1 # 0 /\ (k - 1) + 1 = k
        BY <1>3, <3>2
      <4>2. t.segments[k - 1].end < t.segments[k].start
        BY <1>6, <4>1 DEF SegmentsInOrder
      <4>3. k - 1 \in 1..Len(t.segments)
        BY <1>3, <3>2 DEF IsTable
      <4>4. PICK p \in Nat : p = t.segments[k - 1].end
        BY <4>3, SegmentsOfTable
      <4>. QED  BY <1>1, <1>2, <1>4, <2>1, <2>3, <4>1, <4>2, <4>4
    <3>. QED  BY <3>1, <3>2
  <2>. QED  BY <1>4, <2>1, <2>2, <2>4
<1>7. PICK d : d = ReadSegment(c, s)
  OBVIOUS
<1>8. CASE c.ok /\ a <= e
  <2>1. d = AddSegment(c, s)
    BY <1>2, <1>7, <1>8 DEF ReadSegment
  <2>2. AddedAll(c, d, a, e + 1, Glyphs(s))
    BY <1>2, <1>4, <1>8, <2>1, SegmentIsAdded
  <2>3. /\ d \in CoverKind /\ IsRangeList(d.ranges)
        /\ LastEnd(d.ranges) <= LastEnd(c.ranges) \/ LastEnd(d.ranges) <= e + 1
        /\ \A v \in Vals(d.ranges) : v \in Vals(c.ranges) \/ v \in Glyphs(s)
        /\ LastEnd(c.ranges) <= a =>
              d.ok /\ LastEnd(d.ranges) <= e + 1 /\ Vals(d.ranges) = Vals(c.ranges) \cup Glyphs(s)
    BY <1>8, <2>2 DEF AddedAll
  <2>4. LastEnd(d.ranges) <= M + 1
    <3>1. LastEnd(c.ranges) \in Nat /\ LastEnd(d.ranges) \in Nat
      BY <1>4, <2>3, ValsEnd
    <3>. QED  BY <1>2, <1>4, <2>3, <3>1
  <2>5. \A v \in Vals(d.ranges) : v \in SegmentsMap(t, k)
    BY <1>4, <1>5, <2>3
  <2>6. ASSUME SegmentsInOrder(t, k)
        PROVE  d.ok /\ Vals(d.ranges) = SegmentsMap(t, k)
               /\ LastEnd(d.ranges) <= IF k = 0 THEN 0 ELSE t.segments[k].end + 1
    BY <1>1, <1>2, <1>3, <1>5, <1>6, <2>3, <2>6
  <2>. QED  BY <1>1, <1>2, <1>7, <2>3, <2>4, <2>5, <2>6 DEF SegmentsRead
<1>9. CASE ~(c.ok /\ a <= e)
  <2>1. d = c \/ d = Failed(c)
    BY <1>2, <1>7, <1>9 DEF ReadSegment
  <2>2. d \in CoverKind /\ d.ranges = c.ranges
    BY <1>4, <2>1 DEF Failed, CoverKind
  <2>3. ~SegmentsInOrder(t, k)
    BY <1>6, <1>9
  <2>4. \A v \in Vals(d.ranges) : v \in SegmentsMap(t, k)
    BY <1>4, <1>5, <2>2
  <2>. QED  BY <1>1, <1>2, <1>4, <1>7, <2>2, <2>3, <2>4 DEF SegmentsRead
<1>. QED  BY <1>8, <1>9

(* A table of format 4 is read (getCoverageFormat4).                       *)
LEMMA SegmentsAreRead ==
  ASSUME NEW t, IsTable(t), t.fits # "cut"
  PROVE  getCoverageFormat4(t) \in SegmentsRead(t, Len(t.segments))
<1>1. PICK n \in Nat : n = Len(t.segments)
  BY DEF IsTable
<1> DEFINE kinds == [k \in 0..n |-> SegmentsRead(t, k)]
           step == [k \in 0..n |-> [x \in SegmentsRead(t, k - 1) |-> ReadSegment(x, t.segments[k])]]
           f == CHOOSE f : f = [k \in 0..n |-> IF k = 0 THEN NoRanges ELSE ReadSegment(f[k - 1], t.segments[k])]
<1>2. NoRanges \in SegmentsRead(t, 0)
  <2>1. SegmentsMap(t, 0) = {}
    <3>1. 1..0 = {}
      OBVIOUS
    <3>. QED  BY <3>1 DEF SegmentsMap
  <2>2. kMaxCodePoint \in Nat
    BY ReaderAssumption
  <2>. QED  BY <2>1, <2>2, NoRangesKind DEF SegmentsRead
<1>3. \A k \in 0..n : k # 0 => k \in 1..n /\ k - 1 \in 0..n
  OBVIOUS
<1>4. \A k \in 0..n : k # 0 => \A x \in kinds[k - 1] :
         step[k][x] \in kinds[k] /\ step[k][x] = ReadSegment(x, t.segments[k])
  <2> SUFFICES ASSUME NEW k \in 0..n, k # 0, NEW x \in kinds[k - 1]
               PROVE  step[k][x] \in kinds[k] /\ step[k][x] = ReadSegment(x, t.segments[k])
    OBVIOUS
  <2>1. k \in 1..n /\ k - 1 \in 0..n
    BY <1>3
  <2>2. x \in SegmentsRead(t, k - 1)
    BY <2>1
  <2>3. ReadSegment(x, t.segments[k]) \in SegmentsRead(t, k)
    BY <1>1, <2>1, <2>2, OneSegmentMore
  <2>. QED  BY <2>1, <2>2, <2>3
<1>5. NoRanges \in kinds[0]
  BY <1>2
<1> HIDE DEF step, kinds
<1>6. PICK g : IsIteration(0, n, NoRanges, step, kinds, g)
  <2>1. 0 \in Nat /\ 0 <= n
    OBVIOUS
  <2>. QED  BY <1>4, <1>5, <2>1, IterationExists
<1>7. g = [k \in 0..n |-> IF k = 0 THEN NoRanges ELSE ReadSegment(g[k - 1], t.segments[k])]
  BY <1>3, <1>4, <1>6 DEF IsIteration
<1>8. f = [k \in 0..n |-> IF k = 0 THEN NoRanges ELSE ReadSegment(f[k - 1], t.segments[k])]
  BY <1>7
<1>9. getCoverageFormat4(t) = f[n]
  BY <1>1 DEF getCoverageFormat4
<1> HIDE DEF f
<1>10. f[0] = NoRanges /\ \A k \in 1..n : k \in 0..n /\ k # 0 /\ f[k] = ReadSegment(f[k - 1], t.segments[k])
  BY <1>8
<1> DEFINE T == {k \in 0..n : f[k] \in kinds[k]}
<1>11. 0 \in T
  BY <1>5, <1>10
<1>12. ASSUME NEW k \in 1..n, k - 1 \in T PROVE k \in T
  <2>1. k \in 0..n /\ k # 0 /\ f[k - 1] \in kinds[k - 1]
    BY <1>12
  <2>2. step[k][f[k - 1]] \in kinds[k] /\ step[k][f[k - 1]] = ReadSegment(f[k - 1], t.segments[k])
    BY <1>4, <2>1
  <2>. QED  BY <1>10, <2>1, <2>2
<1> HIDE DEF T
<1>13. n \in T
  <2>1. n \in 0..n
    OBVIOUS
  <2>. QED  BY <1>11, <1>12, <2>1, ReachesAll
<1>. QED  BY <1>1, <1>9, <1>13 DEF T, kinds

-----------------------------------------------------------------------------
(***************************************************************************)
(* Tables of format 12.                                                    *)
(***************************************************************************)

\* The code points a group holds, and those of the first k groups.
GroupCodes(g) == {v \in Nat : v <= kMaxCodePoint /\ g[1] <= v /\ v <= g[2]}
GroupsMap(t, k) == {v \in Nat : \E i \in 1..k : v \in GroupCodes(t.groups[i])}
GroupsInOrder(t, k) ==
  /\ \A i \in 1..k : t.groups[i][1] <= t.groups[i][2]
  /\ \A i \in 1..k - 1 : t.groups[i][2] < t.groups[i + 1][1]
\* What is known when k groups have been read.
GroupsRead(t, k) ==
  {d \in GroupKind :
     /\ IsRangeList(d.ranges) /\ LastEnd(d.ranges) <= kMaxCodePoint + 1
     /\ \A v \in Vals(d.ranges) : v \in GroupsMap(t, k)
     /\ GroupsInOrder(t, k) =>
           /\ d.ok /\ Vals(d.ranges) = GroupsMap(t, k)
           /\ IF k = 0 THEN ~d.done /\ LastEnd(d.ranges) = 0
              ELSE IF d.done THEN t.groups[k][2] > kMaxCodePoint
              ELSE LastEnd(d.ranges) <= t.groups[k][2] + 1}

(* Reading begins with no groups.                                          *)
LEMMA NoGroupsKind == NoGroups \in GroupKind /\ IsRangeList(NoGroups.ranges) /\ LastEnd(NoGroups.ranges) = 0
                      /\ Vals(NoGroups.ranges) = {} /\ NoGroups.ok /\ ~NoGroups.done
<1>1. NoGroups.ranges = <<>> /\ NoGroups.ok = TRUE /\ <<>> \in Seq(Nat \X Nat) /\ Len(<<>>) = 0
  BY DEF NoGroups
<1>2. NoGroups \in GroupKind /\ ~NoGroups.done
  BY DEF NoGroups, GroupKind
<1>3. 1..0 = {} /\ 2..0 = {}
  OBVIOUS
<1>4. IsRangeList(<<>>)
  BY <1>1, <1>3 DEF IsRangeList
<1>5. LastEnd(<<>>) = 0 /\ Vals(<<>>) = {}
  BY <1>1, <1>4, ValsEnd
<1>. QED  BY <1>1, <1>2, <1>4, <1>5

\* d is c with a group read, or what can be kept of it.
GroupAdded(c, d, a, e) ==
  /\ d \in GroupKind /\ IsRangeList(d.ranges) /\ LastEnd(d.ranges) <= kMaxCodePoint + 1
  /\ \A v \in Vals(d.ranges) : v \in Vals(c.ranges) \/ v \in GroupCodes(<<a, e>>)
  /\ (c.ok /\ ~c.done /\ a <= e /\ LastEnd(c.ranges) <= a) =>
        /\ d.ok /\ Vals(d.ranges) = Vals(c.ranges) \cup GroupCodes(<<a, e>>)
        /\ IF d.done THEN e > kMaxCodePoint ELSE LastEnd(d.ranges) <= e + 1

(* A group is added up to the last code point.                             *)
LEMMA GroupIsAdded ==
  ASSUME NEW c \in GroupKind, IsRangeList(c.ranges), LastEnd(c.ranges) <= kMaxCodePoint + 1,
         NEW a \in Nat, NEW e \in Nat, c.ok, ~c.done
  PROVE  GroupAdded(c, ReadGroup(c, <<a, e>>), a, e)
<1>1. PICK M \in Nat : M = kMaxCodePoint
  BY ReaderAssumption
<1>2. PICK d : d = ReadGroup(c, <<a, e>>)
  OBVIOUS
<1>3. <<a, e>>[1] = a /\ <<a, e>>[2] = e
  OBVIOUS
<1>4. CASE e < a
  <2>1. d = Failed(c)
    BY <1>2, <1>3, <1>4 DEF ReadGroup
  <2>2. d \in GroupKind /\ d.ranges = c.ranges
    BY <2>1 DEF Failed, GroupKind
  <2>3. ~(a <= e)
    BY <1>4
  <2>. QED  BY <1>2, <2>2, <2>3 DEF GroupAdded
<1>5. CASE ~(e < a) /\ a > M
  <2>1. d = [c EXCEPT !.done = TRUE]
    BY <1>1, <1>2, <1>3, <1>5 DEF ReadGroup
  <2>2. d \in GroupKind /\ d.ranges = c.ranges /\ d.ok = c.ok /\ d.done
    BY <2>1 DEF GroupKind
  <2>3. GroupCodes(<<a, e>>) = {}
    BY <1>1, <1>3, <1>5 DEF GroupCodes
  <2>4. e > M
    BY <1>5
  <2>. QED  BY <1>1, <1>2, <2>2, <2>3, <2>4 DEF GroupAdded
<1>6. CASE ~(e < a) /\ ~(a > M)
  <2>1. PICK z \in Nat : z = (IF e > M THEN M ELSE e) /\ a <= z /\ z <= M /\ z <= e
    BY <1>6
  <2>2. PICK x : x = addRange(c, a, z + 1)
    OBVIOUS
  <2>3. d = [x EXCEPT !.done = e > M]
    <3>1. d = [addRange(c, a, (IF e > M THEN M ELSE e) + 1) EXCEPT !.done = e > M]
      BY <1>1, <1>2, <1>3, <1>6 DEF ReadGroup
    <3>. QED  BY <2>1, <2>2, <3>1
  <2>4. Kept(c, x) /\ Added(c, x, a, z + 1)
    <3>1. c \in CoverKind \cup GroupKind /\ z + 1 \in Nat /\ a < z + 1
      BY <2>1
    <3>. QED  BY <2>1, <2>2, <3>1, RangeIsAdded
  <2>5. x \in GroupKind
    BY <2>4 DEF Kept
  <2>6. d \in GroupKind /\ d.ranges = x.ranges /\ d.ok = x.ok /\ (d.done <=> e > M)
    <3>1. PICK b \in BOOLEAN : b <=> e > M
      OBVIOUS
    <3>2. d = [x EXCEPT !.done = b]
      BY <2>3, <3>1
    <3>3. d \in GroupKind /\ d.ranges = x.ranges /\ d.ok = x.ok /\ d.done = b
      BY <2>5, <3>2 DEF GroupKind
    <3>. QED  BY <3>1, <3>3
  <2>7. Between(a, z + 1) = GroupCodes(<<a, e>>)
    <3>1. ASSUME NEW v \in Nat PROVE (a <= v /\ v < z + 1) <=> (v <= M /\ a <= v /\ v <= e)
      BY <2>1
    <3>. QED  BY <1>1, <1>3, <3>1 DEF Between, GroupCodes
  <2>8. /\ IsRangeList(x.ranges)
        /\ LastEnd(x.ranges) = LastEnd(c.ranges) \/ LastEnd(x.ranges) = z + 1
        /\ \A v \in Vals(x.ranges) : v \in Vals(c.ranges) \/ v \in GroupCodes(<<a, e>>)
        /\ LastEnd(c.ranges) <= a => x.ok = c.ok /\ LastEnd(x.ranges) = z + 1
                                     /\ Vals(x.ranges) = Vals(c.ranges) \cup GroupCodes(<<a, e>>)
    BY <2>4, <2>7 DEF Added
  <2>9. LastEnd(x.ranges) <= M + 1
    BY <1>1, <2>1, <2>8
  <2>10. ASSUME LastEnd(c.ranges) <= a
         PROVE  d.ok /\ IF d.done THEN e > M ELSE LastEnd(d.ranges) <= e + 1
    <3>1. d.ok /\ LastEnd(d.ranges) = z + 1
      BY <1>3, <2>6, <2>8, <2>10, c.ok
    <3>2. LastEnd(d.ranges) <= e + 1
      BY <2>1, <3>1
    <3>. QED  BY <2>6, <3>1, <3>2
  <2>. QED  BY <1>1, <1>2, <2>6, <2>8, <2>9, <2>10 DEF GroupAdded
<1>. QED  BY <1>4, <1>5, <1>6

(* The groups of a table.                                                  *)
LEMMA GroupsOfTable ==
  ASSUME NEW t, IsTable(t), NEW i \in 1..Len(t.groups)
  PROVE  /\ t.groups[i][1] \in Nat /\ t.groups[i][2] \in Nat
         /\ t.groups[i] = <<t.groups[i][1], t.groups[i][2]>>
<1>1. t.groups \in Seq(Nat \X Nat)
  BY DEF IsTable
<1>2. t.groups[i] \in Nat \X Nat
  BY <1>1
<1>. QED  BY <1>2

(* One more group is read.                                                 *)
LEMMA OneGroupMore ==
  ASSUME NEW t, IsTable(t), NEW k \in 1..Len(t.groups), NEW c \in GroupsRead(t, k - 1)
  PROVE  ReadGroup(c, t.groups[k]) \in GroupsRead(t, k)
<1>1. PICK a, e, M \in Nat : M = kMaxCodePoint /\ a = t.groups[k][1] /\ e = t.groups[k][2] /\ t.groups[k] = <<a, e>>
  BY GroupsOfTable, ReaderAssumption
<1>2. k \in Nat /\ k # 0 /\ k - 1 \in Nat
  BY DEF IsTable
<1>3. /\ c \in GroupKind /\ IsRangeList(c.ranges) /\ LastEnd(c.ranges) <= M + 1
      /\ \A v \in Vals(c.ranges) : v \in GroupsMap(t, k - 1)
      /\ GroupsInOrder(t, k - 1) =>
            /\ c.ok /\ Vals(c.ranges) = GroupsMap(t, k - 1)
            /\ IF k - 1 = 0 THEN ~c.done /\ LastEnd(c.ranges) = 0
               ELSE IF c.done THEN t.groups[k - 1][2] > M
               ELSE LastEnd(c.ranges) <= t.groups[k - 1][2] + 1
  BY <1>1 DEF GroupsRead
<1>4. GroupsMap(t, k) = GroupsMap(t, k - 1) \cup GroupCodes(<<a, e>>)
  <2>1. \A i : i \in 1..k <=> i \in 1..k - 1 \/ i = k
    BY <1>2
  <2>2. GroupCodes(<<a, e>>) \in SUBSET Nat
    BY DEF GroupCodes
  <2>. QED  BY <1>1, <2>1, <2>2 DEF GroupsMap
<1>5. ASSUME GroupsInOrder(t, k)
      PROVE  /\ a <= e /\ c.ok /\ Vals(c.ranges) = GroupsMap(t, k - 1)
             /\ IF c.done THEN a > M ELSE LastEnd(c.ranges) <= a
  <2>1. GroupsInOrder(t, k - 1)
    BY <1>2, <1>5 DEF GroupsInOrder
  <2>2. a <= e
    <3>1. k \in 1..k
      BY <1>2
    <3>. QED  BY <1>1, <1>5, <3>1 DEF GroupsInOrder
  <2>3. LastEnd(c.ranges) \in Nat
    BY <1>3, ValsEnd
  <2>4. IF c.done THEN a > M ELSE LastEnd(c.ranges) <= a
    <3>1. CASE k = 1
      BY <1>1, <1>3, <2>1, <2>3, <3>1
    <3>2. CASE k # 1
      <4>1. k - 1 \in 1..k - 1 /\ k - 1 # 0 /\ (k - 1) + 1 = k
        BY <1>2, <3>2
      <4>2. t.groups[k - 1][2] < t.groups[k][1]
        BY <1>5, <4>1 DEF GroupsInOrder
      <4>3. k - 1 \in 1..Len(t.groups)
        BY <1>2, <3>2 DEF IsTable
      <4>4. PICK p \in Nat : p = t.groups[k - 1][2]
        BY <4>3, GroupsOfTable
      <4>5. IF c.done THEN p > M ELSE LastEnd(c.ranges) <= p + 1
        BY <1>3, <2>1, <4>1, <4>4
      <4>6. p < a
        BY <1>1, <4>2, <4>4
      <4>. QED  BY <1>1, <2>3, <4>5, <4>6
    <3>. QED  BY <3>1, <3>2
  <2>. QED  BY <1>3, <2>1, <2>2, <2>4
<1>6. PICK d : d = ReadGroup(c, t.groups[k])
  OBVIOUS
<1>7. CASE ~c.ok \/ c.done
  <2>1. d = c
    BY <1>6, <1>7 DEF ReadGroup
  <2>2. \A v \in Vals(d.ranges) : v \in GroupsMap(t, k)
    BY <1>3, <1>4, <2>1
  <2>3. ASSUME GroupsInOrder(t, k)
        PROVE  d.ok /\ Vals(d.ranges) = GroupsMap(t, k)
               /\ IF k = 0 THEN ~d.done /\ LastEnd(d.ranges) = 0
                  ELSE IF d.done THEN t.groups[k][2] > kMaxCodePoint
                  ELSE LastEnd(d.ranges) <= t.groups[k][2] + 1
    <3>1. a <= e /\ c.ok /\ Vals(c.ranges) = GroupsMap(t, k - 1) /\ c.done /\ a > M
      BY <1>5, <1>7, <2>3
    <3>2. GroupCodes(<<a, e>>) = {}
      BY <1>1, <3>1 DEF GroupCodes
    <3>3. e > M
      BY <1>1, <3>1
    <3>. QED  BY <1>1, <1>2, <1>4, <2>1, <3>1, <3>2, <3>3
  <2>. QED  BY <1>1, <1>3, <1>6, <2>1, <2>2, <2>3 DEF GroupsRead
<1>8. CASE ~(~c.ok \/ c.done)
  <2>1. GroupAdded(c, d, a, e)
    BY <1>1, <1>3, <1>6, <1>8, GroupIsAdded
  <2>2. /\ d \in GroupKind /\ IsRangeList(d.ranges) /\ LastEnd(d.ranges) <= kMaxCodePoint + 1
        /\ \A v \in Vals(d.ranges) : v \in Vals(c.ranges) \/ v \in GroupCodes(<<a, e>>)
        /\ (a <= e /\ LastEnd(c.ranges) <= a) =>
              /\ d.ok /\ Vals(d.ranges) = Vals(c.ranges) \cup GroupCodes(<<a, e>>)
              /\ IF d.done THEN e > kMaxCodePoint ELSE LastEnd(d.ranges) <= e + 1
    BY <1>8, <2>1 DEF GroupAdded
  <2>3. \A v \in Vals(d.ranges) : v \in GroupsMap(t, k)
    BY <1>3, <1>4, <2>2
  <2>4. ASSUME GroupsInOrder(t, k)
        PROVE  d.ok /\ Vals(d.ranges) = GroupsMap(t, k)
               /\ IF k = 0 THEN ~d.done /\ LastEnd(d.ranges) = 0
                  ELSE IF d.done THEN t.groups[k][2] > kMaxCodePoint
                  ELSE LastEnd(d.ranges) <= t.groups[k][2] + 1
    <3>1. a <= e /\ LastEnd(c.ranges) <= a /\ Vals(c.ranges) = GroupsMap(t, k - 1)
      BY <1>5, <1>8, <2>4
    <3>. QED  BY <1>1, <1>2, <1>4, <2>2, <3>1
  <2>. QED  BY <1>6, <2>2, <2>3, <2>4 DEF GroupsRead
<1>. QED  BY <1>7, <1>8

(* A table of format 12 is read (getCoverageFormat12).                     *)
LEMMA GroupsAreRead ==
  ASSUME NEW t, IsTable(t), t.fits # "cut"
  PROVE  getCoverageFormat12(t) \in GroupsRead(t, Len(t.groups))
<1>1. PICK n \in Nat : n = Len(t.groups)
  BY DEF IsTable
<1> DEFINE kinds == [k \in 0..n |-> GroupsRead(t, k)]
           step == [k \in 0..n |-> [x \in GroupsRead(t, k - 1) |-> ReadGroup(x, t.groups[k])]]
           f == CHOOSE f : f = [k \in 0..n |-> IF k = 0 THEN NoGroups ELSE ReadGroup(f[k - 1], t.groups[k])]
<1>2. NoGroups \in GroupsRead(t, 0)
  <2>1. GroupsMap(t, 0) = {}
    <3>1. 1..0 = {}
      OBVIOUS
    <3>. QED  BY <3>1 DEF GroupsMap
  <2>2. kMaxCodePoint \in Nat
    BY ReaderAssumption
  <2>. QED  BY <2>1, <2>2, NoGroupsKind DEF GroupsRead
<1>3. \A k \in 0..n : k # 0 => k \in 1..n /\ k - 1 \in 0..n
  OBVIOUS
<1>4. \A k \in 0..n : k # 0 => \A x \in kinds[k - 1] :
         step[k][x] \in kinds[k] /\ step[k][x] = ReadGroup(x, t.groups[k])
  <2> SUFFICES ASSUME NEW k \in 0..n, k # 0, NEW x \in kinds[k - 1]
               PROVE  step[k][x] \in kinds[k] /\ step[k][x] = ReadGroup(x, t.groups[k])
    OBVIOUS
  <2>1. k \in 1..n /\ k - 1 \in 0..n
    BY <1>3
  <2>2. x \in GroupsRead(t, k - 1)
    BY <2>1
  <2>3. ReadGroup(x, t.groups[k]) \in GroupsRead(t, k)
    BY <1>1, <2>1, <2>2, OneGroupMore
  <2>. QED  BY <2>1, <2>2, <2>3
<1>5. NoGroups \in kinds[0]
  BY <1>2
<1> HIDE DEF step, kinds
<1>6. PICK g : IsIteration(0, n, NoGroups, step, kinds, g)
  <2>1. 0 \in Nat /\ 0 <= n
    OBVIOUS
  <2>. QED  BY <1>4, <1>5, <2>1, IterationExists
<1>7. g = [k \in 0..n |-> IF k = 0 THEN NoGroups ELSE ReadGroup(g[k - 1], t.groups[k])]
  BY <1>3, <1>4, <1>6 DEF IsIteration
<1>8. f = [k \in 0..n |-> IF k = 0 THEN NoGroups ELSE ReadGroup(f[k - 1], t.groups[k])]
  BY <1>7
<1>9. getCoverageFormat12(t) = f[n]
  BY <1>1 DEF getCoverageFormat12
<1> HIDE DEF f
<1>10. f[0] = NoGroups /\ \A k \in 1..n : k \in 0..n /\ k # 0 /\ f[k] = ReadGroup(f[k - 1], t.groups[k])
  BY <1>8
<1> DEFINE T == {k \in 0..n : f[k] \in kinds[k]}
<1>11. 0 \in T
  BY <1>5, <1>10
<1>12. ASSUME NEW k \in 1..n, k - 1 \in T PROVE k \in T
  <2>1. k \in 0..n /\ k # 0 /\ f[k - 1] \in kinds[k - 1]
    BY <1>12
  <2>2. step[k][f[k - 1]] \in kinds[k] /\ step[k][f[k - 1]] = ReadGroup(f[k - 1], t.groups[k])
    BY <1>4, <2>1
  <2>. QED  BY <1>10, <2>1, <2>2
<1> HIDE DEF T
<1>13. n \in T
  <2>1. n \in 0..n
    OBVIOUS
  <2>. QED  BY <1>11, <1>12, <2>1, ReachesAll
<1>. QED  BY <1>1, <1>9, <1>13 DEF T, kinds

-----------------------------------------------------------------------------
(***************************************************************************)
(* The choice of the table, and what a font covers.                        *)
(***************************************************************************)

(* Priorities are numbers.                                                 *)
LEMMA PriorityIsNat ==
  ASSUME NEW t
  PROVE  getTablePriority(t) \in Nat
<1> DEFINE rank == {i \in DOMAIN Priorities : Priorities[i] = <<t.platformId, t.encodingId>>}
<1>1. DOMAIN Priorities \in SUBSET (Nat \ {0})
  BY DEF Priorities
<1>2. kLowestPriority \in Nat
  BY DEF kLowestPriority
<1>3. getTablePriority(t) = IF rank = {} THEN kLowestPriority ELSE Min(rank) - 1
  BY DEF getTablePriority
<1>4. rank \in SUBSET Nat /\ \A r \in rank : r \in Nat \ {0}
  BY <1>1
<1> HIDE DEF rank
<1>5. rank # {} => Min(rank) \in Nat \ {0}
  BY <1>4, LeastIs
<1>. QED  BY <1>2, <1>3, <1>5

\* The character tables that can be read among the first k of a font.
ReadableOf(f, k) == {i \in 1..k : ~IsVsTable(f[i]) /\ Usable(f[i]) /\ getTablePriority(f[i]) < kLowestPriority}
\* The table chosen among the first k.
TableChosen(f, k) ==
  {b \in [table : 0..k, priority : Nat, vs : 0..k] :
     /\ b.table = 0 => ReadableOf(f, k) = {} /\ b.priority = kLowestPriority
     /\ b.table # 0 => /\ b.table \in ReadableOf(f, k) /\ b.priority = getTablePriority(f[b.table])
                       /\ \A j \in ReadableOf(f, k) :
                             \/ b.priority < getTablePriority(f[j])
                             \/ b.priority = getTablePriority(f[j]) /\ b.table <= j}

(* One more table is looked at: the search may stop early, since no        *)
(* priority is before 0.                                                   *)
LEMMA OneTableMore ==
  ASSUME NEW f, NEW k \in Nat \ {0}, NEW b \in TableChosen(f, k - 1)
  PROVE  SeeTable(b, k, f[k]) \in TableChosen(f, k)
<1>1. PICK p \in Nat, L \in Nat \ {0} : p = getTablePriority(f[k]) /\ L = kLowestPriority
  BY PriorityIsNat DEF kLowestPriority
<1>2. PICK tb, q, vs \in Nat : /\ tb = b.table /\ q = b.priority /\ vs = b.vs
                               /\ tb <= k - 1 /\ vs <= k - 1 /\ b = [table |-> tb, priority |-> q, vs |-> vs]
  BY DEF TableChosen
<1>3. /\ tb = 0 => ReadableOf(f, k - 1) = {} /\ q = L
      /\ tb # 0 => /\ tb \in ReadableOf(f, k - 1) /\ q = getTablePriority(f[tb])
                   /\ \A j \in ReadableOf(f, k - 1) :
                         q < getTablePriority(f[j]) \/ (q = getTablePriority(f[j]) /\ tb <= j)
  BY <1>1, <1>2 DEF TableChosen
<1>4. \A i : i \in 1..k <=> i \in 1..k - 1 \/ i = k
  OBVIOUS
<1>5. \A i \in ReadableOf(f, k - 1) : i \in Nat /\ i <= k - 1 /\ getTablePriority(f[i]) < L /\ getTablePriority(f[i]) \in Nat
  BY <1>1, PriorityIsNat DEF ReadableOf
<1>6. q <= L
  BY <1>1, <1>3, <1>5
<1>7. PICK d : d = SeeTable(b, k, f[k])
  OBVIOUS
<1>8. CASE ReadableOf(f, k) = ReadableOf(f, k - 1) /\ (\E w \in {0, vs, k} : d = [b EXCEPT !.vs = w])
  <2>1. PICK w \in 0..k : d = [table |-> tb, priority |-> q, vs |-> w]
    BY <1>2, <1>8
  <2>. QED  BY <1>1, <1>2, <1>3, <1>7, <1>8, <2>1 DEF TableChosen
<1>9. CASE d = b /\ tb # 0 /\ q <= p /\ (\A i \in ReadableOf(f, k) : i \in ReadableOf(f, k - 1) \/ i = k)
  <2>1. tb \in ReadableOf(f, k)
    BY <1>3, <1>4, <1>9 DEF ReadableOf
  <2>2. ASSUME NEW j \in ReadableOf(f, k)
        PROVE  q < getTablePriority(f[j]) \/ (q = getTablePriority(f[j]) /\ tb <= j)
    <3>1. CASE j \in ReadableOf(f, k - 1)
      BY <1>3, <1>9, <3>1
    <3>2. CASE j = k
      BY <1>1, <1>2, <1>9, <3>2
    <3>. QED  BY <1>9, <3>1, <3>2
  <2>3. b \in [table : 0..k, priority : Nat, vs : 0..k]
    BY <1>2
  <2>. QED  BY <1>1, <1>2, <1>3, <1>7, <1>9, <2>1, <2>2, <2>3 DEF TableChosen
<1>10. CASE k \in ReadableOf(f, k) /\ p < q /\ d = [b EXCEPT !.table = k, !.priority = p]
  <2>1. d = [table |-> k, priority |-> p, vs |-> vs]
    BY <1>2, <1>10
  <2>2. ASSUME NEW j \in ReadableOf(f, k)
        PROVE  p < getTablePriority(f[j]) \/ (p = getTablePriority(f[j]) /\ k <= j)
    <3>1. CASE j = k
      BY <1>1, <3>1
    <3>2. CASE j # k
      <4>1. j \in ReadableOf(f, k - 1)
        BY <1>4, <3>2 DEF ReadableOf
      <4>2. tb # 0 /\ q <= getTablePriority(f[j]) /\ getTablePriority(f[j]) \in Nat
        BY <1>2, <1>3, <1>5, <4>1
      <4>. QED  BY <1>10, <4>2
    <3>. QED  BY <3>1, <3>2
  <2>3. d \in [table : 0..k, priority : Nat, vs : 0..k]
    BY <1>2, <2>1
  <2>. QED  BY <1>1, <1>7, <1>10, <2>1, <2>2, <2>3 DEF TableChosen
<1>11. \A i \in ReadableOf(f, k) : i \in ReadableOf(f, k - 1) \/ i = k
  BY <1>4 DEF ReadableOf
<1>12. ASSUME k \notin ReadableOf(f, k) PROVE ReadableOf(f, k) = ReadableOf(f, k - 1)
  BY <1>4, <1>12 DEF ReadableOf
<1>13. k \in ReadableOf(f, k) <=> ~IsVsTable(f[k]) /\ Usable(f[k]) /\ p < L
  <2>1. k \in 1..k
    OBVIOUS
  <2>. QED  BY <1>1, <2>1 DEF ReadableOf
<1>14. b = [b EXCEPT !.vs = vs]
  BY <1>2
<1>15. CASE k \notin ReadableOf(f, k)
  <2>1. ~IsVsTable(f[k]) => ~(Usable(f[k]) /\ p < q)
    BY <1>1, <1>6, <1>13, <1>15
  <2>2. d = b \/ d = [b EXCEPT !.vs = k]
    BY <1>1, <1>2, <1>7, <2>1 DEF SeeTable
  <2>3. \E w \in {0, vs, k} : d = [b EXCEPT !.vs = w]
    BY <1>14, <2>2
  <2>. QED  BY <1>8, <1>12, <1>15, <2>3
<1>16. CASE k \in ReadableOf(f, k)
  <2>1. ~IsVsTable(f[k]) /\ Usable(f[k]) /\ p < L /\ f[k].fits # "no"
    BY <1>13, <1>16 DEF Usable
  <2>2. CASE p < q
    <3>1. q # 0
      BY <2>2
    <3>2. d = [b EXCEPT !.table = k, !.priority = p]
      BY <1>1, <1>2, <1>7, <2>1, <2>2, <3>1 DEF SeeTable
    <3>. QED  BY <1>10, <1>16, <2>2, <3>2
  <2>3. CASE ~(p < q)
    <3>1. d = b
      BY <1>1, <1>2, <1>7, <2>1, <2>3 DEF SeeTable
    <3>2. tb # 0 /\ q <= p
      BY <1>3, <2>1, <2>3
    <3>. QED  BY <1>9, <1>11, <3>1, <3>2
  <2>. QED  BY <2>2, <2>3
<1>. QED  BY <1>15, <1>16

\* The tables of variation sequences among the first k of a font.
VsTablesOf(f, k) == {i \in 1..k : IsVsTable(f[i]) /\ f[i].format = 14 /\ f[i].fits # "no"}
VsChosen(f, k, b) ==
  IF b.vs = 0 THEN VsTablesOf(f, k) = {}
  ELSE b.vs \in VsTablesOf(f, k) /\ \A j \in VsTablesOf(f, k) : b.vs <= j
Chosen(f, k) == {b \in TableChosen(f, k) : VsChosen(f, k, b)}

(* The search stops only when it has a table of variation sequences.       *)
LEMMA OneVsTableMore ==
  ASSUME NEW f, NEW k \in Nat \ {0}, NEW b \in Chosen(f, k - 1)
  PROVE  VsChosen(f, k, SeeTable(b, k, f[k]))
<1>1. PICK d : d = SeeTable(b, k, f[k])
  OBVIOUS
<1>2. /\ b.vs \in Nat /\ VsChosen(f, k - 1, b)
      /\ \A w : [b EXCEPT !.vs = w].vs = w
      /\ \A t, p : [b EXCEPT !.table = t, !.priority = p].vs = b.vs
  BY DEF Chosen, TableChosen
<1>3. \A i : i \in 1..k <=> i \in 1..k - 1 \/ i = k
  OBVIOUS
<1>4. \A i \in VsTablesOf(f, k - 1) : i \in Nat /\ i <= k
  BY DEF VsTablesOf
<1>5. CASE IsVsTable(f[k]) /\ f[k].format = 14 /\ f[k].fits # "no" /\ b.vs = 0
  <2>1. d.vs = k
    BY <1>1, <1>2, <1>5 DEF SeeTable
  <2>2. VsTablesOf(f, k - 1) = {}
    BY <1>2, <1>5 DEF VsChosen
  <2>3. \A i \in VsTablesOf(f, k) : i = k
    BY <1>3, <2>2 DEF VsTablesOf
  <2>4. k \in VsTablesOf(f, k)
    BY <1>3, <1>5 DEF VsTablesOf
  <2>. QED  BY <1>1, <2>1, <2>3, <2>4 DEF VsChosen
<1>6. CASE ~(IsVsTable(f[k]) /\ f[k].format = 14 /\ f[k].fits # "no" /\ b.vs = 0)
  <2>1. d.vs = b.vs
    BY <1>1, <1>2, <1>6 DEF SeeTable
  <2>2. CASE b.vs = 0
    <3>1. VsTablesOf(f, k - 1) = {}
      BY <1>2, <2>2 DEF VsChosen
    <3>2. VsTablesOf(f, k) = {}
      BY <1>3, <1>6, <2>2, <3>1 DEF VsTablesOf
    <3>. QED  BY <1>1, <2>1, <2>2, <3>2 DEF VsChosen
  <2>3. CASE b.vs # 0
    <3>1. b.vs \in VsTablesOf(f, k - 1) /\ \A j \in VsTablesOf(f, k - 1) : b.vs <= j
      BY <1>2, <2>3 DEF VsChosen
    <3>2. b.vs \in VsTablesOf(f, k)
      BY <1>3, <3>1 DEF VsTablesOf
    <3>3. \A j \in VsTablesOf(f, k) : b.vs <= j
      BY <1>3, <1>4, <3>1 DEF VsTablesOf
    <3>. QED  BY <1>1, <2>1, <2>3, <3>2, <3>3 DEF VsChosen
  <2>. QED  BY <2>2, <2>3
<1>. QED  BY <1>5, <1>6

(* The first table of the best priority is chosen (getCoverage).           *)
LEMMA TablesAreChosen ==
  ASSUME NEW font, IsCmap(font)
  PROVE  ChooseTables(font) \in Chosen(font, Len(font))
<1>1. PICK n \in Nat : n = Len(font)
  BY DEF IsCmap
<1>2. PICK b0 : b0 = [table |-> 0, priority |-> kLowestPriority, vs |-> 0]
  OBVIOUS
<1> DEFINE kinds == [k \in 0..n |-> Chosen(font, k)]
           step == [k \in 0..n |-> [x \in Chosen(font, k - 1) |-> SeeTable(x, k, font[k])]]
           f == CHOOSE f : f = [k \in 0..n |-> IF k = 0 THEN b0 ELSE SeeTable(f[k - 1], k, font[k])]
<1>3. b0 \in Chosen(font, 0)
  <2>1. ReadableOf(font, 0) = {}
    <3>1. 1..0 = {}
      OBVIOUS
    <3>. QED  BY <3>1 DEF ReadableOf
  <2>2. kLowestPriority \in Nat
    BY DEF kLowestPriority
  <2>3. VsTablesOf(font, 0) = {}
    <3>1. 1..0 = {}
      OBVIOUS
    <3>. QED  BY <3>1 DEF VsTablesOf
  <2>. QED  BY <1>2, <2>1, <2>2, <2>3 DEF Chosen, TableChosen, VsChosen
<1>4. \A k \in 0..n : k # 0 => k \in 1..n /\ k - 1 \in 0..n /\ k \in Nat \ {0}
  OBVIOUS
<1>5. \A k \in 0..n : k # 0 => \A x \in kinds[k - 1] :
         step[k][x] \in kinds[k] /\ step[k][x] = SeeTable(x, k, font[k])
  <2> SUFFICES ASSUME NEW k \in 0..n, k # 0, NEW x \in kinds[k - 1]
               PROVE  step[k][x] \in kinds[k] /\ step[k][x] = SeeTable(x, k, font[k])
    OBVIOUS
  <2>1. k \in Nat \ {0} /\ k - 1 \in 0..n
    BY <1>4
  <2>2. x \in Chosen(font, k - 1)
    BY <2>1
  <2>3. SeeTable(x, k, font[k]) \in Chosen(font, k)
    <3>1. x \in TableChosen(font, k - 1)
      BY <2>2 DEF Chosen
    <3>. QED  BY <2>1, <2>2, <3>1, OneTableMore, OneVsTableMore DEF Chosen
  <2>. QED  BY <2>1, <2>2, <2>3
<1>6. b0 \in kinds[0]
  BY <1>3
<1> HIDE DEF step, kinds
<1>7. PICK g : IsIteration(0, n, b0, step, kinds, g)
  <2>1. 0 \in Nat /\ 0 <= n
    OBVIOUS
  <2>. QED  BY <1>5, <1>6, <2>1, IterationExists
<1>8. g = [k \in 0..n |-> IF k = 0 THEN b0 ELSE SeeTable(g[k - 1], k, font[k])]
  BY <1>4, <1>5, <1>7 DEF IsIteration
<1>9. f = [k \in 0..n |-> IF k = 0 THEN b0 ELSE SeeTable(f[k - 1], k, font[k])]
  BY <1>8
<1>10. ChooseTables(font) = f[n]
  BY <1>1, <1>2 DEF ChooseTables
<1> HIDE DEF f
<1>11. f[0] = b0 /\ \A k \in 1..n : k \in 0..n /\ k # 0 /\ f[k] = SeeTable(f[k - 1], k, font[k])
  BY <1>9
<1> DEFINE T == {k \in 0..n : f[k] \in kinds[k]}
<1>12. 0 \in T
  BY <1>6, <1>11
<1>13. ASSUME NEW k \in 1..n, k - 1 \in T PROVE k \in T
  <2>1. k \in 0..n /\ k # 0 /\ f[k - 1] \in kinds[k - 1]
    BY <1>13
  <2>2. step[k][f[k - 1]] \in kinds[k] /\ step[k][f[k - 1]] = SeeTable(f[k - 1], k, font[k])
    BY <1>5, <2>1
  <2>. QED  BY <1>11, <2>1, <2>2
<1> HIDE DEF T
<1>14. n \in T
  <2>1. n \in 0..n
    OBVIOUS
  <2>. QED  BY <1>12, <1>13, <2>1, ReachesAll
<1>. QED  BY <1>1, <1>10, <1>14 DEF T, kinds

-----------------------------------------------------------------------------
\* A set that holds what a table maps: all of it when the table is in order.
HoldsTable(set, t, A) ==
  /\ A \in SUBSET (0..kMaxCodePoint) /\ Reads(set, A)
  /\ t.fits = "cut" => A = {}
  /\ \A v \in A : Maps(t, v)
  /\ (t.fits # "cut" /\ InOrder(t)) => \A v \in Nat : Maps(t, v) => v \in A

(* The ranges of a table fit into a set.                                   *)
LEMMA RangesHold ==
  ASSUME NEW c, IsRangeList(c.ranges), LastEnd(c.ranges) <= kMaxCodePoint + 1, c.ok
  PROVE  Vals(c.ranges) \in SUBSET (0..kMaxCodePoint) /\ Reads(Covered(c), Vals(c.ranges))
<1>1. PICK M, e, C \in Nat : M = kMaxCodePoint /\ e = LastEnd(c.ranges) /\ C = kMaximumCapacity /\ M + 1 < C
  BY ReaderAssumption, BitSetAssumption, ValsEnd
<1>2. \A v \in Vals(c.ranges) : v \in Nat /\ v < e
  BY <1>1, ValsEnd
<1>3. \A v \in Vals(c.ranges) : v \in 0..M
  BY <1>1, <1>2
<1>4. e < C
  BY <1>1
<1>5. Reads(initFromRanges(c.ranges), Vals(c.ranges))
  BY <1>1, <1>4, RangesAreRead
<1>. QED  BY <1>1, <1>3, <1>5 DEF Covered

(* A set made of a table of format 4 holds what the table maps.            *)
LEMMA Format4IsRead ==
  ASSUME NEW t, IsTable(t), t.format = 4
  PROVE  \E A : HoldsTable(Covered(ReadTable(t)), t, A)
<1>1. PICK c : c = getCoverageFormat4(t) /\ ReadTable(t) = c
  BY DEF ReadTable
<1>2. PICK n \in Nat : n = Len(t.segments) /\ DOMAIN t.segments = 1..n
  <2>1. t.segments \in Seq(SegmentKind)
    BY DEF IsTable, SegmentKind
  <2>. QED  BY <2>1
<1>3. CASE t.fits = "cut"
  <2>1. Covered(c) = EmptySet
    BY <1>1, <1>3 DEF getCoverageFormat4, Failed, NoRanges, Covered
  <2>2. HoldsTable(EmptySet, t, {})
    BY <1>3, EmptyIsRead DEF HoldsTable
  <2>. QED  BY <1>1, <2>1, <2>2
<1>4. CASE t.fits # "cut"
  <2>1. c \in SegmentsRead(t, n)
    BY <1>1, <1>2, <1>4, SegmentsAreRead
  <2>2. /\ c \in CoverKind /\ IsRangeList(c.ranges) /\ LastEnd(c.ranges) <= kMaxCodePoint + 1
        /\ \A v \in Vals(c.ranges) : v \in SegmentsMap(t, n)
        /\ SegmentsInOrder(t, n) => c.ok /\ Vals(c.ranges) = SegmentsMap(t, n)
    BY <2>1 DEF SegmentsRead
  <2>3. InOrder(t) => SegmentsInOrder(t, n)
    BY <1>2 DEF InOrder, SegmentsInOrder
  <2>4. ASSUME NEW i \in 1..n, NEW v \in Nat
        PROVE  v \in Glyphs(t.segments[i]) <=>
                  LET s == t.segments[i]
                  IN /\ v \in s.start .. s.end
                     /\ IF s.glyphs = NoTable THEN (v + s.delta) % GlyphIds # 0
                        ELSE v - s.start < Len(s.glyphs) /\ s.glyphs[v - s.start + 1] # 0
    <3>1. PICK s \in SegmentKind : s = t.segments[i]
      BY <1>2, SegmentsOfTable
    <3>2. PICK a, e \in Nat : a = s.start /\ e = s.end
      BY DEF SegmentKind
    <3>3. CASE s.glyphs = NoTable
      BY <3>1, <3>2, <3>3 DEF Glyphs, HasGlyphId
    <3>4. CASE s.glyphs # NoTable
      <4>1. PICK l \in Nat : l = Len(s.glyphs)
        BY <3>4 DEF SegmentKind
      <4>2. v - a < l <=> v - a + 1 <= l
        BY <4>1
      <4>. QED  BY <3>1, <3>2, <3>4, <4>1, <4>2 DEF Glyphs, HasGlyphId
    <3>. QED  BY <3>3, <3>4
  <2>5. ASSUME NEW v \in Nat PROVE v \in SegmentsMap(t, n) <=> Maps(t, v)
    BY <1>2, <2>4, t.format = 4 DEF SegmentsMap, Maps
  <2>6. CASE c.ok
    <3>1. Vals(c.ranges) \in SUBSET (0..kMaxCodePoint) /\ Reads(Covered(c), Vals(c.ranges))
      BY <2>2, <2>6, RangesHold
    <3>2. \A v \in Vals(c.ranges) : Maps(t, v)
      BY <2>2, <2>5 DEF SegmentsMap
    <3>3. InOrder(t) => \A v \in Nat : Maps(t, v) => v \in Vals(c.ranges)
      BY <2>2, <2>3, <2>5
    <3>4. HoldsTable(Covered(c), t, Vals(c.ranges))
      BY <1>4, <3>1, <3>2, <3>3 DEF HoldsTable
    <3>. QED  BY <1>1, <3>4
  <2>7. CASE ~c.ok
    <3>1. Covered(c) = EmptySet
      BY <2>7 DEF Covered
    <3>2. ~InOrder(t)
      BY <2>2, <2>3, <2>7
    <3>3. HoldsTable(EmptySet, t, {})
      BY <1>4, <3>2, EmptyIsRead DEF HoldsTable
    <3>. QED  BY <1>1, <3>1, <3>3
  <2>. QED  BY <2>6, <2>7
<1>. QED  BY <1>3, <1>4

(* A set made of a table of format 12 holds what the table maps.           *)
LEMMA Format12IsRead ==
  ASSUME NEW t, IsTable(t), t.format = 12
  PROVE  \E A : HoldsTable(Covered(ReadTable(t)), t, A)
<1>1. PICK c : c = getCoverageFormat12(t) /\ ReadTable(t) = c
  BY DEF ReadTable
<1>2. PICK n \in Nat : n = Len(t.groups) /\ DOMAIN t.groups = 1..n
  BY DEF IsTable
<1>3. CASE t.fits = "cut"
  <2>1. Covered(c) = EmptySet
    BY <1>1, <1>3 DEF getCoverageFormat12, Failed, NoGroups, Covered
  <2>2. HoldsTable(EmptySet, t, {})
    BY <1>3, EmptyIsRead DEF HoldsTable
  <2>. QED  BY <1>1, <2>1, <2>2
<1>4. CASE t.fits # "cut"
  <2>1. c \in GroupsRead(t, n)
    BY <1>1, <1>2, <1>4, GroupsAreRead
  <2>2. /\ c \in GroupKind /\ IsRangeList(c.ranges) /\ LastEnd(c.ranges) <= kMaxCodePoint + 1
        /\ \A v \in Vals(c.ranges) : v \in GroupsMap(t, n)
        /\ GroupsInOrder(t, n) => c.ok /\ Vals(c.ranges) = GroupsMap(t, n)
    BY <2>1 DEF GroupsRead
  <2>3. InOrder(t) => GroupsInOrder(t, n)
    BY <1>2, t.format = 12 DEF InOrder, GroupsInOrder
  <2>4. ASSUME NEW v \in Nat PROVE v \in GroupsMap(t, n) <=> Maps(t, v)
    <3>1. ASSUME NEW i \in 1..n PROVE v \in t.groups[i][1] .. t.groups[i][2] <=> t.groups[i][1] <= v /\ v <= t.groups[i][2]
      <4>1. PICK a, e \in Nat : a = t.groups[i][1] /\ e = t.groups[i][2]
        BY <1>2, GroupsOfTable
      <4>. QED  BY <4>1
    <3>. QED  BY <1>2, <3>1, t.format = 12 DEF GroupsMap, GroupCodes, Maps
  <2>5. CASE c.ok
    <3>1. Vals(c.ranges) \in SUBSET (0..kMaxCodePoint) /\ Reads(Covered(c), Vals(c.ranges))
      BY <2>2, <2>5, RangesHold
    <3>2. \A v \in Vals(c.ranges) : Maps(t, v)
      BY <2>2, <2>4 DEF GroupsMap
    <3>3. InOrder(t) => \A v \in Nat : Maps(t, v) => v \in Vals(c.ranges)
      BY <2>2, <2>3, <2>4
    <3>4. HoldsTable(Covered(c), t, Vals(c.ranges))
      BY <1>4, <3>1, <3>2, <3>3 DEF HoldsTable
    <3>. QED  BY <1>1, <3>4
  <2>6. CASE ~c.ok
    <3>1. Covered(c) = EmptySet
      BY <2>6 DEF Covered
    <3>2. ~InOrder(t)
      BY <2>2, <2>3, <2>6
    <3>3. HoldsTable(EmptySet, t, {})
      BY <1>4, <3>2, EmptyIsRead DEF HoldsTable
    <3>. QED  BY <1>1, <3>1, <3>3
  <2>. QED  BY <2>5, <2>6
<1>. QED  BY <1>3, <1>4

\* What a font covers: nothing without a table that can be read.
Covers(font, b, set, A) ==
  /\ b \in Chosen(font, Len(font)) /\ A \in SUBSET (0..kMaxCodePoint) /\ Reads(set, A)
  /\ b.table = 0 => A = {}
  /\ b.table # 0 => HoldsTable(set, font[b.table], A)

(* Whatever the cmap, its coverage is a set of code points (getCoverage).  *)
LEMMA CoverageIsRead ==
  ASSUME NEW font, IsCmap(font)
  PROVE  \E A : Covers(font, ChooseTables(font), getCoverage(font).coverage, A)
<1>1. PICK b \in Chosen(font, Len(font)) : b = ChooseTables(font)
  BY TablesAreChosen
<1>2. getCoverage(font).coverage =
         IF b.table = 0 THEN EmptySet ELSE Covered(ReadTable(font[b.table]))
  BY <1>1 DEF getCoverage, ReadTables, WithVS
<1>3. CASE b.table = 0
  <2>1. Covers(font, b, EmptySet, {})
    BY <1>3, EmptyIsRead DEF Covers
  <2>. QED  BY <1>1, <1>2, <1>3, <2>1
<1>4. CASE b.table # 0
  <2>1. PICK t : t = font[b.table] /\ IsTable(t) /\ (t.format = 4 \/ t.format = 12)
    BY <1>4 DEF Chosen, TableChosen, ReadableOf, IsCmap, Usable
  <2>2. PICK A : HoldsTable(Covered(ReadTable(t)), t, A)
    BY <2>1, Format4IsRead, Format12IsRead
  <2>3. Covers(font, b, Covered(ReadTable(t)), A)
    BY <1>4, <2>1, <2>2 DEF Covers, HoldsTable
  <2>. QED  BY <1>1, <1>2, <1>4, <2>1, <2>3
<1>. QED  BY <1>3, <1>4

ReadRight == cmap \in Cmaps /\ (read = NotRead \/ read = getCoverage(cmap))

(* What was read is what getCoverage returns for the cmap.                 *)
LEMMA ReadRightHolds == ReaderSpec => []ReadRight
<1>1. ReaderInit => ReadRight
  BY DEF ReaderInit, ReadRight
<1>2. ReadRight /\ [Read]_<<cmap, read>> => ReadRight'
  <2>1. ASSUME ReadRight, Read PROVE ReadRight'
    BY <2>1 DEF Read, ReadRight
  <2>2. ASSUME ReadRight, UNCHANGED <<cmap, read>> PROVE ReadRight'
    BY <2>2 DEF ReadRight
  <2>. QED  BY <2>1, <2>2
<1>. QED  BY <1>1, <1>2, PTL DEF ReaderSpec

(* So it holds a set of code points.                                       *)
LEMMA CoverageOfRead ==
  ASSUME ReadRight, read # NotRead
  PROVE  \E b, A : Covers(cmap, b, read.coverage, A)
<1>1. IsCmap(cmap) /\ read = getCoverage(cmap)
  BY ReaderAssumption DEF ReadRight
<1>. QED  BY <1>1, CoverageIsRead

(* The chosen table is the best that can be read.                          *)
LEMMA BestIsRead ==
  ASSUME IsCmap(cmap), NEW b \in Chosen(cmap, Len(cmap))
  PROVE  /\ b.table = 0 => Readable = {}
         /\ b.table # 0 => Readable # {} /\ Best = b.table
<1>1. PICK n \in Nat : n = Len(cmap) /\ DOMAIN cmap = 1..n
  BY DEF IsCmap
<1>2. Readable = ReadableOf(cmap, n)
  BY <1>1 DEF Readable, ReadableOf
<1>3. CASE b.table = 0
  BY <1>1, <1>2, <1>3 DEF Chosen, TableChosen
<1>4. CASE b.table # 0
  <2>1. PICK i \in Readable : i = b.table
    BY <1>1, <1>2, <1>4 DEF Chosen, TableChosen
  <2>2. i \in Nat
    BY <1>1, <1>2 DEF ReadableOf
  <2> DEFINE First(k) == \A j \in Readable :
                LET pi == getTablePriority(cmap[k])
                    pj == getTablePriority(cmap[j])
                IN pi < pj \/ (pi = pj /\ k <= j)
  <2>3. First(i)
    BY <1>1, <1>2, <1>4, <2>1 DEF Chosen, TableChosen
  <2>4. PICK k \in Readable : k = Best /\ First(k)
    BY <2>3 DEF Best
  <2>5. k = i
    <3>1. PICK p, q \in Nat : p = getTablePriority(cmap[i]) /\ q = getTablePriority(cmap[k])
      BY PriorityIsNat
    <3>2. k \in Nat
      BY <1>1, <1>2 DEF ReadableOf
    <3>3. p < q \/ (p = q /\ i <= k)
      BY <2>3, <3>1
    <3>4. q < p \/ (q = p /\ k <= i)
      BY <2>4, <3>1
    <3>. QED  BY <2>2, <3>1, <3>2, <3>3, <3>4
  <2>. QED  BY <1>4, <2>1, <2>4, <2>5
<1>. QED  BY <1>3, <1>4

(* A font covers the code points its best table gives a glyph: all of them *)
(* when the table is in order, and never another one, however broken the   *)
(* table (getCoverage, getCoverageFormat4 and 12, initFromRanges).         *)
THEOREM CoverageIsRight == ReaderSpec => []CoverageIsTheMapping
<1>1. ReadRight => CoverageIsTheMapping
  <2> SUFFICES ASSUME ReadRight, read # NotRead PROVE CoverageIsTheMapping
    BY DEF CoverageIsTheMapping
  <2>1. PICK b, A : Covers(cmap, b, read.coverage, A)
    BY CoverageOfRead
  <2>2. IsCmap(cmap)
    BY ReaderAssumption DEF ReadRight
  <2>3. b \in Chosen(cmap, Len(cmap)) /\ A \in SUBSET (0..kMaxCodePoint) /\ Reads(read.coverage, A)
    BY <2>1 DEF Covers
  <2>4. PICK M \in Nat : M = kMaxCodePoint
    BY ReaderAssumption
  <2>5. \A v \in 0..M : v \in CmapCodes
    BY <2>4 DEF CmapCodes
  <2>6. \A v \in CmapCodes : v \in Nat
    BY <2>4 DEF CmapCodes
  <2> DEFINE covered == {v \in CmapCodes : get(read.coverage, v)}
             mapped == IF Readable = {} \/ cmap[Best].fits = "cut" THEN {}
                       ELSE {v \in CmapCodes : Maps(cmap[Best], v)}
  <2>7. covered = A
    <3>1. \A v \in A : v \in CmapCodes
      BY <2>3, <2>4, <2>5
    <3>2. \A v \in CmapCodes : get(read.coverage, v) <=> v \in A
      BY <2>3, <2>6 DEF Reads
    <3>. QED  BY <3>1, <3>2
  <2>8. CASE b.table = 0
    <3>1. Readable = {} /\ A = {}
      BY <2>1, <2>2, <2>3, <2>8, BestIsRead DEF Covers
    <3> HIDE DEF covered
    <3>2. covered \subseteq mapped
      BY <2>7, <3>1
    <3>. QED  BY <3>1, <3>2 DEF CoverageIsTheMapping, covered
  <2>9. CASE b.table # 0
    <3>1. Readable # {} /\ Best = b.table
      BY <2>2, <2>3, <2>9, BestIsRead
    <3>2. PICK t : t = cmap[Best] /\ HoldsTable(read.coverage, t, A)
      BY <2>1, <2>9, <3>1 DEF Covers
    <3>3. t.fits = "cut" => A = {}
      BY <3>2 DEF HoldsTable
    <3>4. \A v \in A : v \in CmapCodes /\ Maps(t, v)
      BY <2>3, <2>4, <2>5, <3>2 DEF HoldsTable
    <3>5. t.fits # "cut" /\ InOrder(t) => \A v \in CmapCodes : Maps(t, v) => v \in A
      BY <2>6, <3>2 DEF HoldsTable
    <3> HIDE DEF covered
    <3>6. mapped = IF t.fits = "cut" THEN {} ELSE {v \in CmapCodes : Maps(t, v)}
      BY <3>1, <3>2
    <3> HIDE DEF mapped
    <3>7. covered \subseteq mapped
      BY <2>7, <3>3, <3>4, <3>6
    <3>8. t.fits # "cut" /\ InOrder(t) => covered = mapped
      BY <2>7, <3>5, <3>6, <3>7
    <3>. QED  BY <3>2, <3>7, <3>8 DEF CoverageIsTheMapping, covered, mapped
  <2>. QED  BY <2>8, <2>9
<1>. QED  BY <1>1, ReadRightHolds, PTL

(* Walking a coverage with nextSetBit meets exactly the code points that   *)
(* get finds, across empty, shared and partly filled pages                 *)
(* (SparseBitSet::nextSetBit).                                             *)
THEOREM WalkIsRight == ReaderSpec => []WalkMeetsAll
<1>1. ReadRight => WalkMeetsAll
  <2> SUFFICES ASSUME ReadRight, read # NotRead PROVE WalkMeetsAll
    BY DEF WalkMeetsAll
  <2>1. PICK A : A \in SUBSET (0..kMaxCodePoint) /\ Reads(read.coverage, A)
    BY CoverageOfRead DEF Covers
  <2>2. PICK M \in Nat : M = kMaxCodePoint
    BY ReaderAssumption
  <2>3. ASSUME NEW from \in CmapCodes
        PROVE  LET after == {c \in from .. kMaxCodePoint : get(read.coverage, c)}
               IN nextSetBit(read.coverage, from) = IF after = {} THEN kNotFound ELSE Min(after)
    <3> DEFINE after == {c \in from .. kMaxCodePoint : get(read.coverage, c)}
    <3>1. from \in Nat
      BY <2>2 DEF CmapCodes
    <3>2. \A v : v \in after <=> v \in A /\ from <= v
      <4>1. \A v : v \in from..M <=> v \in 0..M /\ from <= v
        BY <3>1
      <4>2. \A v \in 0..M : get(read.coverage, v) <=> v \in A
        BY <2>1, <2>2 DEF Reads
      <4>. QED  BY <2>1, <2>2, <4>1, <4>2
    <3>3. after \in SUBSET Nat
      BY <2>1, <2>2, <3>2
    <3>4. PICK x : x = nextSetBit(read.coverage, from)
      OBVIOUS
    <3>5. \/ x = kNotFound /\ \A v \in A : v < from
          \/ x \in A /\ from <= x /\ \A v \in A : from <= v => x <= v
      BY <2>1, <3>1, <3>4 DEF Reads
    <3> HIDE DEF after
    <3>6. CASE x = kNotFound /\ \A v \in A : v < from
      <4>1. ASSUME NEW v \in after PROVE FALSE
        BY <3>1, <3>2, <3>3, <3>6
      <4>. QED  BY <3>4, <3>6, <4>1 DEF after
    <3>7. CASE x \in A /\ from <= x /\ \A v \in A : from <= v => x <= v
      <4>1. x \in after /\ \A v \in after : x <= v
        BY <3>2, <3>7
      <4>2. Min(after) \in after /\ Min(after) <= x /\ x <= Min(after)
        BY <3>3, <4>1, LeastIs
      <4>3. x = Min(after)
        <5>1. PICK y, z \in Nat : y = x /\ z = Min(after)
          BY <3>3, <4>1, <4>2
        <5>2. y <= z /\ z <= y
          BY <4>2, <5>1
        <5>. QED  BY <5>1, <5>2
      <4>. QED  BY <3>4, <4>1, <4>3 DEF after
    <3>. QED  BY <3>5, <3>6, <3>7
  <2>. QED  BY <2>3 DEF WalkMeetsAll
<1>. QED  BY <1>1, ReadRightHolds, PTL

-----------------------------------------------------------------------------
(***************************************************************************)
(* Merging two lists of ranges.                                            *)
(***************************************************************************)

(* Two numbers have a larger one.                                          *)
LEMMA GreaterOfTwo ==
  ASSUME NEW a \in Int, NEW b \in Int
  PROVE  Max({a, b}) = IF a <= b THEN b ELSE a
BY DEF Max

(* Two ranges that intersect make one of the values of both.               *)
LEMMA MergedRange ==
  ASSUME NEW a, NEW b, IsRange(a), IsRange(b), intersects(a, b)
  PROVE  /\ IsRange(merge(a, b)) /\ merge(a, b) \in Nat \X Nat
         /\ merge(a, b)[1] = IF a[1] <= b[1] THEN a[1] ELSE b[1]
         /\ Between(merge(a, b)[1], merge(a, b)[2]) = Between(a[1], a[2]) \cup Between(b[1], b[2])
<1>1. PICK x, y, p, q \in Nat : x = a[1] /\ y = a[2] /\ p = b[1] /\ q = b[2] /\ x < y /\ p < q /\ x < q /\ p < y
  BY DEF IsRange, intersects
<1>2. PICK s, e \in Nat : /\ s = Min({x, p}) /\ s = IF x <= p THEN x ELSE p
                          /\ e = Max({y, q}) /\ e = IF y <= q THEN q ELSE y
  BY <1>1, LesserOfTwo, GreaterOfTwo
<1>3. s < e
  BY <1>1, <1>2
<1>4. merge(a, b) = <<s, e>>
  BY <1>1, <1>2 DEF merge
<1>5. \A v \in Nat : s <= v /\ v < e <=> (x <= v /\ v < y) \/ (p <= v /\ v < q)
  BY <1>1, <1>2
<1>6. Between(s, e) = Between(x, y) \cup Between(p, q)
  BY <1>5 DEF Between
<1>. QED  BY <1>1, <1>2, <1>3, <1>4, <1>6 DEF IsRange

\* The values of the ranges of a list from i on, and that they lie from b on.
From(list, i) == {v \in Nat : \E j \in i..Len(list) : list[j][1] <= v /\ v < list[j][2]}
GoesOn(list, i, b) == i \in 1..Len(list) + 1 /\ (i <= Len(list) => b <= list[i][1])

(* A range is taken from a list.                                           *)
LEMMA NextIsTaken ==
  ASSUME NEW list, IsRangeList(list), NEW i, NEW b, GoesOn(list, i, b), i <= Len(list)
  PROVE  /\ IsRange(list[i]) /\ list[i] \in Nat \X Nat /\ b <= list[i][1]
         /\ GoesOn(list, i + 1, list[i][2])
         /\ From(list, i) = Between(list[i][1], list[i][2]) \cup From(list, i + 1)
<1>1. PICK n \in Nat : n = Len(list) /\ list \in Seq(Nat \X Nat) /\ DOMAIN list = 1..n
  BY DEF IsRangeList
<1>2. i \in 1..n /\ b <= list[i][1]
  BY <1>1 DEF GoesOn
<1>3. IsRange(list[i]) /\ list[i] \in Nat \X Nat
  BY <1>1, <1>2 DEF IsRangeList
<1>4. i + 1 \in 1..n + 1 /\ (i + 1 <= n => i + 1 \in 2..n /\ (i + 1) - 1 = i)
  BY <1>2
<1>5. GoesOn(list, i + 1, list[i][2])
  BY <1>1, <1>4 DEF GoesOn, IsRangeList
<1>6. \A j : j \in i..n <=> j = i \/ j \in i + 1..n
  BY <1>2
<1>7. From(list, i) = Between(list[i][1], list[i][2]) \cup From(list, i + 1)
  BY <1>1, <1>6 DEF From, Between
<1>. QED  BY <1>2, <1>3, <1>5, <1>7

(* A list that is used up has no values.                                   *)
LEMMA NoneIsLeft ==
  ASSUME NEW list, IsRangeList(list), NEW i, NEW b, GoesOn(list, i, b)
  PROVE  /\ i \in Nat \ {0} /\ i - 1 <= Len(list)
         /\ ~(i <= Len(list)) => From(list, i) = {} /\ i = Len(list) + 1
<1>1. PICK n \in Nat : n = Len(list)
  BY DEF IsRangeList
<1>2. i \in 1..n + 1
  BY <1>1 DEF GoesOn
<1>3. ASSUME ~(i <= n) PROVE From(list, i) = {} /\ i = n + 1
  <2>1. i = n + 1 /\ i..n = {}
    BY <1>2, <1>3
  <2>. QED  BY <1>1, <2>1 DEF From
<1>. QED  BY <1>1, <1>2, <1>3

(* It goes on from an earlier number, too.                                 *)
LEMMA GoesOnFrom ==
  ASSUME NEW list, IsRangeList(list), NEW i, NEW b \in Nat, NEW c \in Nat, c <= b, GoesOn(list, i, b)
  PROVE  GoesOn(list, i, c)
<1>1. PICK n \in Nat : n = Len(list)
  BY DEF IsRangeList
<1>2. i \in 1..n + 1
  BY <1>1 DEF GoesOn
<1>3. ASSUME i <= n PROVE c <= list[i][1]
  <2>1. i \in 1..n
    BY <1>2, <1>3
  <2>2. PICK x \in Nat : x = list[i][1]
    BY <1>1, <2>1 DEF IsRangeList, IsRange
  <2>3. b <= x
    BY <1>1, <1>3, <2>2 DEF GoesOn
  <2>. QED  BY <2>2, <2>3
<1>. QED  BY <1>1, <1>2, <1>3 DEF GoesOn

(* A range a list does not meet lies before it.                            *)
LEMMA NextIsBehind ==
  ASSUME NEW list, IsRangeList(list), NEW i, NEW a, IsRange(a), GoesOn(list, i, a[1]),
         i <= Len(list) => ~intersects(a, list[i])
  PROVE  GoesOn(list, i, a[2])
<1>1. PICK n \in Nat : n = Len(list)
  BY DEF IsRangeList
<1>2. i \in 1..n + 1
  BY <1>1 DEF GoesOn
<1>3. ASSUME i <= n PROVE a[2] <= list[i][1]
  <2>1. i \in 1..n
    BY <1>2, <1>3
  <2>2. PICK x, y \in Nat : x = list[i][1] /\ y = list[i][2] /\ x < y
    BY <1>1, <2>1 DEF IsRangeList, IsRange
  <2>3. PICK p, q \in Nat : p = a[1] /\ q = a[2] /\ p < q
    BY DEF IsRange
  <2>4. p <= x
    BY <1>1, <1>3, <2>2, <2>3 DEF GoesOn
  <2>5. ~(p < y /\ x < q)
    BY <1>1, <1>3, <2>2, <2>3 DEF intersects
  <2>. QED  BY <2>2, <2>3, <2>4, <2>5
<1>. QED  BY <1>1, <1>2, <1>3 DEF GoesOn

MergeKind == [out : CoverKind, merged : Nat \X Nat, li : Nat, ri : Nat]
\* What is left of both lists lies behind what is written and being merged.
Pending(l, r, m) ==
  IF m.merged = NoRange
  THEN GoesOn(l, m.li, LastEnd(m.out.ranges)) /\ GoesOn(r, m.ri, LastEnd(m.out.ranges))
  ELSE /\ IsRange(m.merged) /\ LastEnd(m.out.ranges) <= m.merged[1]
       /\ GoesOn(l, m.li, m.merged[1]) /\ GoesOn(r, m.ri, m.merged[1])
Held(m) == Vals(m.out.ranges) \cup Between(m.merged[1], m.merged[2])
\* The mergings that lose and invent nothing.
Merging(l, r, All) ==
  {m \in MergeKind : /\ IsRangeList(m.out.ranges) /\ Pending(l, r, m)
                     /\ (Held(m) \cup From(l, m.li)) \cup From(r, m.ri) = All}

(* The range being merged takes up the next one of the left list.          *)
LEMMA LeftIsTaken ==
  ASSUME NEW l, NEW r, IsRangeList(l), IsRangeList(r), NEW All, NEW m \in Merging(l, r, All),
         Meets(m, l, m.li)
  PROVE  [m EXCEPT !.merged = merge(@, l[m.li]), !.li = @ + 1] \in Merging(l, r, All)
<1>1. PICK o \in CoverKind, g \in Nat \X Nat, i \in Nat, j \in Nat :
         m = [out |-> o, merged |-> g, li |-> i, ri |-> j]
  BY DEF Merging, MergeKind
<1>2. /\ g # NoRange /\ i <= Len(l) /\ intersects(g, l[i])
      /\ IsRangeList(o.ranges) /\ IsRange(g) /\ LastEnd(o.ranges) <= g[1]
      /\ GoesOn(l, i, g[1]) /\ GoesOn(r, j, g[1])
      /\ ((Vals(o.ranges) \cup Between(g[1], g[2])) \cup From(l, i)) \cup From(r, j) = All
  BY <1>1 DEF Merging, Meets, Pending, Held
<1>3. PICK h : h = merge(g, l[i])
  OBVIOUS
<1>4. PICK k \in Nat : k = i + 1
  OBVIOUS
<1>5. /\ IsRange(l[i]) /\ g[1] <= l[i][1] /\ GoesOn(l, k, l[i][2])
      /\ From(l, i) = Between(l[i][1], l[i][2]) \cup From(l, k)
  BY <1>2, <1>4, NextIsTaken
<1>6. /\ IsRange(h) /\ h \in Nat \X Nat /\ h[1] = g[1]
      /\ Between(h[1], h[2]) = Between(g[1], g[2]) \cup Between(l[i][1], l[i][2])
  BY <1>2, <1>3, <1>5, MergedRange
<1>7. h # NoRange
  BY <1>6 DEF IsRange, NoRange
<1>8. GoesOn(l, k, g[1])
  <2>1. g[1] \in Nat /\ l[i][2] \in Nat /\ g[1] <= l[i][2]
    BY <1>2, <1>5 DEF IsRange
  <2>. QED  BY <1>5, <2>1, GoesOnFrom
<1>9. PICK n : n = [m EXCEPT !.merged = h, !.li = k]
  OBVIOUS
<1>10. n = [m EXCEPT !.merged = merge(@, l[m.li]), !.li = @ + 1]
  <2>1. m.merged = g /\ m.li = i
    BY <1>1
  <2>2. h = merge(m.merged, l[m.li]) /\ k = m.li + 1
    BY <1>3, <1>4, <2>1
  <2>. QED  BY <1>9, <2>2
<1>11. n \in MergeKind /\ n.out = o /\ n.merged = h /\ n.li = k /\ n.ri = j
  <2>1. m \in MergeKind /\ m.out = o /\ m.li = i /\ m.ri = j
    BY <1>1 DEF Merging
  <2>. QED  BY <1>6, <1>9, <2>1 DEF MergeKind
<1>12. Pending(l, r, n)
  BY <1>2, <1>6, <1>7, <1>8, <1>11 DEF Pending
<1>13. (Held(n) \cup From(l, n.li)) \cup From(r, n.ri) = All
  BY <1>2, <1>5, <1>6, <1>11 DEF Held
<1>. QED  BY <1>2, <1>10, <1>11, <1>12, <1>13 DEF Merging

(* It takes up the next one of the right list.                             *)
LEMMA RightIsTaken ==
  ASSUME NEW l, NEW r, IsRangeList(l), IsRangeList(r), NEW All, NEW m \in Merging(l, r, All),
         Meets(m, r, m.ri)
  PROVE  [m EXCEPT !.merged = merge(@, r[m.ri]), !.ri = @ + 1] \in Merging(l, r, All)
<1>1. PICK o \in CoverKind, g \in Nat \X Nat, i \in Nat, j \in Nat :
         m = [out |-> o, merged |-> g, li |-> i, ri |-> j]
  BY DEF Merging, MergeKind
<1>2. /\ g # NoRange /\ j <= Len(r) /\ intersects(g, r[j])
      /\ IsRangeList(o.ranges) /\ IsRange(g) /\ LastEnd(o.ranges) <= g[1]
      /\ GoesOn(l, i, g[1]) /\ GoesOn(r, j, g[1])
      /\ ((Vals(o.ranges) \cup Between(g[1], g[2])) \cup From(l, i)) \cup From(r, j) = All
  BY <1>1 DEF Merging, Meets, Pending, Held
<1>3. PICK h : h = merge(g, r[j])
  OBVIOUS
<1>4. PICK k \in Nat : k = j + 1
  OBVIOUS
<1>5. /\ IsRange(r[j]) /\ g[1] <= r[j][1] /\ GoesOn(r, k, r[j][2])
      /\ From(r, j) = Between(r[j][1], r[j][2]) \cup From(r, k)
  BY <1>2, <1>4, NextIsTaken
<1>6. /\ IsRange(h) /\ h \in Nat \X Nat /\ h[1] = g[1]
      /\ Between(h[1], h[2]) = Between(g[1], g[2]) \cup Between(r[j][1], r[j][2])
  BY <1>2, <1>3, <1>5, MergedRange
<1>7. h # NoRange
  BY <1>6 DEF IsRange, NoRange
<1>8. GoesOn(r, k, g[1])
  <2>1. g[1] \in Nat /\ r[j][2] \in Nat /\ g[1] <= r[j][2]
    BY <1>2, <1>5 DEF IsRange
  <2>. QED  BY <1>5, <2>1, GoesOnFrom
<1>9. PICK n : n = [m EXCEPT !.merged = h, !.ri = k]
  OBVIOUS
<1>10. n = [m EXCEPT !.merged = merge(@, r[m.ri]), !.ri = @ + 1]
  <2>1. m.merged = g /\ m.ri = j
    BY <1>1
  <2>2. h = merge(m.merged, r[m.ri]) /\ k = m.ri + 1
    BY <1>3, <1>4, <2>1
  <2>. QED  BY <1>9, <2>2
<1>11. n \in MergeKind /\ n.out = o /\ n.merged = h /\ n.li = i /\ n.ri = k
  <2>1. m \in MergeKind /\ m.out = o /\ m.li = i /\ m.ri = j
    BY <1>1 DEF Merging
  <2>. QED  BY <1>6, <1>9, <2>1 DEF MergeKind
<1>12. Pending(l, r, n)
  BY <1>2, <1>6, <1>7, <1>8, <1>11 DEF Pending
<1>13. (Held(n) \cup From(l, n.li)) \cup From(r, n.ri) = All
  BY <1>2, <1>5, <1>6, <1>11 DEF Held
<1>. QED  BY <1>2, <1>10, <1>11, <1>12, <1>13 DEF Merging

(* A range behind the written ones is written.                             *)
LEMMA RangeIsWritten ==
  ASSUME NEW o \in CoverKind, IsRangeList(o.ranges), NEW a, IsRange(a), LastEnd(o.ranges) <= a[1]
  PROVE  LET p == addRange(o, a[1], a[2])
         IN /\ p \in CoverKind /\ IsRangeList(p.ranges) /\ LastEnd(p.ranges) = a[2]
            /\ Vals(p.ranges) = Vals(o.ranges) \cup Between(a[1], a[2])
<1>1. PICK s, e \in Nat : s = a[1] /\ e = a[2] /\ s < e
  BY DEF IsRange
<1>2. PICK p : p = addRange(o, s, e)
  OBVIOUS
<1>3. Kept(o, p) /\ Added(o, p, s, e)
  BY <1>1, <1>2, RangeIsAdded
<1>. QED  BY <1>1, <1>2, <1>3 DEF Kept, Added

(* What is being merged is written when no list meets it.                  *)
LEMMA MergedIsWritten ==
  ASSUME NEW l, NEW r, IsRangeList(l), IsRangeList(r), NEW All, NEW m \in Merging(l, r, All),
         ~Meets(m, l, m.li), ~Meets(m, r, m.ri)
  PROVE  /\ Written(m) \in Merging(l, r, All) /\ Written(m).merged = NoRange
         /\ Written(m).li = m.li /\ Written(m).ri = m.ri
<1>1. PICK o \in CoverKind, g \in Nat \X Nat, i \in Nat, j \in Nat :
         m = [out |-> o, merged |-> g, li |-> i, ri |-> j]
  BY DEF Merging, MergeKind
<1>2. CASE g = NoRange
  BY <1>1, <1>2 DEF Written
<1>3. CASE g # NoRange
  <2>1. /\ i <= Len(l) => ~intersects(g, l[i])
        /\ j <= Len(r) => ~intersects(g, r[j])
        /\ IsRangeList(o.ranges) /\ IsRange(g) /\ LastEnd(o.ranges) <= g[1]
        /\ GoesOn(l, i, g[1]) /\ GoesOn(r, j, g[1])
        /\ ((Vals(o.ranges) \cup Between(g[1], g[2])) \cup From(l, i)) \cup From(r, j) = All
    BY <1>1, <1>3 DEF Merging, Meets, Pending, Held
  <2>2. PICK p : p = addRange(o, g[1], g[2])
    OBVIOUS
  <2>3. /\ p \in CoverKind /\ IsRangeList(p.ranges) /\ LastEnd(p.ranges) = g[2]
        /\ Vals(p.ranges) = Vals(o.ranges) \cup Between(g[1], g[2])
    BY <2>1, <2>2, RangeIsWritten
  <2>4. GoesOn(l, i, g[2]) /\ GoesOn(r, j, g[2])
    BY <2>1, NextIsBehind
  <2>5. PICK n : n = [out |-> p, merged |-> NoRange, li |-> i, ri |-> j]
    OBVIOUS
  <2>6. n = Written(m)
    BY <1>1, <1>3, <2>2, <2>5 DEF Written, Write
  <2>7. NoRange \in Nat \X Nat /\ Between(NoRange[1], NoRange[2]) = {}
    BY DEF NoRange, Between
  <2>8. n \in MergeKind /\ n.out = p /\ n.merged = NoRange /\ n.li = i /\ n.ri = j
    BY <2>3, <2>5, <2>7 DEF MergeKind
  <2>9. Pending(l, r, n)
    BY <2>3, <2>4, <2>8 DEF Pending
  <2>10. (Held(n) \cup From(l, n.li)) \cup From(r, n.ri) = All
    BY <2>1, <2>3, <2>7, <2>8 DEF Held
  <2>. QED  BY <1>1, <2>3, <2>6, <2>8, <2>9, <2>10 DEF Merging
<1>. QED  BY <1>2, <1>3

(* The next range of the left list is written when it comes first.        *)
LEMMA LeftIsWritten ==
  ASSUME NEW l, NEW r, IsRangeList(l), IsRangeList(r), NEW All, NEW m \in Merging(l, r, All),
         m.merged = NoRange, m.li <= Len(l),
         m.ri <= Len(r) => ~intersects(l[m.li], r[m.ri]) /\ l[m.li][1] <= r[m.ri][1]
  PROVE  [Write(m, l[m.li]) EXCEPT !.li = @ + 1] \in Merging(l, r, All)
<1>1. PICK o \in CoverKind, i \in Nat, j \in Nat :
         o = m.out /\ i = m.li /\ j = m.ri /\ m \in MergeKind
  BY DEF Merging, MergeKind
<1>2. Between(NoRange[1], NoRange[2]) = {}
  BY DEF NoRange, Between
<1>3. /\ IsRangeList(o.ranges) /\ GoesOn(l, i, LastEnd(o.ranges)) /\ GoesOn(r, j, LastEnd(o.ranges))
      /\ (Vals(o.ranges) \cup From(l, i)) \cup From(r, j) = All
  BY <1>1, <1>2 DEF Merging, Pending, Held
<1>4. PICK a : a = l[i]
  OBVIOUS
<1>5. PICK k \in Nat : k = i + 1
  OBVIOUS
<1>6. /\ IsRange(a) /\ LastEnd(o.ranges) <= a[1] /\ GoesOn(l, k, a[2])
      /\ From(l, i) = Between(a[1], a[2]) \cup From(l, k)
  BY <1>1, <1>3, <1>4, <1>5, NextIsTaken
<1>7. PICK p : p = addRange(o, a[1], a[2])
  OBVIOUS
<1>8. /\ p \in CoverKind /\ IsRangeList(p.ranges) /\ LastEnd(p.ranges) = a[2]
      /\ Vals(p.ranges) = Vals(o.ranges) \cup Between(a[1], a[2])
  BY <1>3, <1>6, <1>7, RangeIsWritten
<1>9. GoesOn(r, j, a[2])
  <2>1. GoesOn(r, j, a[1])
    BY <1>1, <1>3, <1>4 DEF GoesOn
  <2>. QED  BY <1>1, <1>4, <1>6, <2>1, NextIsBehind
<1>10. PICK n : n = [m EXCEPT !.out = p, !.li = k]
  OBVIOUS
<1>11. n = [Write(m, l[m.li]) EXCEPT !.li = @ + 1]
  BY <1>1, <1>4, <1>5, <1>7, <1>10 DEF Write, MergeKind
<1>12. n \in MergeKind /\ n.out = p /\ n.merged = NoRange /\ n.li = k /\ n.ri = j
  BY <1>1, <1>8, <1>10 DEF MergeKind
<1>13. Pending(l, r, n)
  BY <1>6, <1>8, <1>9, <1>12 DEF Pending
<1>14. (Held(n) \cup From(l, n.li)) \cup From(r, n.ri) = All
  BY <1>2, <1>3, <1>6, <1>8, <1>12 DEF Held
<1>. QED  BY <1>8, <1>11, <1>12, <1>13, <1>14 DEF Merging

(* The next range of the right list is written when it comes first.       *)
LEMMA RightIsWritten ==
  ASSUME NEW l, NEW r, IsRangeList(l), IsRangeList(r), NEW All, NEW m \in Merging(l, r, All),
         m.merged = NoRange, m.ri <= Len(r),
         m.li <= Len(l) => ~intersects(r[m.ri], l[m.li]) /\ r[m.ri][1] <= l[m.li][1]
  PROVE  [Write(m, r[m.ri]) EXCEPT !.ri = @ + 1] \in Merging(l, r, All)
<1>1. PICK o \in CoverKind, i \in Nat, j \in Nat :
         o = m.out /\ i = m.ri /\ j = m.li /\ m \in MergeKind
  BY DEF Merging, MergeKind
<1>2. Between(NoRange[1], NoRange[2]) = {}
  BY DEF NoRange, Between
<1>3. /\ IsRangeList(o.ranges) /\ GoesOn(r, i, LastEnd(o.ranges)) /\ GoesOn(l, j, LastEnd(o.ranges))
      /\ (Vals(o.ranges) \cup From(r, i)) \cup From(l, j) = All
  BY <1>1, <1>2 DEF Merging, Pending, Held
<1>4. PICK a : a = r[i]
  OBVIOUS
<1>5. PICK k \in Nat : k = i + 1
  OBVIOUS
<1>6. /\ IsRange(a) /\ LastEnd(o.ranges) <= a[1] /\ GoesOn(r, k, a[2])
      /\ From(r, i) = Between(a[1], a[2]) \cup From(r, k)
  BY <1>1, <1>3, <1>4, <1>5, NextIsTaken
<1>7. PICK p : p = addRange(o, a[1], a[2])
  OBVIOUS
<1>8. /\ p \in CoverKind /\ IsRangeList(p.ranges) /\ LastEnd(p.ranges) = a[2]
      /\ Vals(p.ranges) = Vals(o.ranges) \cup Between(a[1], a[2])
  BY <1>3, <1>6, <1>7, RangeIsWritten
<1>9. GoesOn(l, j, a[2])
  <2>1. GoesOn(l, j, a[1])
    BY <1>1, <1>3, <1>4 DEF GoesOn
  <2>. QED  BY <1>1, <1>4, <1>6, <2>1, NextIsBehind
<1>10. PICK n : n = [m EXCEPT !.out = p, !.ri = k]
  OBVIOUS
<1>11. n = [Write(m, r[m.ri]) EXCEPT !.ri = @ + 1]
  BY <1>1, <1>4, <1>5, <1>7, <1>10 DEF Write, MergeKind
<1>12. n \in MergeKind /\ n.out = p /\ n.merged = NoRange /\ n.ri = k /\ n.li = j
  BY <1>1, <1>8, <1>10 DEF MergeKind
<1>13. Pending(l, r, n)
  BY <1>6, <1>8, <1>9, <1>12 DEF Pending
<1>14. (Held(n) \cup From(l, n.li)) \cup From(r, n.ri) = All
  BY <1>2, <1>3, <1>6, <1>8, <1>12 DEF Held
<1>. QED  BY <1>8, <1>11, <1>12, <1>13, <1>14 DEF Merging

(* Two next ranges that intersect begin a range.                           *)
LEMMA BothAreTaken ==
  ASSUME NEW l, NEW r, IsRangeList(l), IsRangeList(r), NEW All, NEW m \in Merging(l, r, All),
         m.merged = NoRange, m.li <= Len(l), m.ri <= Len(r), intersects(l[m.li], r[m.ri])
  PROVE  [m EXCEPT !.merged = merge(l[m.li], r[m.ri]), !.li = @ + 1, !.ri = @ + 1] \in Merging(l, r, All)
<1>1. PICK o \in CoverKind, i \in Nat, j \in Nat :
         o = m.out /\ i = m.li /\ j = m.ri /\ m \in MergeKind
  BY DEF Merging, MergeKind
<1>2. Between(NoRange[1], NoRange[2]) = {}
  BY DEF NoRange, Between
<1>3. /\ IsRangeList(o.ranges) /\ GoesOn(l, i, LastEnd(o.ranges)) /\ GoesOn(r, j, LastEnd(o.ranges))
      /\ (Vals(o.ranges) \cup From(l, i)) \cup From(r, j) = All
  BY <1>1, <1>2 DEF Merging, Pending, Held
<1>4. PICK a, b : a = l[i] /\ b = r[j]
  OBVIOUS
<1>5. PICK k, q \in Nat : k = i + 1 /\ q = j + 1
  OBVIOUS
<1>6. /\ IsRange(a) /\ LastEnd(o.ranges) <= a[1] /\ GoesOn(l, k, a[2])
      /\ From(l, i) = Between(a[1], a[2]) \cup From(l, k)
  BY <1>1, <1>3, <1>4, <1>5, NextIsTaken
<1>7. /\ IsRange(b) /\ LastEnd(o.ranges) <= b[1] /\ GoesOn(r, q, b[2])
      /\ From(r, j) = Between(b[1], b[2]) \cup From(r, q)
  BY <1>1, <1>3, <1>4, <1>5, NextIsTaken
<1>8. PICK h : h = merge(a, b)
  OBVIOUS
<1>9. /\ IsRange(h) /\ h \in Nat \X Nat /\ h[1] = IF a[1] <= b[1] THEN a[1] ELSE b[1]
      /\ Between(h[1], h[2]) = Between(a[1], a[2]) \cup Between(b[1], b[2])
  <2>1. intersects(a, b)
    BY <1>1, <1>4
  <2>. QED  BY <1>6, <1>7, <1>8, <2>1, MergedRange
<1>10. LastEnd(o.ranges) <= h[1] /\ GoesOn(l, k, h[1]) /\ GoesOn(r, q, h[1])
  <2>1. PICK x, y, u, v \in Nat : x = a[1] /\ y = a[2] /\ u = b[1] /\ v = b[2] /\ x < y /\ u < v
    BY <1>6, <1>7 DEF IsRange
  <2>2. PICK s \in Nat : s = h[1] /\ s = IF x <= u THEN x ELSE u
    BY <1>9, <2>1
  <2>3. s <= y /\ s <= v
    BY <2>1, <2>2
  <2>. QED  BY <1>6, <1>7, <2>1, <2>2, <2>3, GoesOnFrom
<1>11. h # NoRange
  BY <1>9 DEF IsRange, NoRange
<1>12. PICK n : n = [m EXCEPT !.merged = h, !.li = k, !.ri = q]
  OBVIOUS
<1>13. n = [m EXCEPT !.merged = merge(l[m.li], r[m.ri]), !.li = @ + 1, !.ri = @ + 1]
  <2>1. h = merge(l[m.li], r[m.ri]) /\ k = m.li + 1 /\ q = m.ri + 1
    BY <1>1, <1>4, <1>5, <1>8
  <2>. QED  BY <1>12, <2>1
<1>14. n \in MergeKind /\ n.out = o /\ n.merged = h /\ n.li = k /\ n.ri = q
  BY <1>1, <1>9, <1>12 DEF MergeKind
<1>15. Pending(l, r, n)
  BY <1>9, <1>10, <1>11, <1>14 DEF Pending
<1>16. (Held(n) \cup From(l, n.li)) \cup From(r, n.ri) = All
  BY <1>3, <1>6, <1>7, <1>9, <1>14 DEF Held
<1>. QED  BY <1>3, <1>13, <1>14, <1>15, <1>16 DEF Merging

\* How many ranges of both lists have been taken.
TakenSoFar(m) == (m.li - 1) + (m.ri - 1)

(* With nothing being merged, a next range is begun with or written, and   *)
(* nothing is changed when there is none.                                  *)
LEMMA NextIsBegun ==
  ASSUME NEW l, NEW r, IsRangeList(l), IsRangeList(r), NEW All, NEW m \in Merging(l, r, All),
         m.merged = NoRange
  PROVE  /\ BeginNext(l, r, m) \in Merging(l, r, All)
         /\ \/ /\ TakenSoFar(BeginNext(l, r, m)) > TakenSoFar(m)
               /\ ~(m.li = Len(l) + 1 /\ m.ri = Len(r) + 1)
            \/ BeginNext(l, r, m) = m /\ m.li = Len(l) + 1 /\ m.ri = Len(r) + 1
<1>1. PICK o \in CoverKind, i \in Nat, j \in Nat :
         o = m.out /\ i = m.li /\ j = m.ri /\ m \in MergeKind
  BY DEF Merging, MergeKind
<1>2. GoesOn(l, i, LastEnd(o.ranges)) /\ GoesOn(r, j, LastEnd(o.ranges))
  BY <1>1 DEF Merging, Pending
<1> DEFINE left == m.li <= Len(l)
           right == m.ri <= Len(r)
           both == left /\ right /\ intersects(l[m.li], r[m.ri])
           A == [m EXCEPT !.merged = merge(l[m.li], r[m.ri]), !.li = @ + 1, !.ri = @ + 1]
           B == [Write(m, l[m.li]) EXCEPT !.li = @ + 1]
           C == [Write(m, r[m.ri]) EXCEPT !.ri = @ + 1]
<1>3. PICK n : n = BeginNext(l, r, m)
  OBVIOUS
<1>10. n = CASE both -> A
             [] ~both /\ left /\ (right => l[m.li][1] < r[m.ri][1]) -> B
             [] ~both /\ right /\ (left => r[m.ri][1] <= l[m.li][1]) -> C
             [] ~left /\ ~right -> m
  BY <1>3, Zenon DEF BeginNext
<1>4. PICK nl, nr \in Nat : nl = Len(l) /\ nr = Len(r)
  BY DEF IsRangeList
<1>11. left \/ right => ~(m.li = Len(l) + 1 /\ m.ri = Len(r) + 1)
  BY <1>1, <1>4
<1>5. CASE both
  <2>1. n = A
    <3> HIDE DEF A, B, C
    <3>. QED  BY <1>5, <1>10
  <2>2. A \in Merging(l, r, All)
    BY <1>5, BothAreTaken
  <2>3. A.li = i + 1 /\ A.ri = j + 1
    BY <1>1 DEF MergeKind
  <2> HIDE DEF A
  <2>. QED  BY <1>1, <1>3, <1>11, <1>5, <2>1, <2>2, <2>3 DEF TakenSoFar
<1>6. CASE ~both /\ left /\ (right => l[m.li][1] < r[m.ri][1])
  <2>1. n = B
    <3>1. ~(right /\ (left => r[m.ri][1] <= l[m.li][1]))
      <4>1. ASSUME right PROVE ~(r[m.ri][1] <= l[m.li][1])
        <5>1. IsRange(l[i]) /\ IsRange(r[j])
          BY <1>1, <1>2, <1>6, <4>1, NextIsTaken
        <5>. QED  BY <1>1, <1>6, <4>1, <5>1 DEF IsRange
      <4>. QED  BY <1>6, <4>1
    <3> HIDE DEF A, B, C, left, right, both
    <3>. QED  BY <1>6, <1>10, <3>1
  <2>2. B \in Merging(l, r, All)
    <3>1. ASSUME right PROVE ~intersects(l[m.li], r[m.ri]) /\ l[m.li][1] <= r[m.ri][1]
      <4>1. IsRange(l[i]) /\ IsRange(r[j])
        BY <1>1, <1>2, <1>6, <3>1, NextIsTaken
      <4>. QED  BY <1>1, <1>6, <3>1, <4>1 DEF IsRange
    <3> HIDE DEF B
    <3>. QED  BY <1>6, <3>1, LeftIsWritten DEF B
  <2>3. B.li = i + 1 /\ B.ri = j
    BY <1>1 DEF MergeKind, Write
  <2> HIDE DEF B
  <2>. QED  BY <1>1, <1>3, <1>11, <1>6, <2>1, <2>2, <2>3 DEF TakenSoFar
<1>7. CASE ~both /\ right /\ (left => r[m.ri][1] <= l[m.li][1])
  <2>0. ~(left /\ (right => l[m.li][1] < r[m.ri][1]))
    <3>1. ASSUME left PROVE ~(l[m.li][1] < r[m.ri][1])
      <4>1. IsRange(l[i]) /\ IsRange(r[j])
        BY <1>1, <1>2, <1>7, <3>1, NextIsTaken
      <4>. QED  BY <1>1, <1>7, <3>1, <4>1 DEF IsRange
    <3>. QED  BY <1>7, <3>1
  <2>1. n = C
    <3> HIDE DEF A, B, C, left, right, both
    <3>. QED  BY <1>7, <1>10, <2>0
  <2>2. C \in Merging(l, r, All)
    <3>1. ASSUME left PROVE ~intersects(r[m.ri], l[m.li]) /\ r[m.ri][1] <= l[m.li][1]
      BY <1>7, <3>1 DEF intersects
    <3> HIDE DEF C
    <3>. QED  BY <1>7, <3>1, RightIsWritten DEF C
  <2>3. C.li = i /\ C.ri = j + 1
    BY <1>1 DEF MergeKind, Write
  <2> HIDE DEF C
  <2>. QED  BY <1>1, <1>3, <1>11, <1>7, <2>1, <2>2, <2>3 DEF TakenSoFar
<1>8. CASE ~left /\ ~right
  <2>1. n = m
    BY <1>8, <1>10
  <2>2. i = nl + 1 /\ j = nr + 1
    BY <1>1, <1>2, <1>4, <1>8, NoneIsLeft
  <2>. QED  BY <1>1, <1>3, <1>4, <2>1, <2>2
<1>9. both \/ (~both /\ left /\ (right => l[m.li][1] < r[m.ri][1]))
         \/ (~both /\ right /\ (left => r[m.ri][1] <= l[m.li][1])) \/ (~left /\ ~right)
  <2>1. ASSUME left, right PROVE l[m.li][1] < r[m.ri][1] \/ r[m.ri][1] <= l[m.li][1]
    <3>1. IsRange(l[i]) /\ IsRange(r[j])
      BY <1>1, <1>2, <2>1, NextIsTaken
    <3>. QED  BY <1>1, <3>1 DEF IsRange
  <2>. QED  BY <2>1
<1> HIDE DEF left, right, both
<1>. QED  BY <1>5, <1>6, <1>7, <1>8, <1>9

\* k ranges have been taken, or all of them and the last one is written.
TakenOrDone(l, r, m, k) ==
  \/ TakenSoFar(m) >= k
  \/ m.merged = NoRange /\ m.li = Len(l) + 1 /\ m.ri = Len(r) + 1

(* Every step of the merging takes a range until all are written.          *)
LEMMA MergingGoesOn ==
  ASSUME NEW l, NEW r, IsRangeList(l), IsRangeList(r), NEW All, NEW m \in Merging(l, r, All),
         NEW k \in Nat, TakenOrDone(l, r, m, k)
  PROVE  MergeStep(l, r, m) \in Merging(l, r, All) /\ TakenOrDone(l, r, MergeStep(l, r, m), k + 1)
<1>1. PICK i \in Nat, j \in Nat : i = m.li /\ j = m.ri /\ m \in MergeKind
  BY DEF Merging, MergeKind
<1>2. PICK n : n = MergeStep(l, r, m)
  OBVIOUS
<1>3. TakenSoFar(m) = (i - 1) + (j - 1)
  BY <1>1 DEF TakenSoFar
<1>4. PICK a \in Int : a = TakenSoFar(m)
  BY <1>3
<1>5. CASE Meets(m, l, m.li)
  <2> DEFINE x == [m EXCEPT !.merged = merge(@, l[m.li]), !.li = @ + 1]
  <2>1. n = x /\ x \in Merging(l, r, All)
    BY <1>2, <1>5, LeftIsTaken DEF MergeStep
  <2>2. x.li = i + 1 /\ x.ri = j
    BY <1>1 DEF MergeKind
  <2>3. m.merged # NoRange
    BY <1>5 DEF Meets
  <2> HIDE DEF x
  <2>4. TakenSoFar(n) = a + 1
    BY <1>3, <1>4, <2>1, <2>2 DEF TakenSoFar
  <2>5. a >= k
    BY <1>4, <2>3 DEF TakenOrDone
  <2>. QED  BY <1>2, <2>1, <2>4, <2>5 DEF TakenOrDone
<1>6. CASE ~Meets(m, l, m.li) /\ Meets(m, r, m.ri)
  <2> DEFINE x == [m EXCEPT !.merged = merge(@, r[m.ri]), !.ri = @ + 1]
  <2>1. n = x /\ x \in Merging(l, r, All)
    BY <1>2, <1>6, RightIsTaken DEF MergeStep
  <2>2. x.li = i /\ x.ri = j + 1
    BY <1>1 DEF MergeKind
  <2>3. m.merged # NoRange
    BY <1>6 DEF Meets
  <2> HIDE DEF x
  <2>4. TakenSoFar(n) = a + 1
    BY <1>3, <1>4, <2>1, <2>2 DEF TakenSoFar
  <2>5. a >= k
    BY <1>4, <2>3 DEF TakenOrDone
  <2>. QED  BY <1>2, <2>1, <2>4, <2>5 DEF TakenOrDone
<1>7. CASE ~Meets(m, l, m.li) /\ ~Meets(m, r, m.ri)
  <2>1. PICK w : w = Written(m)
    OBVIOUS
  <2>2. w \in Merging(l, r, All) /\ w.merged = NoRange /\ w.li = i /\ w.ri = j
    BY <1>1, <1>7, <2>1, MergedIsWritten
  <2>3. n = BeginNext(l, r, w)
    BY <1>2, <1>7, <2>1 DEF MergeStep
  <2>4. /\ n \in Merging(l, r, All)
        /\ \/ TakenSoFar(n) > TakenSoFar(w) /\ ~(w.li = Len(l) + 1 /\ w.ri = Len(r) + 1)
           \/ n = w /\ w.li = Len(l) + 1 /\ w.ri = Len(r) + 1
    BY <2>2, <2>3, NextIsBegun
  <2>5. CASE n = w /\ w.li = Len(l) + 1 /\ w.ri = Len(r) + 1
    BY <1>2, <2>2, <2>4, <2>5 DEF TakenOrDone
  <2>6. CASE TakenSoFar(n) > TakenSoFar(w) /\ ~(w.li = Len(l) + 1 /\ w.ri = Len(r) + 1)
    <3>1. TakenSoFar(w) = a
      BY <1>3, <1>4, <2>2 DEF TakenSoFar
    <3>2. PICK b \in Int : b = TakenSoFar(n)
      BY <2>4 DEF TakenSoFar, Merging, MergeKind
    <3>3. a >= k
      BY <1>1, <1>4, <2>2, <2>6 DEF TakenOrDone
    <3>4. b >= k + 1
      BY <2>6, <3>1, <3>2, <3>3
    <3>. QED  BY <1>2, <2>4, <3>2, <3>4 DEF TakenOrDone
  <2>. QED  BY <2>4, <2>5, <2>6
<1>. QED  BY <1>5, <1>6, <1>7

(* The merging begins with the values of both lists.                       *)
LEMMA MergingBegins ==
  ASSUME NEW l, NEW r, IsRangeList(l), IsRangeList(r)
  PROVE  NotMerged \in Merging(l, r, Vals(l) \cup Vals(r)) /\ TakenOrDone(l, r, NotMerged, 0)
<1>1. PICK m : m = NotMerged
  OBVIOUS
<1>2. /\ NoRanges \in CoverKind /\ IsRangeList(NoRanges.ranges)
      /\ LastEnd(NoRanges.ranges) = 0 /\ Vals(NoRanges.ranges) = {}
  <2>1. NoRanges \in CoverKind /\ IsRangeList(NoRanges.ranges) /\ Len(NoRanges.ranges) = 0
    BY NoRangesKind DEF NoRanges
  <2>. QED  BY <2>1, ValsEnd
<1>3. NoRange \in Nat \X Nat /\ Between(NoRange[1], NoRange[2]) = {}
  BY DEF NoRange, Between
<1>4. m \in MergeKind /\ m.out = NoRanges /\ m.merged = NoRange /\ m.li = 1 /\ m.ri = 1
  BY <1>1, <1>2, <1>3 DEF NotMerged, MergeKind
<1>5. ASSUME NEW list, IsRangeList(list) PROVE GoesOn(list, 1, 0) /\ From(list, 1) = Vals(list)
  <2>1. PICK n \in Nat : n = Len(list)
    BY <1>5 DEF IsRangeList
  <2>2. 1 \in 1..n + 1
    BY <2>1
  <2>3. ASSUME 1 <= n PROVE 0 <= list[1][1]
    <3>1. list[1][1] \in Nat
      BY <1>5, <2>1, <2>3 DEF IsRangeList, IsRange
    <3>. QED  BY <3>1
  <2>. QED  BY <2>1, <2>2, <2>3 DEF GoesOn, From, Vals, Values
<1>6. Pending(l, r, m)
  BY <1>2, <1>4, <1>5 DEF Pending
<1>7. (Held(m) \cup From(l, m.li)) \cup From(r, m.ri) = Vals(l) \cup Vals(r)
  BY <1>2, <1>3, <1>4, <1>5 DEF Held
<1>8. TakenSoFar(m) = 0
  BY <1>4 DEF TakenSoFar
<1>. QED  BY <1>1, <1>2, <1>4, <1>6, <1>7, <1>8 DEF Merging, TakenOrDone

(* Two lists of ranges become one with the values of both (mergeRanges).   *)
LEMMA RangesAreMerged ==
  ASSUME NEW l, NEW r, IsRangeList(l), IsRangeList(r)
  PROVE  IsRangeList(mergeRanges(l, r)) /\ Vals(mergeRanges(l, r)) = Vals(l) \cup Vals(r)
<1>1. PICK nl, nr \in Nat : nl = Len(l) /\ nr = Len(r)
  BY DEF IsRangeList
<1>2. PICK n \in Nat : n = Len(l) + Len(r) + 1 /\ n = nl + nr + 1
  BY <1>1
<1> DEFINE Kind(k) == {m \in Merging(l, r, Vals(l) \cup Vals(r)) : TakenOrDone(l, r, m, k)}
           kinds == [k \in 0..n |-> Kind(k)]
           step == [k \in 0..n |-> [x \in Kind(k - 1) |-> MergeStep(l, r, x)]]
           f == CHOOSE f : f = [k \in 0..n |-> IF k = 0 THEN NotMerged ELSE MergeStep(l, r, f[k - 1])]
<1>3. NotMerged \in Kind(0)
  BY MergingBegins
<1>4. \A k \in 0..n : k # 0 => k \in 1..n /\ k - 1 \in 0..n
  OBVIOUS
<1>5. \A k \in 0..n : k # 0 => \A x \in kinds[k - 1] :
         step[k][x] \in kinds[k] /\ step[k][x] = MergeStep(l, r, x)
  <2> SUFFICES ASSUME NEW k \in 0..n, k # 0, NEW x \in kinds[k - 1]
               PROVE  step[k][x] \in kinds[k] /\ step[k][x] = MergeStep(l, r, x)
    OBVIOUS
  <2>1. PICK p \in Nat : p = k - 1 /\ p \in 0..n /\ p + 1 = k
    BY <1>4
  <2>2. x \in Kind(p)
    BY <2>1
  <2>3. x \in Merging(l, r, Vals(l) \cup Vals(r)) /\ TakenOrDone(l, r, x, p)
    BY <2>2
  <2>4. MergeStep(l, r, x) \in Kind(k)
    BY <2>1, <2>3, MergingGoesOn
  <2> HIDE DEF Kind
  <2>. QED  BY <2>1, <2>2, <2>4
<1>6. NotMerged \in kinds[0]
  BY <1>3
<1> HIDE DEF step, kinds
<1>7. PICK g : IsIteration(0, n, NotMerged, step, kinds, g)
  <2>1. 0 \in Nat /\ 0 <= n
    OBVIOUS
  <2>. QED  BY <1>5, <1>6, <2>1, IterationExists
<1>8. g = [k \in 0..n |-> IF k = 0 THEN NotMerged ELSE MergeStep(l, r, g[k - 1])]
  BY <1>4, <1>5, <1>7 DEF IsIteration
<1>9. f = [k \in 0..n |-> IF k = 0 THEN NotMerged ELSE MergeStep(l, r, f[k - 1])]
  BY <1>8
<1>10. mergeRanges(l, r) = f[n].out.ranges
  BY <1>2 DEF mergeRanges
<1> HIDE DEF f
<1>11. f[0] = NotMerged /\ \A k \in 1..n : k \in 0..n /\ k # 0 /\ f[k] = MergeStep(l, r, f[k - 1])
  BY <1>9
<1> DEFINE T == {k \in 0..n : f[k] \in kinds[k]}
<1>12. 0 \in T
  BY <1>6, <1>11
<1>13. ASSUME NEW k \in 1..n, k - 1 \in T PROVE k \in T
  <2>1. k \in 0..n /\ k # 0 /\ f[k - 1] \in kinds[k - 1]
    BY <1>13
  <2>2. step[k][f[k - 1]] \in kinds[k] /\ step[k][f[k - 1]] = MergeStep(l, r, f[k - 1])
    BY <1>5, <2>1
  <2>. QED  BY <1>11, <2>1, <2>2
<1> HIDE DEF T
<1>14. n \in T
  <2>1. n \in 0..n
    OBVIOUS
  <2>. QED  BY <1>12, <1>13, <2>1, ReachesAll
<1>15. PICK m : m = f[n] /\ m \in Merging(l, r, Vals(l) \cup Vals(r)) /\ TakenOrDone(l, r, m, n)
  BY <1>14 DEF T, kinds
<1>16. PICK i, j \in Nat \ {0} : i = m.li /\ j = m.ri /\ i - 1 <= nl /\ j - 1 <= nr
  <2>1. \E b : GoesOn(l, m.li, b) /\ GoesOn(r, m.ri, b)
    BY <1>15 DEF Merging, Pending
  <2>. QED  BY <1>1, <2>1, NoneIsLeft
<1>17. ~(TakenSoFar(m) >= n)
  BY <1>2, <1>16 DEF TakenSoFar
<1>18. m.merged = NoRange /\ i = nl + 1 /\ j = nr + 1
  BY <1>1, <1>15, <1>16, <1>17 DEF TakenOrDone
<1>19. From(l, i) = {} /\ From(r, j) = {}
  <2>1. i..nl = {} /\ j..nr = {}
    BY <1>18
  <2>. QED  BY <1>1, <2>1 DEF From
<1>20. Between(NoRange[1], NoRange[2]) = {}
  BY DEF NoRange, Between
<1>21. IsRangeList(m.out.ranges) /\ Vals(m.out.ranges) = Vals(l) \cup Vals(r)
  BY <1>15, <1>16, <1>18, <1>19, <1>20 DEF Merging, Held
<1>. QED  BY <1>10, <1>15, <1>21

-----------------------------------------------------------------------------
(***************************************************************************)
(* Tables of variation sequences.                                          *)
(***************************************************************************)

(* One code point behind the others is added.                              *)
LEMMA SingleIsAdded ==
  ASSUME NEW c \in CoverKind, IsRangeList(c.ranges), NEW x \in Nat
  PROVE  LET d == AddOne(FALSE, c, x)
         IN /\ d \in CoverKind /\ IsRangeList(d.ranges)
            /\ c.ok /\ LastEnd(c.ranges) <= x =>
                  d.ok /\ LastEnd(d.ranges) <= x + 1 /\ Vals(d.ranges) = Vals(c.ranges) \cup {x}
<1>1. AddedAll(c, c, x, x, {})
  BY NothingAdded
<1>2. AddedAll(c, AddOne(FALSE, c, x), x, x + 1, {} \cup {x})
  <2>1. FALSE \in BOOLEAN /\ x <= x
    OBVIOUS
  <2>. QED  BY <1>1, <2>1, OneIsAdded
<1>3. {} \cup {x} = {x}
  OBVIOUS
<1>. QED  BY <1>2, <1>3 DEF AddedAll

CodesInOrder(codes, k) == \A i \in 1..k - 1 : codes[i] + 1 <= codes[i + 1]
CodesTo(codes, k) == {v \in Nat : \E i \in 1..k : codes[i] = v}
\* What is known when k code points have been read.
CodesRead(codes, k) ==
  {d \in CoverKind :
     /\ IsRangeList(d.ranges)
     /\ CodesInOrder(codes, k) =>
           /\ d.ok /\ Vals(d.ranges) = CodesTo(codes, k)
           /\ IF k = 0 THEN LastEnd(d.ranges) = 0 ELSE LastEnd(d.ranges) <= codes[k] + 1}

(* Reading begins with nothing.                                            *)
LEMMA NoRangesRead == /\ NoRanges \in CoverKind /\ IsRangeList(NoRanges.ranges) /\ NoRanges.ok
                      /\ LastEnd(NoRanges.ranges) = 0 /\ Vals(NoRanges.ranges) = {}
<1>1. NoRanges \in CoverKind /\ IsRangeList(NoRanges.ranges) /\ Len(NoRanges.ranges) = 0 /\ NoRanges.ok
  BY NoRangesKind DEF NoRanges
<1>. QED  BY <1>1, ValsEnd

(* One code point more is read.                                            *)
LEMMA OneCodeMore ==
  ASSUME NEW codes \in Seq(Nat), NEW k \in 1..Len(codes), NEW c \in CodesRead(codes, k - 1)
  PROVE  AddOne(FALSE, c, codes[k]) \in CodesRead(codes, k)
<1>1. PICK n \in Nat : n = Len(codes) /\ DOMAIN codes = 1..n
  OBVIOUS
<1>2. PICK x \in Nat : x = codes[k]
  BY <1>1
<1>3. PICK d : d = AddOne(FALSE, c, x)
  OBVIOUS
<1>4. c \in CoverKind /\ IsRangeList(c.ranges)
  BY DEF CodesRead
<1>5. /\ d \in CoverKind /\ IsRangeList(d.ranges)
      /\ c.ok /\ LastEnd(c.ranges) <= x =>
            d.ok /\ LastEnd(d.ranges) <= x + 1 /\ Vals(d.ranges) = Vals(c.ranges) \cup {x}
  BY <1>3, <1>4, SingleIsAdded
<1>6. ASSUME CodesInOrder(codes, k)
      PROVE  d.ok /\ Vals(d.ranges) = CodesTo(codes, k) /\ LastEnd(d.ranges) <= codes[k] + 1
  <2>1. PICK p \in Nat : p = k - 1 /\ p + 1 = k /\ p \in 0..n
    BY <1>1
  <2>2. CodesInOrder(codes, p)
    <3>1. \A i \in 1..p - 1 : i \in 1..k - 1
      BY <2>1
    <3>. QED  BY <1>6, <3>1 DEF CodesInOrder
  <2>3. c.ok /\ Vals(c.ranges) = CodesTo(codes, p)
        /\ IF p = 0 THEN LastEnd(c.ranges) = 0 ELSE LastEnd(c.ranges) <= codes[p] + 1
    BY <2>1, <2>2 DEF CodesRead
  <2>4. LastEnd(c.ranges) <= x
    <3>1. PICK e \in Nat : e = LastEnd(c.ranges)
      BY <1>4, ValsEnd
    <3>2. CASE p = 0
      BY <1>2, <2>3, <3>1, <3>2
    <3>3. CASE p # 0
      <4>1. p \in 1..n /\ p \in 1..k - 1
        BY <2>1, <3>3
      <4>2. PICK y \in Nat : y = codes[p]
        BY <1>1, <4>1
      <4>3. y + 1 <= x
        BY <1>2, <1>6, <2>1, <4>1, <4>2 DEF CodesInOrder
      <4>. QED  BY <1>2, <2>3, <3>1, <3>3, <4>2, <4>3
    <3>. QED  BY <3>2, <3>3
  <2>5. CodesTo(codes, k) = CodesTo(codes, p) \cup {x}
    <3>1. \A i : i \in 1..k <=> i = k \/ i \in 1..p
      BY <2>1
    <3>. QED  BY <1>2, <3>1 DEF CodesTo
  <2>. QED  BY <1>2, <1>5, <2>3, <2>4, <2>5
<1>7. k # 0
  OBVIOUS
<1>. QED  BY <1>2, <1>3, <1>5, <1>6, <1>7 DEF CodesRead

\* The ranges are those of a set of code points.
RangesOf(c, A) == c.ok /\ Vals(c.ranges) = A

(* The code points with a glyph of their own are read                      *)
(* (getVSCoverage).                                                        *)
LEMMA CodesAreRead ==
  ASSUME NEW codes \in {NoTable, Cut} \cup Seq(Nat)
  PROVE  LET c == NonDefaultCoverage(codes)
         IN /\ c \in CoverKind /\ IsRangeList(c.ranges)
            /\ codes = NoTable => RangesOf(c, {})
            /\ codes # NoTable /\ codes # Cut /\ CodesInOrder(codes, Len(codes)) =>
                  RangesOf(c, CodesTo(codes, Len(codes)))
<1>1. PICK c : c = NonDefaultCoverage(codes)
  OBVIOUS
<1>2. CASE codes = NoTable
  <2>1. c = NoRanges
    BY <1>1, <1>2 DEF NonDefaultCoverage
  <2>. QED  BY <1>1, <1>2, <2>1, NoRangesRead DEF RangesOf
<1>3. CASE codes # NoTable /\ codes = Cut
  <2>1. c = Failed(NoRanges)
    BY <1>1, <1>3 DEF NonDefaultCoverage
  <2>2. c \in CoverKind /\ c.ranges = NoRanges.ranges
    BY <2>1, NoRangesRead DEF Failed, CoverKind
  <2>. QED  BY <1>1, <1>3, <2>2, NoRangesRead
<1>4. CASE codes # NoTable /\ codes # Cut
  <2>1. codes \in Seq(Nat)
    BY <1>4
  <2>2. PICK n \in Nat : n = Len(codes)
    BY <2>1
  <2> DEFINE kinds == [k \in 0..n |-> CodesRead(codes, k)]
             step == [k \in 0..n |-> [x \in CodesRead(codes, k - 1) |-> AddOne(FALSE, x, codes[k])]]
             f == CHOOSE f : f = [k \in 0..n |-> IF k = 0 THEN NoRanges ELSE AddOne(FALSE, f[k - 1], codes[k])]
  <2>3. NoRanges \in CodesRead(codes, 0)
    <3>1. CodesTo(codes, 0) = {}
      <4>1. 1..0 = {}
        OBVIOUS
      <4>. QED  BY <4>1 DEF CodesTo
    <3>. QED  BY <3>1, NoRangesRead DEF CodesRead
  <2>4. \A k \in 0..n : k # 0 => k \in 1..n /\ k - 1 \in 0..n
    OBVIOUS
  <2>5. \A k \in 0..n : k # 0 => \A x \in kinds[k - 1] :
           step[k][x] \in kinds[k] /\ step[k][x] = AddOne(FALSE, x, codes[k])
    <3> SUFFICES ASSUME NEW k \in 0..n, k # 0, NEW x \in kinds[k - 1]
                 PROVE  step[k][x] \in kinds[k] /\ step[k][x] = AddOne(FALSE, x, codes[k])
      OBVIOUS
    <3>1. k \in 1..n /\ k - 1 \in 0..n
      BY <2>4
    <3>2. x \in CodesRead(codes, k - 1)
      BY <3>1
    <3>3. AddOne(FALSE, x, codes[k]) \in CodesRead(codes, k)
      BY <2>1, <2>2, <3>1, <3>2, OneCodeMore
    <3>. QED  BY <3>1, <3>2, <3>3
  <2>6. NoRanges \in kinds[0]
    BY <2>3
  <2> HIDE DEF step, kinds
  <2>7. PICK g : IsIteration(0, n, NoRanges, step, kinds, g)
    <3>1. 0 \in Nat /\ 0 <= n
      OBVIOUS
    <3>. QED  BY <2>5, <2>6, <3>1, IterationExists
  <2>8. g = [k \in 0..n |-> IF k = 0 THEN NoRanges ELSE AddOne(FALSE, g[k - 1], codes[k])]
    BY <2>4, <2>5, <2>7 DEF IsIteration
  <2>9. f = [k \in 0..n |-> IF k = 0 THEN NoRanges ELSE AddOne(FALSE, f[k - 1], codes[k])]
    BY <2>8
  <2>10. c = f[n]
    BY <1>1, <1>4, <2>2 DEF NonDefaultCoverage
  <2> HIDE DEF f
  <2>11. f[0] = NoRanges /\ \A k \in 1..n : k \in 0..n /\ k # 0 /\ f[k] = AddOne(FALSE, f[k - 1], codes[k])
    BY <2>9
  <2> DEFINE T == {k \in 0..n : f[k] \in kinds[k]}
  <2>12. 0 \in T
    BY <2>6, <2>11
  <2>13. ASSUME NEW k \in 1..n, k - 1 \in T PROVE k \in T
    <3>1. k \in 0..n /\ k # 0 /\ f[k - 1] \in kinds[k - 1]
      BY <2>13
    <3>2. step[k][f[k - 1]] \in kinds[k] /\ step[k][f[k - 1]] = AddOne(FALSE, f[k - 1], codes[k])
      BY <2>5, <3>1
    <3>. QED  BY <2>11, <3>1, <3>2
  <2> HIDE DEF T
  <2>14. n \in T
    <3>1. n \in 0..n
      OBVIOUS
    <3>. QED  BY <2>12, <2>13, <3>1, ReachesAll
  <2>15. c \in CodesRead(codes, n)
    BY <2>10, <2>14 DEF T, kinds
  <2>. QED  BY <1>1, <1>4, <2>2, <2>15 DEF CodesRead, RangesOf
<1>. QED  BY <1>2, <1>3, <1>4

PartEnd(p) == p[1] + p[2]
PartCodes(p, A) == {v \in A : p[1] <= v /\ v <= PartEnd(p)}
PartsApart(parts, k) == \A i \in 1..k - 1 : PartEnd(parts[i]) < parts[i + 1][1]
PartsTo(parts, k, A) == {v \in A : \E i \in 1..k : v \in PartCodes(parts[i], A)}
\* What is known when k parts have been read.
PartsRead(parts, k, A) ==
  {d \in CoverKind :
     /\ IsRangeList(d.ranges)
     /\ PartsApart(parts, k) =>
           /\ d.ok /\ Vals(d.ranges) = PartsTo(parts, k, A)
           /\ IF k = 0 THEN LastEnd(d.ranges) = 0 ELSE LastEnd(d.ranges) <= PartEnd(parts[k]) + 1}

(* One part more is read.                                                  *)
LEMMA OnePartMore ==
  ASSUME NEW parts \in Seq(Nat \X Nat), NEW k \in 1..Len(parts), NEW base, NEW A, Reads(base, A),
         NEW c \in PartsRead(parts, k - 1, A)
  PROVE  AddInBase(c, parts[k][1], parts[k][2], base) \in PartsRead(parts, k, A)
<1>1. PICK n \in Nat : n = Len(parts) /\ DOMAIN parts = 1..n
  OBVIOUS
<1>2. PICK s, l \in Nat : s = parts[k][1] /\ l = parts[k][2]
  <2>1. parts[k] \in Nat \X Nat
    OBVIOUS
  <2>. QED  BY <2>1
<1>3. PICK e \in Nat : e = s + l /\ s <= e /\ e = PartEnd(parts[k])
  <2>1. PartEnd(parts[k]) = s + l
    BY <1>2 DEF PartEnd
  <2>2. s + l \in Nat /\ s <= s + l
    OBVIOUS
  <2>. QED  BY <2>1, <2>2
<1>4. PICK chars : chars = {v \in s..e : get(base, v)}
  OBVIOUS
<1>5. PICK d : d = AddSingles(FALSE, c, s, e, chars) /\ d = AddInBase(c, parts[k][1], parts[k][2], base)
  BY <1>2, <1>3, <1>4 DEF AddInBase
<1>6. c \in CoverKind /\ IsRangeList(c.ranges)
  BY DEF PartsRead
<1>7. chars \cap (s..e) = PartCodes(parts[k], A)
  <2>1. A \in SUBSET Nat /\ \A v \in Nat : get(base, v) <=> v \in A
    BY DEF Reads
  <2>2. \A v : v \in s..e <=> v \in Nat /\ s <= v /\ v <= e
    OBVIOUS
  <2>. QED  BY <1>2, <1>3, <1>4, <2>1, <2>2 DEF PartCodes
<1>8. AddedAll(c, d, s, e + 1, PartCodes(parts[k], A))
  BY <1>3, <1>5, <1>6, <1>7, SinglesAreAdded
<1>9. ASSUME PartsApart(parts, k)
      PROVE  d.ok /\ Vals(d.ranges) = PartsTo(parts, k, A) /\ LastEnd(d.ranges) <= PartEnd(parts[k]) + 1
  <2>1. PICK p \in Nat : p = k - 1 /\ p + 1 = k /\ p \in 0..n
    BY <1>1
  <2>2. PartsApart(parts, p)
    <3>1. \A i \in 1..p - 1 : i \in 1..k - 1
      BY <2>1
    <3>. QED  BY <1>9, <3>1 DEF PartsApart
  <2>3. c.ok /\ Vals(c.ranges) = PartsTo(parts, p, A)
        /\ IF p = 0 THEN LastEnd(c.ranges) = 0 ELSE LastEnd(c.ranges) <= PartEnd(parts[p]) + 1
    BY <2>1, <2>2 DEF PartsRead
  <2>4. LastEnd(c.ranges) <= s
    <3>1. PICK q \in Nat : q = LastEnd(c.ranges)
      BY <1>6, ValsEnd
    <3>2. CASE p = 0
      BY <2>3, <3>1, <3>2
    <3>3. CASE p # 0
      <4>1. p \in 1..n /\ p \in 1..k - 1
        BY <2>1, <3>3
      <4>2. PICK y \in Nat : y = PartEnd(parts[p])
        BY <1>1, <4>1 DEF PartEnd
      <4>3. y < s
        BY <1>2, <1>9, <2>1, <4>1, <4>2 DEF PartsApart
      <4>. QED  BY <2>3, <3>1, <3>3, <4>2, <4>3
    <3>. QED  BY <3>2, <3>3
  <2>5. PartsTo(parts, k, A) = PartsTo(parts, p, A) \cup PartCodes(parts[k], A)
    <3>1. \A i : i \in 1..k <=> i = k \/ i \in 1..p
      BY <2>1
    <3>2. PartCodes(parts[k], A) \subseteq A
      BY DEF PartCodes
    <3>. QED  BY <3>1, <3>2 DEF PartsTo
  <2>. QED  BY <1>3, <1>8, <2>3, <2>4, <2>5 DEF AddedAll
<1>10. d \in CoverKind /\ IsRangeList(d.ranges) /\ k # 0
  BY <1>8 DEF AddedAll
<1>. QED  BY <1>5, <1>9, <1>10 DEF PartsRead

(* The code points that keep the glyph they have are read                  *)
(* (getVSCoverage).                                                        *)
LEMMA PartsAreRead ==
  ASSUME NEW parts \in {NoTable, Cut} \cup Seq(Nat \X Nat), NEW base, NEW A, Reads(base, A)
  PROVE  LET c == DefaultCoverage(parts, base)
         IN /\ c \in CoverKind /\ IsRangeList(c.ranges)
            /\ parts = NoTable => RangesOf(c, {})
            /\ parts # NoTable /\ parts # Cut /\ PartsApart(parts, Len(parts)) =>
                  RangesOf(c, PartsTo(parts, Len(parts), A))
<1>1. PICK c : c = DefaultCoverage(parts, base)
  OBVIOUS
<1>2. CASE parts = NoTable
  <2>1. c = NoRanges
    BY <1>1, <1>2 DEF DefaultCoverage
  <2>. QED  BY <1>1, <1>2, <2>1, NoRangesRead DEF RangesOf
<1>3. CASE parts # NoTable /\ parts = Cut
  <2>1. c = Failed(NoRanges)
    BY <1>1, <1>3 DEF DefaultCoverage
  <2>2. c \in CoverKind /\ c.ranges = NoRanges.ranges
    BY <2>1, NoRangesRead DEF Failed, CoverKind
  <2>. QED  BY <1>1, <1>3, <2>2, NoRangesRead
<1>4. CASE parts # NoTable /\ parts # Cut
  <2>1. parts \in Seq(Nat \X Nat)
    BY <1>4
  <2>2. PICK n \in Nat : n = Len(parts)
    BY <2>1
  <2> DEFINE kinds == [k \in 0..n |-> PartsRead(parts, k, A)]
             step == [k \in 0..n |-> [x \in PartsRead(parts, k - 1, A) |-> AddInBase(x, parts[k][1], parts[k][2], base)]]
             f == CHOOSE f : f = [k \in 0..n |-> IF k = 0 THEN NoRanges ELSE AddInBase(f[k - 1], parts[k][1], parts[k][2], base)]
  <2>3. NoRanges \in PartsRead(parts, 0, A)
    <3>1. PartsTo(parts, 0, A) = {}
      <4>1. 1..0 = {}
        OBVIOUS
      <4>. QED  BY <4>1 DEF PartsTo
    <3>. QED  BY <3>1, NoRangesRead DEF PartsRead
  <2>4. \A k \in 0..n : k # 0 => k \in 1..n /\ k - 1 \in 0..n
    OBVIOUS
  <2>5. \A k \in 0..n : k # 0 => \A x \in kinds[k - 1] :
           step[k][x] \in kinds[k] /\ step[k][x] = AddInBase(x, parts[k][1], parts[k][2], base)
    <3> SUFFICES ASSUME NEW k \in 0..n, k # 0, NEW x \in kinds[k - 1]
                 PROVE  step[k][x] \in kinds[k] /\ step[k][x] = AddInBase(x, parts[k][1], parts[k][2], base)
      OBVIOUS
    <3>1. k \in 1..n /\ k - 1 \in 0..n
      BY <2>4
    <3>2. x \in PartsRead(parts, k - 1, A)
      BY <3>1
    <3>3. AddInBase(x, parts[k][1], parts[k][2], base) \in PartsRead(parts, k, A)
      BY <2>1, <2>2, <3>1, <3>2, OnePartMore
    <3>. QED  BY <3>1, <3>2, <3>3
  <2>6. NoRanges \in kinds[0]
    BY <2>3
  <2> HIDE DEF step, kinds
  <2>7. PICK g : IsIteration(0, n, NoRanges, step, kinds, g)
    <3>1. 0 \in Nat /\ 0 <= n
      OBVIOUS
    <3>. QED  BY <2>5, <2>6, <3>1, IterationExists
  <2>8. g = [k \in 0..n |-> IF k = 0 THEN NoRanges ELSE AddInBase(g[k - 1], parts[k][1], parts[k][2], base)]
    BY <2>4, <2>5, <2>7 DEF IsIteration
  <2>9. f = [k \in 0..n |-> IF k = 0 THEN NoRanges ELSE AddInBase(f[k - 1], parts[k][1], parts[k][2], base)]
    BY <2>8
  <2>10. c = f[n]
    BY <1>1, <1>4, <2>2 DEF DefaultCoverage
  <2> HIDE DEF f
  <2>11. f[0] = NoRanges /\ \A k \in 1..n : k \in 0..n /\ k # 0 /\ f[k] = AddInBase(f[k - 1], parts[k][1], parts[k][2], base)
    BY <2>9
  <2> DEFINE T == {k \in 0..n : f[k] \in kinds[k]}
  <2>12. 0 \in T
    BY <2>6, <2>11
  <2>13. ASSUME NEW k \in 1..n, k - 1 \in T PROVE k \in T
    <3>1. k \in 0..n /\ k # 0 /\ f[k - 1] \in kinds[k - 1]
      BY <2>13
    <3>2. step[k][f[k - 1]] \in kinds[k] /\ step[k][f[k - 1]] = AddInBase(f[k - 1], parts[k][1], parts[k][2], base)
      BY <2>5, <3>1
    <3>. QED  BY <2>11, <3>1, <3>2
  <2> HIDE DEF T
  <2>14. n \in T
    <3>1. n \in 0..n
      OBVIOUS
    <3>. QED  BY <2>12, <2>13, <3>1, ReachesAll
  <2>15. c \in PartsRead(parts, n, A)
    BY <2>10, <2>14 DEF T, kinds
  <2>. QED  BY <1>1, <1>4, <2>2, <2>15 DEF PartsRead, RangesOf
<1>. QED  BY <1>2, <1>3, <1>4

RecordKind == [vs : Nat, inFile : BOOLEAN, default : {NoTable, Cut} \cup Seq(Nat \X Nat),
               nonDefault : {NoTable, Cut} \cup Seq(Nat)]
\* A record whose lists are in order, and what it supports with coverage A.
SoundRecord(r) ==
  /\ r.default # Cut /\ r.nonDefault # Cut
  /\ \/ r.nonDefault = NoTable
     \/ /\ CodesInOrder(r.nonDefault, Len(r.nonDefault))
        /\ \A k \in DOMAIN r.nonDefault : r.nonDefault[k] <= kMaxCodePoint
  /\ r.default = NoTable \/ PartsApart(r.default, Len(r.default))
Supported(r, A) ==
  (IF r.default = NoTable THEN {} ELSE PartsTo(r.default, Len(r.default), A))
  \cup (IF r.nonDefault = NoTable THEN {} ELSE CodesTo(r.nonDefault, Len(r.nonDefault)))

(* What two lists make of one selector is read (getVSCoverage).            *)
LEMMA SequenceIsRead ==
  ASSUME NEW r \in RecordKind, NEW base, NEW A \in SUBSET (0..kMaxCodePoint), Reads(base, A)
  PROVE  LET c == getVSCoverage(r, base)
         IN c \in CoverKind /\ (SoundRecord(r) => c.ok /\ Reads(Covered(c), Supported(r, A)))
<1>1. PICK c : c = getVSCoverage(r, base)
  OBVIOUS
<1>2. PICK d, e : d = DefaultCoverage(r.default, base) /\ e = NonDefaultCoverage(r.nonDefault)
  OBVIOUS
<1>3. r.default \in {NoTable, Cut} \cup Seq(Nat \X Nat) /\ r.nonDefault \in {NoTable, Cut} \cup Seq(Nat)
  BY DEF RecordKind
<1>4. /\ d \in CoverKind /\ IsRangeList(d.ranges)
      /\ r.default = NoTable => RangesOf(d, {})
      /\ r.default # NoTable /\ r.default # Cut /\ PartsApart(r.default, Len(r.default)) =>
            RangesOf(d, PartsTo(r.default, Len(r.default), A))
  BY <1>2, <1>3, PartsAreRead
<1>5. /\ e \in CoverKind /\ IsRangeList(e.ranges)
      /\ r.nonDefault = NoTable => RangesOf(e, {})
      /\ r.nonDefault # NoTable /\ r.nonDefault # Cut
            /\ CodesInOrder(r.nonDefault, Len(r.nonDefault)) =>
            RangesOf(e, CodesTo(r.nonDefault, Len(r.nonDefault)))
  BY <1>2, <1>3, CodesAreRead
<1>6. c = Both(d, e)
  BY <1>1, <1>2 DEF getVSCoverage
<1>7. PICK m : m = mergeRanges(d.ranges, e.ranges) /\ IsRangeList(m)
               /\ Vals(m) = Vals(d.ranges) \cup Vals(e.ranges)
  BY <1>4, <1>5, RangesAreMerged
<1>8. c \in CoverKind
  <2>1. CASE e.ok /\ d.ok
    <3>1. c = [ok |-> TRUE, ranges |-> m]
      BY <1>6, <1>7, <2>1 DEF Both
    <3>. QED  BY <1>7, <3>1 DEF CoverKind, IsRangeList
  <2>2. CASE ~(e.ok /\ d.ok)
    <3>1. c = Failed(NoRanges)
      BY <1>6, <2>2 DEF Both
    <3>. QED  BY <3>1, NoRangesRead DEF Failed, CoverKind
  <2>. QED  BY <2>1, <2>2
<1>9. ASSUME SoundRecord(r) PROVE c.ok /\ Reads(Covered(c), Supported(r, A))
  <2>1. RangesOf(d, IF r.default = NoTable THEN {} ELSE PartsTo(r.default, Len(r.default), A))
    BY <1>4, <1>9 DEF SoundRecord
  <2>2. RangesOf(e, IF r.nonDefault = NoTable THEN {} ELSE CodesTo(r.nonDefault, Len(r.nonDefault)))
    BY <1>5, <1>9 DEF SoundRecord
  <2>3. c.ok /\ c.ranges = m /\ IsRangeList(c.ranges) /\ Vals(c.ranges) = Supported(r, A)
    <3>1. c = [ok |-> TRUE, ranges |-> m]
      BY <1>6, <1>7, <2>1, <2>2 DEF Both, RangesOf
    <3>2. Vals(m) = Supported(r, A)
      BY <1>7, <2>1, <2>2 DEF RangesOf, Supported
    <3>. QED  BY <1>7, <3>1, <3>2
  <2>4. PICK M \in Nat : M = kMaxCodePoint
    BY ReaderAssumption
  <2>5. \A v \in Supported(r, A) : v \in Nat /\ v <= M
    <3>1. \A v \in PartsTo(r.default, Len(r.default), A) : v \in 0..M
      BY <2>4 DEF PartsTo
    <3>2. ASSUME r.nonDefault # NoTable, NEW v \in CodesTo(r.nonDefault, Len(r.nonDefault))
          PROVE  v \in Nat /\ v <= M
      <4>1. r.nonDefault \in Seq(Nat)
        BY <1>3, <1>9, <3>2 DEF SoundRecord
      <4>2. PICK k \in 1..Len(r.nonDefault) : r.nonDefault[k] = v
        BY DEF CodesTo
      <4>3. k \in DOMAIN r.nonDefault
        BY <4>1
      <4>. QED  BY <1>9, <2>4, <3>2, <4>1, <4>2, <4>3 DEF SoundRecord
    <3>. QED  BY <2>4, <3>1, <3>2 DEF Supported
  <2>6. LastEnd(c.ranges) <= kMaxCodePoint + 1
    <3>1. PICK l \in Nat : /\ l = LastEnd(c.ranges)
                           /\ l # 0 => l - 1 \in Vals(c.ranges)
      BY <2>3, ValsEnd
    <3>2. l # 0 => l - 1 <= M
      BY <2>3, <2>5, <3>1
    <3>. QED  BY <2>4, <3>1, <3>2
  <2>. QED  BY <2>3, <2>6, RangesHold
<1>. QED  BY <1>1, <1>8, <1>9

\* The sets of code points of some of the selectors.
BitSets == {initFromRanges(c.ranges) : c \in CoverKind}
VsSets == UNION {[D -> BitSets] : D \in SUBSET Int}

(* The set of one selector is added, and stands where it is.               *)
LEMMA VsIsAdded ==
  ASSUME NEW out \in VsSets, NEW vs \in Int, NEW c \in CoverKind, FirstVs \in Nat
  PROVE  LET new == AddVS(out, vs, c)
             x   == getVsIndex(vs)
         IN /\ new \in VsSets
            /\ \A i \in DOMAIN out : i # x => i \in DOMAIN new /\ new[i] = out[i]
            /\ c.ok => x \in DOMAIN new /\ new[x] = Covered(c)
<1>1. PICK x \in Int : x = getVsIndex(vs)
  BY DEF getVsIndex
<1>2. PICK b \in BitSets : b = initFromRanges(c.ranges)
  BY DEF BitSets
<1>3. PICK D \in SUBSET Int : out \in [D -> BitSets]
  BY DEF VsSets
<1>4. CASE ~c.ok
  BY <1>4 DEF AddVS
<1>5. CASE c.ok
  <2> DEFINE new == [i \in {x} \cup D |-> IF i = x THEN b ELSE out[i]]
  <2>1. AddVS(out, vs, c) = new
    <3>1. DOMAIN out \cup {x} = {x} \cup D
      BY <1>3
    <3>. QED  BY <1>1, <1>2, <1>5, <3>1 DEF AddVS
  <2>2. new \in [{x} \cup D -> BitSets] /\ {x} \cup D \in SUBSET Int
    BY <1>3
  <2>3. DOMAIN out = D /\ DOMAIN new = {x} \cup D /\ new[x] = b
    BY <1>3
  <2>4. \A i \in D : i # x => new[i] = out[i]
    OBVIOUS
  <2> HIDE DEF new
  <2>5. new \in VsSets
    BY <2>2 DEF VsSets
  <2>6. Covered(c) = b
    BY <1>2, <1>5 DEF Covered
  <2>. QED  BY <1>1, <2>1, <2>3, <2>4, <2>5, <2>6
<1>. QED  BY <1>4, <1>5

IsOf(t, i, vs) == t.records[i].inFile /\ t.records[i].vs = vs
\* Record j is the first one of a selector from i on.
FirstRecord(t, i, j, vs) == /\ j \in i..Len(t.records) /\ IsOf(t, j, vs)
                            /\ \A e \in i..j - 1 : ~IsOf(t, e, vs)
\* What is known of the selectors when the records from i on have been read.
VsRead(t, A, i) ==
  {out \in VsSets :
     \A vs \in FirstVs..FirstVs + NumVs - 1 : \A j \in 1..Len(t.records) :
        FirstRecord(t, i, j, vs) /\ SoundRecord(t.records[j]) =>
           /\ getVsIndex(vs) \in DOMAIN out
           /\ Reads(out[getVsIndex(vs)], Supported(t.records[j], A))}

(* The record before them is read.                                         *)
LEMMA OneRecordMore ==
  ASSUME NEW t, IsTable(t), NEW base, NEW A \in SUBSET (0..kMaxCodePoint), Reads(base, A),
         NEW i \in 1..Len(t.records), NEW out \in VsRead(t, A, i + 1)
  PROVE  ReadRecord(out, t.records[i], base) \in VsRead(t, A, i)
<1>1. PICK n \in Nat : n = Len(t.records) /\ t.records \in Seq(RecordKind) /\ DOMAIN t.records = 1..n
  BY DEF IsTable, RecordKind
<1>2. PICK r \in RecordKind : r = t.records[i]
  BY <1>1
<1>3. PICK new : new = ReadRecord(out, r, base)
  OBVIOUS
<1>4. PICK c : c = getVSCoverage(r, base)
  OBVIOUS
<1>5. c \in CoverKind /\ (SoundRecord(r) => c.ok /\ Reads(Covered(c), Supported(r, A)))
  BY <1>4, SequenceIsRead
<1>6. out \in VsSets /\ i \in 1..n
  BY <1>1 DEF VsRead
<1>7. PICK F, N \in Nat : F = FirstVs /\ N = NumVs
  BY ReaderAssumption
<1>8. /\ new \in VsSets
      /\ ~(r.inFile /\ isVariationSelector(r.vs)) => new = out
      /\ r.inFile /\ isVariationSelector(r.vs) =>
            /\ \A x \in DOMAIN out : x # getVsIndex(r.vs) => x \in DOMAIN new /\ new[x] = out[x]
            /\ c.ok => getVsIndex(r.vs) \in DOMAIN new /\ new[getVsIndex(r.vs)] = Covered(c)
  <2>1. CASE r.inFile /\ isVariationSelector(r.vs)
    <3>1. new = AddVS(out, r.vs, c)
      BY <1>3, <1>4, <2>1 DEF ReadRecord
    <3>2. r.vs \in Int
      BY DEF RecordKind
    <3>. QED  BY <1>5, <1>6, <1>7, <2>1, <3>1, <3>2, VsIsAdded
  <2>2. CASE ~(r.inFile /\ isVariationSelector(r.vs))
    <3>1. new = out
      BY <1>3, <2>2 DEF ReadRecord
    <3>. QED  BY <1>6, <2>2, <3>1
  <2>. QED  BY <2>1, <2>2
<1>9. ASSUME NEW vs \in FirstVs..FirstVs + NumVs - 1, NEW j \in 1..Len(t.records),
             FirstRecord(t, i, j, vs), SoundRecord(t.records[j])
      PROVE  /\ getVsIndex(vs) \in DOMAIN new
             /\ Reads(new[getVsIndex(vs)], Supported(t.records[j], A))
  <2>1. vs \in Nat /\ isVariationSelector(vs)
    BY <1>7 DEF isVariationSelector
  <2>2. CASE j = i
    <3>1. r.inFile /\ r.vs = vs /\ SoundRecord(r)
      BY <1>2, <1>9, <2>2 DEF FirstRecord, IsOf
    <3>. QED  BY <1>2, <1>5, <1>8, <2>1, <2>2, <3>1
  <2>3. CASE j # i
    <3>1. PICK p \in Nat : p = i + 1
      BY <1>6
    <3>2. j \in i..n /\ IsOf(t, j, vs) /\ \A e \in i..j - 1 : ~IsOf(t, e, vs)
      BY <1>1, <1>9 DEF FirstRecord
    <3>3. j \in p..n /\ i \in i..j - 1 /\ \A e \in p..j - 1 : e \in i..j - 1
      BY <1>6, <2>3, <3>1, <3>2
    <3>4. FirstRecord(t, p, j, vs)
      BY <1>1, <3>2, <3>3 DEF FirstRecord
    <3>5. getVsIndex(vs) \in DOMAIN out /\ Reads(out[getVsIndex(vs)], Supported(t.records[j], A))
      BY <1>9, <3>1, <3>4 DEF VsRead
    <3>6. ~(r.inFile /\ r.vs = vs)
      BY <1>2, <3>2, <3>3 DEF IsOf
    <3>7. CASE r.inFile /\ isVariationSelector(r.vs)
      <4>1. getVsIndex(r.vs) # getVsIndex(vs)
        <5>1. PICK x, y \in Int : x = r.vs /\ y = vs /\ x # y
          BY <2>1, <3>6, <3>7 DEF RecordKind
        <5>. QED  BY <1>7, <5>1 DEF getVsIndex
      <4>. QED  BY <1>8, <3>5, <3>7, <4>1
    <3>8. CASE ~(r.inFile /\ isVariationSelector(r.vs))
      BY <1>8, <3>5, <3>8
    <3>. QED  BY <3>7, <3>8
  <2>. QED  BY <2>2, <2>3
<1>. QED  BY <1>2, <1>3, <1>8, <1>9 DEF VsRead

(* A table of variation sequences is read (getCoverageFormat14).           *)
LEMMA RecordsAreRead ==
  ASSUME NEW t, IsTable(t), t.fits = "whole", NEW base, NEW A \in SUBSET (0..kMaxCodePoint), Reads(base, A)
  PROVE  getCoverageFormat14(t, base) \in VsRead(t, A, 1)
<1>1. PICK n \in Nat : n = Len(t.records)
  BY DEF IsTable
<1> DEFINE kinds == [k \in 0..n |-> VsRead(t, A, n - k + 1)]
           Next1(x, k) == ReadRecord(x, t.records[n - k + 1], base)
           step == [k \in 0..n |-> [x \in VsRead(t, A, n - (k - 1) + 1) |-> Next1(x, k)]]
           f == CHOOSE f : f = [k \in 0..n |-> IF k = 0 THEN <<>> ELSE Next1(f[k - 1], k)]
<1>2. <<>> \in VsRead(t, A, n - 0 + 1)
  <2>1. <<>> \in VsSets
    <3>1. <<>> \in [{} -> BitSets] /\ {} \in SUBSET Int
      OBVIOUS
    <3>. QED  BY <3>1 DEF VsSets
  <2>2. ASSUME NEW vs, NEW j, FirstRecord(t, n - 0 + 1, j, vs) PROVE FALSE
    <3>1. n - 0 + 1..n = {}
      OBVIOUS
    <3>. QED  BY <1>1, <2>2, <3>1 DEF FirstRecord
  <2>. QED  BY <2>1, <2>2 DEF VsRead
<1>3. \A k \in 0..n : k # 0 => k \in 1..n /\ k - 1 \in 0..n
  OBVIOUS
<1>4. \A k \in 0..n : k # 0 => \A x \in kinds[k - 1] :
         step[k][x] \in kinds[k] /\ step[k][x] = Next1(x, k)
  <2> SUFFICES ASSUME NEW k \in 0..n, k # 0, NEW x \in kinds[k - 1]
               PROVE  step[k][x] \in kinds[k] /\ step[k][x] = Next1(x, k)
    OBVIOUS
  <2>1. k \in 1..n /\ k - 1 \in 0..n
    BY <1>3
  <2>2. x \in VsRead(t, A, n - (k - 1) + 1)
    BY <2>1
  <2>3. PICK i \in 1..n : i = n - k + 1 /\ i + 1 = n - (k - 1) + 1
    BY <2>1
  <2>4. Next1(x, k) \in VsRead(t, A, n - k + 1)
    BY <1>1, <2>2, <2>3, OneRecordMore
  <2> HIDE DEF Next1
  <2>. QED  BY <2>1, <2>2, <2>4
<1>5. <<>> \in kinds[0]
  BY <1>2
<1> HIDE DEF step, kinds
<1>6. PICK g : IsIteration(0, n, <<>>, step, kinds, g)
  <2>1. 0 \in Nat /\ 0 <= n
    OBVIOUS
  <2> HIDE DEF Next1
  <2>. QED  BY <1>4, <1>5, <2>1, IterationExists
<1>7. g = [k \in 0..n |-> IF k = 0 THEN <<>> ELSE Next1(g[k - 1], k)]
  <2> HIDE DEF Next1
  <2>. QED  BY <1>3, <1>4, <1>6 DEF IsIteration
<1>8. f = [k \in 0..n |-> IF k = 0 THEN <<>> ELSE Next1(f[k - 1], k)]
  <2> HIDE DEF Next1
  <2>. QED  BY <1>7
<1>9. getCoverageFormat14(t, base) = f[n]
  BY <1>1 DEF getCoverageFormat14
<1> HIDE DEF f, Next1
<1>10. f[0] = <<>> /\ \A k \in 1..n : k \in 0..n /\ k # 0 /\ f[k] = Next1(f[k - 1], k)
  BY <1>8
<1> DEFINE T == {k \in 0..n : f[k] \in kinds[k]}
<1>11. 0 \in T
  BY <1>5, <1>10
<1>12. ASSUME NEW k \in 1..n, k - 1 \in T PROVE k \in T
  <2>1. k \in 0..n /\ k # 0 /\ f[k - 1] \in kinds[k - 1]
    BY <1>12
  <2>2. step[k][f[k - 1]] \in kinds[k] /\ step[k][f[k - 1]] = Next1(f[k - 1], k)
    BY <1>4, <2>1
  <2>. QED  BY <1>10, <2>1, <2>2
<1> HIDE DEF T
<1>13. n \in T
  <2>1. n \in 0..n
    OBVIOUS
  <2>. QED  BY <1>11, <1>12, <2>1, ReachesAll
<1>14. n - n + 1 = 1
  OBVIOUS
<1>. QED  BY <1>9, <1>13, <1>14 DEF T, kinds

(* The table of variation sequences that is read is the first one.         *)
LEMMA VsTableIsRead ==
  ASSUME ReadRight, read # NotRead, VsTables # {}
  PROVE  LET i == Min(VsTables)
         IN /\ i \in DOMAIN cmap /\ IsTable(cmap[i])
            /\ read.vs = getCoverageFormat14(cmap[i], read.coverage)
<1>1. IsCmap(cmap) /\ read = getCoverage(cmap)
  BY ReaderAssumption DEF ReadRight
<1>2. PICK n \in Nat : n = Len(cmap) /\ DOMAIN cmap = 1..n
  BY <1>1 DEF IsCmap
<1>3. PICK b : b = ChooseTables(cmap) /\ b \in Chosen(cmap, n)
  BY <1>1, <1>2, TablesAreChosen
<1>4. VsTables = VsTablesOf(cmap, n) /\ VsTables \in SUBSET Nat
  BY <1>2 DEF VsTables, VsTablesOf
<1>5. PICK i \in Nat : i = Min(VsTables) /\ i \in VsTables /\ \A y \in VsTables : i <= y
  BY <1>4, LeastIs
<1>6. VsChosen(cmap, n, b)
  BY <1>3 DEF Chosen
<1>7. b.vs # 0 /\ b.vs \in VsTables /\ \A j \in VsTables : b.vs <= j
  BY <1>4, <1>6 DEF VsChosen
<1>8. b.vs = i
  <2>1. PICK k \in Nat : k = b.vs /\ k <= i /\ i <= k
    BY <1>4, <1>5, <1>7
  <2>. QED  BY <1>5, <2>1
<1>9. read.vs = getCoverageFormat14(cmap[i], read.coverage)
  <2>1. PICK cov : getCoverage(cmap) = WithVS(cmap, b.vs, cov)
    BY <1>3 DEF getCoverage, ReadTables
  <2>. QED  BY <1>1, <1>7, <1>8, <2>1 DEF WithVS
<1>10. i \in DOMAIN cmap /\ IsTable(cmap[i])
  BY <1>1, <1>5 DEF VsTables, IsCmap
<1>. QED  BY <1>5, <1>9, <1>10

(* A variation sequence is supported when its table gives it a glyph of    *)
(* its own, or lists its base as a default one and the base has a glyph;   *)
(* two overlapping lists make one set (getVSCoverage, mergeRanges).        *)
THEOREM SequencesAreRight == ReaderSpec => []SequencesAreMerged
<1>1. ReadRight => SequencesAreMerged
  <2> SUFFICES ASSUME ReadRight, read # NotRead, VsTables # {}, cmap[Min(VsTables)].fits = "whole"
               PROVE  SequencesAreMerged
    BY DEF SequencesAreMerged
  <2> DEFINE t == cmap[Min(VsTables)]
             Of(vs) == {k \in DOMAIN t.records : t.records[k].vs = vs /\ t.records[k].inFile}
             Rising(s, gap) == \A k \in 1 .. Len(s) - 1 : s[k] + gap <= s[k + 1]
             Sound(r) == /\ r.default # Cut /\ r.nonDefault # Cut
                         /\ \/ r.nonDefault = NoTable
                            \/ /\ Rising(r.nonDefault, 1)
                               /\ \A k \in DOMAIN r.nonDefault : r.nonDefault[k] <= kMaxCodePoint
                         /\ \/ r.default = NoTable
                            \/ \A k \in 1 .. Len(r.default) - 1 :
                                  r.default[k][1] + r.default[k][2] < r.default[k + 1][1]
             Supports(r, c) ==
                 \/ r.nonDefault # NoTable /\ \E k \in DOMAIN r.nonDefault : r.nonDefault[k] = c
                 \/ /\ r.default # NoTable /\ get(read.coverage, c)
                    /\ \E k \in DOMAIN r.default :
                          c \in r.default[k][1] .. r.default[k][1] + r.default[k][2]
  <2>1. IsTable(t) /\ read.vs = getCoverageFormat14(t, read.coverage)
    BY VsTableIsRead
  <2>2. PICK A \in SUBSET (0..kMaxCodePoint) : Reads(read.coverage, A)
    BY CoverageOfRead DEF Covers
  <2>3. read.vs \in VsRead(t, A, 1)
    <3>1. t.fits = "whole"
      OBVIOUS
    <3> HIDE DEF t
    <3>. QED  BY <2>1, <2>2, <3>1, RecordsAreRead
  <2>4. PICK M \in Nat : M = kMaxCodePoint
    BY ReaderAssumption
  <2> HIDE DEF t
  <2>5. PICK n \in Nat : n = Len(t.records) /\ t.records \in Seq(RecordKind) /\ DOMAIN t.records = 1..n
    BY <2>1 DEF IsTable, RecordKind
  <2>6. ASSUME NEW vs \in FirstVs .. FirstVs + NumVs - 1, Of(vs) # {},
               Sound(t.records[Min(Of(vs))]), NEW c \in CmapCodes
        PROVE  (getVsIndex(vs) \in DOMAIN read.vs /\ get(read.vs[getVsIndex(vs)], c))
                  <=> Supports(t.records[Min(Of(vs))], c)
    <3>1. Of(vs) \in SUBSET Nat
      BY <2>5
    <3>2. PICK j \in Nat : j = Min(Of(vs)) /\ j \in Of(vs) /\ \A y \in Of(vs) : j <= y
      BY <2>6, <3>1, LeastIs
    <3>3. FirstRecord(t, 1, j, vs)
      <4>1. j \in 1..n /\ IsOf(t, j, vs)
        BY <2>5, <3>2 DEF IsOf
      <4>2. ASSUME NEW e \in 1..j - 1, IsOf(t, e, vs) PROVE FALSE
        <5>1. e \in Of(vs)
          BY <2>5, <4>1, <4>2 DEF IsOf
        <5>. QED  BY <3>2, <5>1
      <4>. QED  BY <2>5, <4>1, <4>2 DEF FirstRecord
    <3>14. j \in 1..n
      BY <2>5, <3>2
    <3>4. PICK r \in RecordKind : r = t.records[j]
      BY <2>5, <3>14
    <3>5. Sound(r)
      BY <2>6, <3>2, <3>4
    <3> HIDE DEF Of
    <3>6. SoundRecord(r)
      BY <3>5 DEF SoundRecord, CodesInOrder, PartsApart, PartEnd
    <3>7. getVsIndex(vs) \in DOMAIN read.vs /\ Reads(read.vs[getVsIndex(vs)], Supported(r, A))
      <4>1. j \in 1..Len(t.records)
        BY <2>5, <3>3 DEF FirstRecord
      <4>. QED  BY <2>3, <3>3, <3>4, <3>6, <4>1 DEF VsRead
    <3>8. c \in Nat
      BY <2>4 DEF CmapCodes
    <3>9. get(read.vs[getVsIndex(vs)], c) <=> c \in Supported(r, A)
      BY <3>7, <3>8 DEF Reads
    <3>10. get(read.coverage, c) <=> c \in A
      BY <2>2, <3>8 DEF Reads
    <3>11. r.nonDefault # NoTable => (c \in CodesTo(r.nonDefault, Len(r.nonDefault))
              <=> \E k \in DOMAIN r.nonDefault : r.nonDefault[k] = c)
      <4> SUFFICES ASSUME r.nonDefault # NoTable
                   PROVE  c \in CodesTo(r.nonDefault, Len(r.nonDefault))
                             <=> \E k \in DOMAIN r.nonDefault : r.nonDefault[k] = c
        OBVIOUS
      <4>1. r.nonDefault \in Seq(Nat)
        BY <3>6 DEF RecordKind, SoundRecord
      <4>2. DOMAIN r.nonDefault = 1..Len(r.nonDefault)
        BY <4>1
      <4>. QED  BY <3>8, <4>2 DEF CodesTo
    <3>12. r.default # NoTable => (c \in PartsTo(r.default, Len(r.default), A)
              <=> /\ c \in A
                  /\ \E k \in DOMAIN r.default : c \in r.default[k][1] .. r.default[k][1] + r.default[k][2])
      <4> SUFFICES ASSUME r.default # NoTable
                   PROVE  c \in PartsTo(r.default, Len(r.default), A)
                             <=> /\ c \in A
                                 /\ \E k \in DOMAIN r.default :
                                       c \in r.default[k][1] .. r.default[k][1] + r.default[k][2]
        OBVIOUS
      <4>1. r.default \in Seq(Nat \X Nat)
        BY <3>6 DEF RecordKind, SoundRecord
      <4>2. DOMAIN r.default = 1..Len(r.default)
        BY <4>1
      <4>3. ASSUME NEW k \in DOMAIN r.default, c \in A
            PROVE  c \in PartCodes(r.default[k], A)
                      <=> c \in r.default[k][1] .. r.default[k][1] + r.default[k][2]
        <5>1. PICK s, l \in Nat : s = r.default[k][1] /\ l = r.default[k][2]
          BY <4>1
        <5>2. c \in s..s + l <=> s <= c /\ c <= s + l
          BY <3>8
        <5>. QED  BY <4>3, <5>1, <5>2 DEF PartCodes, PartEnd
      <4>. QED  BY <4>2, <4>3 DEF PartsTo
    <3>13. c \in Supported(r, A) <=> Supports(r, c)
      BY <3>10, <3>11, <3>12 DEF Supported
    <3> HIDE DEF Supports
    <3>. QED  BY <3>2, <3>4, <3>7, <3>9, <3>13
  <2>7. ASSUME NEW vs \in FirstVs .. FirstVs + NumVs - 1, Of(vs) # {}, Sound(t.records[Min(Of(vs))])
        PROVE  \A c \in CmapCodes : (getVsIndex(vs) \in DOMAIN read.vs
                                 /\ get(read.vs[getVsIndex(vs)], c))
                                = Supports(t.records[Min(Of(vs))], c)
    <3> SUFFICES ASSUME NEW c \in CmapCodes
                 PROVE  (getVsIndex(vs) \in DOMAIN read.vs /\ get(read.vs[getVsIndex(vs)], c))
                           <=> Supports(t.records[Min(Of(vs))], c)
      OBVIOUS
    <3> HIDE DEF Of, Sound, Supports
    <3>. QED  BY <2>6, <2>7
  <2>. QED  BY <2>7 DEF SequencesAreMerged, t
<1>. QED  BY <1>1, ReadRightHolds, PTL

-----------------------------------------------------------------------------
(***************************************************************************)
(* The pages of a collection.                                              *)
(***************************************************************************)

(* The closest font of a list is one of its fonts (closestFont).           *)
LEMMA ClosestIsOneOfThem ==
  ASSUME NEW fonts, NEW style, Len(fonts) \in Nat \ {0}
  PROVE  closestFont(fonts, style) \in 1..Len(fonts)
<1>1. PICK n \in Nat \ {0} : n = Len(fonts)
  OBVIOUS
<1> DEFINE kinds == [k \in 1..n |-> 1..n]
           step == [k \in 1..n |-> [x \in 1..n |-> Closer(fonts, style, x, k)]]
           f == CHOOSE f : f = [i \in 1..n |-> IF i = 1 THEN 1 ELSE Closer(fonts, style, f[i - 1], i)]
<1>2. \A k \in 1..n : k # 1 => k - 1 \in 1..n
  OBVIOUS
<1>3. \A k \in 1..n, x \in 1..n : Closer(fonts, style, x, k) \in 1..n
  BY DEF Closer
<1>4. \A k \in 1..n : k # 1 => \A x \in kinds[k - 1] :
         step[k][x] \in kinds[k] /\ step[k][x] = Closer(fonts, style, x, k)
  BY <1>2, <1>3
<1>5. 1 \in kinds[1]
  OBVIOUS
<1> HIDE DEF step, kinds
<1>6. PICK g : IsIteration(1, n, 1, step, kinds, g)
  <2>1. 1 \in Nat /\ 1 <= n
    OBVIOUS
  <2>. QED  BY <1>4, <1>5, <2>1, IterationExists
<1>7. g = [i \in 1..n |-> IF i = 1 THEN 1 ELSE Closer(fonts, style, g[i - 1], i)]
  BY <1>2, <1>4, <1>6 DEF IsIteration
<1>8. f = [i \in 1..n |-> IF i = 1 THEN 1 ELSE Closer(fonts, style, f[i - 1], i)]
  BY <1>7
<1>9. closestFont(fonts, style) = f[n]
  BY <1>1 DEF closestFont
<1> HIDE DEF f
<1>10. f[1] = 1 /\ \A k \in 1..n : k # 1 => f[k] = Closer(fonts, style, f[k - 1], k)
  BY <1>8
<1> DEFINE T == {k \in 0..n : k # 0 => f[k] \in 1..n}
<1>11. 0 \in T
  OBVIOUS
<1>12. ASSUME NEW k \in 1..n, k - 1 \in T PROVE k \in T
  <2>1. f[k] \in 1..n
    <3>1. CASE k = 1
      BY <1>10, <3>1
    <3>2. CASE k # 1
      <4>1. f[k - 1] \in 1..n
        BY <1>12, <3>2
      <4>. QED  BY <1>3, <1>10, <3>2, <4>1
    <3>. QED  BY <3>1, <3>2
  <2>2. k \in 0..n
    OBVIOUS
  <2>. QED  BY <2>1, <2>2
<1> HIDE DEF T
<1>13. n \in T
  <2>1. n \in 0..n
    OBVIOUS
  <2>. QED  BY <1>11, <1>12, <2>1, ReachesAll
<1>. QED  BY <1>1, <1>9, <1>13 DEF T

-----------------------------------------------------------------------------
\* The list of the members of set among the first k numbers.
Lists(l, set, k) ==
  /\ l \in Seq(1..k)
  /\ \A i \in 1..Len(l) : l[i] \in set
  /\ \A i, j \in 1..Len(l) : i < j => l[i] < l[j]
  /\ \A v \in 1..k : v \in set => \E i \in 1..Len(l) : l[i] = v

(* One more number is listed, or left out.                                 *)
LEMMA OneListedMore ==
  ASSUME NEW k \in Nat \ {0}, NEW set, NEW l, Lists(l, set, k - 1)
  PROVE  Lists(IF k \in set THEN Append(l, k) ELSE l, set, k)
<1>1. PICK n \in Nat : n = Len(l) /\ DOMAIN l = 1..n /\ l \in Seq(1..k)
  <2>1. l \in Seq(1..k - 1) /\ (1..k - 1) \subseteq (1..k)
    BY DEF Lists
  <2>2. l \in Seq(1..k)
    BY <2>1
  <2>. QED  BY <2>2
<1>2. /\ \A i \in 1..n : l[i] \in set /\ l[i] \in Nat /\ l[i] < k
      /\ \A i, j \in 1..n : i < j => l[i] < l[j]
      /\ \A v \in 1..k - 1 : v \in set => \E i \in 1..n : l[i] = v
  <2>1. \A i \in 1..n : l[i] \in 1..k - 1
    BY <1>1 DEF Lists
  <2>. QED  BY <1>1, <2>1 DEF Lists
<1>3. \A v \in 1..k : v \in 1..k - 1 \/ v = k
  OBVIOUS
<1>4. CASE k \notin set
  BY <1>1, <1>2, <1>3, <1>4 DEF Lists
<1>5. CASE k \in set
  <2>1. PICK m, q : m = Append(l, k) /\ q = n + 1
    OBVIOUS
  <2>2. /\ m \in Seq(1..k) /\ Len(m) = q /\ m[q] = k /\ \A i \in 1..n : m[i] = l[i]
    <3>1. k \in 1..k
      OBVIOUS
    <3>. QED  BY <1>1, <2>1, <3>1
  <2>3. \A i : i \in 1..q <=> i \in 1..n \/ i = q
    BY <1>1, <2>1
  <2>4. \A i \in 1..q : m[i] \in set
    BY <1>2, <1>5, <2>2, <2>3
  <2>5. ASSUME NEW i \in 1..q, NEW j \in 1..q, i < j PROVE m[i] < m[j]
    <3>1. i \in 1..n
      BY <1>1, <2>1, <2>5
    <3>2. CASE j = q
      BY <1>2, <2>2, <3>1, <3>2
    <3>3. CASE j # q
      BY <1>2, <2>2, <2>3, <2>5, <3>1, <3>3
    <3>. QED  BY <3>2, <3>3
  <2>6. \A v \in 1..k : v \in set => \E i \in 1..q : m[i] = v
    BY <1>2, <1>3, <2>2, <2>3
  <2>7. Lists(m, set, k)
    BY <2>2, <2>4, <2>5, <2>6 DEF Lists
  <2>. QED  BY <1>5, <2>1, <2>7
<1>. QED  BY <1>4, <1>5

(* Listed lists the members of a set in order.                             *)
LEMMA ListedLists ==
  ASSUME NEW n \in Nat, NEW set
  PROVE  Lists(Listed(set, n), set, n)
<1> DEFINE Next1(x, k) == IF k \in set THEN Append(x, k) ELSE x
           Kind(k) == {l \in Seq(1..k) : Lists(l, set, k)}
           kinds == [k \in 0..n |-> Kind(k)]
           step == [k \in 0..n |-> [x \in Kind(k - 1) |-> Next1(x, k)]]
           f == CHOOSE f : f = [j \in 0..n |-> IF j = 0 THEN <<>>
                                               ELSE IF j \in set THEN Append(f[j - 1], j) ELSE f[j - 1]]
<1>1. <<>> \in Kind(0)
  <2>1. Lists(<<>>, set, 0)
    <3>1. <<>> \in Seq(1..0) /\ Len(<<>>) = 0 /\ 1..0 = {}
      OBVIOUS
    <3>. QED  BY <3>1 DEF Lists
  <2>. QED  BY <2>1 DEF Lists
<1>2. ASSUME NEW k \in Nat \ {0}, NEW x \in Kind(k - 1) PROVE Next1(x, k) \in Kind(k)
  <2>1. Lists(x, set, k - 1)
    OBVIOUS
  <2>2. Lists(Next1(x, k), set, k)
    BY <2>1, OneListedMore
  <2> HIDE DEF Next1
  <2>. QED  BY <2>2 DEF Lists
<1>3. \A k \in 0..n : k # 0 => k \in 1..n /\ k - 1 \in 0..n /\ k \in Nat \ {0}
  OBVIOUS
<1>4. \A k \in 0..n : k # 0 => \A x \in kinds[k - 1] :
         step[k][x] \in kinds[k] /\ step[k][x] = Next1(x, k)
  <2> SUFFICES ASSUME NEW k \in 0..n, k # 0, NEW x \in kinds[k - 1]
               PROVE  step[k][x] \in kinds[k] /\ step[k][x] = Next1(x, k)
    OBVIOUS
  <2> HIDE DEF Kind, Next1
  <2>1. k \in Nat \ {0} /\ k - 1 \in 0..n
    BY <1>3
  <2>2. x \in Kind(k - 1)
    BY <2>1
  <2>3. Next1(x, k) \in Kind(k)
    BY <1>2, <2>1, <2>2
  <2>. QED  BY <2>1, <2>2, <2>3
<1> HIDE DEF Kind
<1>5. <<>> \in kinds[0]
  BY <1>1
<1> HIDE DEF step, kinds
<1>6. PICK g : IsIteration(0, n, <<>>, step, kinds, g)
  <2>1. 0 \in Nat /\ 0 <= n
    OBVIOUS
  <2> HIDE DEF Next1
  <2>. QED  BY <1>4, <1>5, <2>1, IterationExists
<1>7. g = [k \in 0..n |-> IF k = 0 THEN <<>> ELSE Next1(g[k - 1], k)]
  <2> HIDE DEF Next1
  <2>. QED  BY <1>3, <1>4, <1>6 DEF IsIteration
<1>8. f = [k \in 0..n |-> IF k = 0 THEN <<>> ELSE Next1(f[k - 1], k)]
  BY <1>7
<1>9. Listed(set, n) = f[n]
  BY DEF Listed
<1> HIDE DEF f, Next1
<1>10. f[0] = <<>> /\ \A k \in 1..n : k \in 0..n /\ k # 0 /\ f[k] = Next1(f[k - 1], k)
  BY <1>8
<1> DEFINE T == {k \in 0..n : f[k] \in kinds[k]}
<1>11. 0 \in T
  BY <1>5, <1>10
<1>12. ASSUME NEW k \in 1..n, k - 1 \in T PROVE k \in T
  <2>1. k \in 0..n /\ k # 0 /\ f[k - 1] \in kinds[k - 1]
    BY <1>10, <1>12
  <2>2. step[k][f[k - 1]] \in kinds[k] /\ step[k][f[k - 1]] = Next1(f[k - 1], k)
    BY <1>4, <2>1
  <2>. QED  BY <1>10, <2>1, <2>2
<1> HIDE DEF T
<1>13. n \in T
  <2>1. n \in 0..n
    OBVIOUS
  <2>. QED  BY <1>11, <1>12, <2>1, ReachesAll
<1>14. f[n] \in Kind(n)
  BY <1>13 DEF T, kinds
<1>. QED  BY <1>9, <1>14 DEF Kind

\* The codes of page p, the first page being 0.
OfPage(p) == {v \in Nat : p * CharsPerPage <= v /\ v < (p + 1) * CharsPerPage}

(* The page of a code, by division and by its ends.                        *)
LEMMA PageOfCode ==
  ASSUME NEW v \in Nat
  PROVE  v \div CharsPerPage \in Nat /\ \A p \in Nat : v \in OfPage(p) <=> v \div CharsPerPage = p
<1>1. PICK C \in Nat \ {0} : C = CharsPerPage
  BY FontsAssumption
<1>2. PICK q \in Nat, r \in 0..C - 1 : q = v \div C /\ v = C * q + r
  BY DivMod
<1>3. ASSUME NEW p \in Nat PROVE (p * C <= v /\ v < (p + 1) * C) <=> q = p
  <2>1. ASSUME q = p PROVE p * C <= v /\ v < (p + 1) * C
    <3>1. PICK x \in Nat : x = C * q /\ x = p * C
      BY <2>1
    <3>2. (p + 1) * C = x + C
      BY <3>1
    <3>. QED  BY <1>2, <3>1, <3>2
  <2>2. ASSUME p * C <= v, v < (p + 1) * C PROVE q = p
    <3>1. PICK x \in Nat : x = p * C /\ x = C * p
      OBVIOUS
    <3>2. (p + 1) * C = x + C
      BY <3>1
    <3>3. PICK s \in 0..C - 1 : s = v - x /\ v = C * p + s
      BY <2>2, <3>1, <3>2
    <3>4. v \div C = p
      BY <3>3, DivUnique
    <3>. QED  BY <1>2, <3>4
  <2>. QED  BY <2>1, <2>2
<1>. QED  BY <1>1, <1>2, <1>3 DEF OfPage

\* What is kept of a family between two pages: its first code not before from.
NextOf(x, A, from) ==
  \/ x = kNotFound /\ \A v \in A : v < from
  \/ x \in A /\ from <= x /\ \A v \in A : from <= v => x <= v

\* The families whose codes are in page p, A[j] the codes of family j.
Having(A, n, p) == {j \in 1..n : \E v \in A[j] : v \in OfPage(p)}
AllReads(families, A, n) ==
  /\ Len(families) = n /\ DOMAIN families = 1..n
  /\ A \in [1..n -> SUBSET Nat]
  /\ \A j \in 1..n : Reads(families[j].mCoverage, A[j])
Pages(A, n, k) ==
  {t \in [lastChar : [1..n -> Int], pages : Seq(Seq(1..n))] :
     /\ \A j \in 1..n : NextOf(t.lastChar[j], A[j], k * CharsPerPage)
     /\ Len(t.pages) = k
     /\ \A p \in 1..k : Lists(t.pages[p], Having(A, n, p - 1), n)}

(* nextSetBit gives the next code of a family.                             *)
LEMMA NextIsRead ==
  ASSUME NEW set, NEW A, Reads(set, A), NEW from \in Nat
  PROVE  NextOf(nextSetBit(set, from), A, from) /\ nextSetBit(set, from) \in Int
<1>1. PICK x : x = nextSetBit(set, from)
  OBVIOUS
<1>2. \/ x = kNotFound /\ \A v \in A : v < from
      \/ x \in A /\ from <= x /\ \A v \in A : from <= v => x <= v
  BY <1>1 DEF Reads
<1>3. x \in Int
  <2>1. kNotFound \in Int
    BY DEF kNotFound
  <2>2. A \in SUBSET Nat
    BY DEF Reads
  <2>3. CASE x = kNotFound
    BY <2>1, <2>3
  <2>4. CASE x \in A
    BY <2>2, <2>4
  <2>. QED  BY <1>2, <2>3, <2>4
<1>. QED  BY <1>1, <1>2, <1>3 DEF NextOf

(* Before the first page every family is at its first code.                *)
LEMMA NoPagesYet ==
  ASSUME NEW families, NEW A, NEW n \in Nat, AllReads(families, A, n)
  PROVE  NoPages(families) \in Pages(A, n, 0)
<1>1. PICK last : last = [j \in 1..n |-> nextSetBit(families[j].mCoverage, 0)]
  OBVIOUS
<1>2. \A j \in 1..n : NextOf(last[j], A[j], 0) /\ last[j] \in Int
  <2> SUFFICES ASSUME NEW j \in 1..n PROVE NextOf(last[j], A[j], 0) /\ last[j] \in Int
    OBVIOUS
  <2>1. Reads(families[j].mCoverage, A[j])
    BY DEF AllReads
  <2>. QED  BY <1>1, <2>1, NextIsRead
<1>3. NoPages(families) = [lastChar |-> last, pages |-> <<>>]
  BY <1>1 DEF NoPages, AllReads
<1>4. 0 * CharsPerPage = 0
  BY FontsAssumption
<1>5. last \in [1..n -> Int]
  BY <1>1, <1>2
<1>6. <<>> \in Seq(Seq(1..n)) /\ Len(<<>>) = 0 /\ 1..0 = {}
  OBVIOUS
<1>. QED  BY <1>2, <1>3, <1>4, <1>5, <1>6 DEF Pages

(* One more page is made (the loop of FontCollection::init).               *)
LEMMA OnePageMore ==
  ASSUME NEW families, NEW A, NEW n \in Nat, AllReads(families, A, n),
         NEW k \in Nat, NEW t \in Pages(A, n, k)
  PROVE  AddPage(families, t, k) \in Pages(A, n, k + 1)
<1>1. PICK C \in Nat \ {0} : C = CharsPerPage
  BY FontsAssumption
<1>2. PICK a, e \in Nat : a = k * C /\ e = (k + 1) * C /\ a <= e
  <2>1. PICK x \in Nat : x = k * C
    OBVIOUS
  <2>2. (k + 1) * C = x + C
    BY <2>1
  <2>. QED  BY <2>1, <2>2
<1>3. /\ DOMAIN families = 1..n /\ Len(families) = n
      /\ \A j \in 1..n : Reads(families[j].mCoverage, A[j]) /\ A[j] \in SUBSET Nat
  BY DEF AllReads
<1>4. /\ t.lastChar \in [1..n -> Int] /\ t.pages \in Seq(Seq(1..n)) /\ Len(t.pages) = k
      /\ \A j \in 1..n : NextOf(t.lastChar[j], A[j], a)
      /\ \A p \in 1..k : Lists(t.pages[p], Having(A, n, p - 1), n)
  BY <1>1, <1>2 DEF Pages
<1>5. PICK here : here = Here(families, t, k)
  OBVIOUS
<1>6. here = {j \in 1..n : t.lastChar[j] # kNotFound /\ t.lastChar[j] < e}
  BY <1>1, <1>2, <1>3, <1>5 DEF Here, PageEnd
<1>7. ASSUME NEW j \in 1..n
      PROVE  /\ j \in here <=> j \in Having(A, n, k)
             /\ j \notin here => NextOf(t.lastChar[j], A[j], e)
  <2>1. PICK x \in Int, S \in SUBSET Nat : x = t.lastChar[j] /\ S = A[j]
    BY <1>3, <1>4
  <2>2. \/ x = kNotFound /\ \A v \in S : v < a
        \/ x \in S /\ a <= x /\ \A v \in S : a <= v => x <= v
    BY <1>4, <2>1 DEF NextOf
  <2>3. j \in Having(A, n, k) <=> \E v \in S : a <= v /\ v < e
    BY <1>1, <1>2, <2>1 DEF Having, OfPage
  <2>4. j \in here <=> x # kNotFound /\ x < e
    BY <1>6, <2>1
  <2>5. CASE x = kNotFound /\ \A v \in S : v < a
    <3>1. \A v \in S : v < e /\ ~(a <= v)
      BY <1>2, <2>5
    <3>. QED  BY <2>1, <2>3, <2>4, <2>5, <3>1 DEF NextOf
  <2>6. CASE x \in S /\ a <= x /\ \A v \in S : a <= v => x <= v
    <3>1. x # kNotFound /\ x \in Nat
      BY <2>6 DEF kNotFound
    <3>2. j \in here <=> j \in Having(A, n, k)
      BY <1>2, <2>3, <2>4, <2>6, <3>1
    <3>3. ASSUME ~(x < e) PROVE NextOf(x, S, e)
      <4>1. e <= x /\ \A v \in S : e <= v => x <= v
        BY <1>2, <2>6, <3>1, <3>3
      <4>. QED  BY <2>6, <4>1 DEF NextOf
    <3>. QED  BY <2>1, <2>4, <3>1, <3>2, <3>3
  <2>. QED  BY <2>2, <2>5, <2>6
<1>8. here = Having(A, n, k)
  BY <1>6, <1>7 DEF Having
<1>9. PICK last : last = [j \in 1..n |-> IF j \in here THEN nextSetBit(families[j].mCoverage, e)
                                         ELSE t.lastChar[j]]
  OBVIOUS
<1>10. \A j \in 1..n : NextOf(last[j], A[j], e) /\ last[j] \in Int
  <2> SUFFICES ASSUME NEW j \in 1..n PROVE NextOf(last[j], A[j], e) /\ last[j] \in Int
    OBVIOUS
  <2>1. CASE j \in here
    <3>1. last[j] = nextSetBit(families[j].mCoverage, e)
      BY <1>9, <2>1
    <3>. QED  BY <1>3, <3>1, NextIsRead
  <2>2. CASE j \notin here
    BY <1>4, <1>7, <1>9, <2>2
  <2>. QED  BY <2>1, <2>2
<1>11. PICK l : l = Listed(here, n) /\ Lists(l, Having(A, n, k), n) /\ l \in Seq(1..n)
  BY <1>8, ListedLists DEF Lists
<1>12. PICK pages : pages = Append(t.pages, l)
  OBVIOUS
<1>13. PICK q \in Nat : q = k + 1 /\ q - 1 = k
  OBVIOUS
<1>14. pages \in Seq(Seq(1..n)) /\ Len(pages) = q /\ pages[q] = l /\ \A p \in 1..k : pages[p] = t.pages[p]
  BY <1>4, <1>11, <1>12, <1>13
<1>15. AddPage(families, t, k) = [lastChar |-> last, pages |-> pages]
  BY <1>1, <1>2, <1>3, <1>5, <1>9, <1>11, <1>12 DEF AddPage, PageEnd
<1>16. \A p \in 1..q : Lists(pages[p], Having(A, n, p - 1), n)
  <2> SUFFICES ASSUME NEW p \in 1..q PROVE Lists(pages[p], Having(A, n, p - 1), n)
    OBVIOUS
  <2>1. CASE p = q
    BY <1>11, <1>13, <1>14, <2>1
  <2>2. CASE p # q
    <3>1. p \in 1..k
      BY <1>13, <2>2
    <3>. QED  BY <1>4, <1>14, <3>1
  <2>. QED  BY <2>1, <2>2
<1>17. last \in [1..n -> Int]
  BY <1>9, <1>10
<1>18. q * CharsPerPage = e
  BY <1>1, <1>2, <1>13
<1>19. [lastChar |-> last, pages |-> pages] \in Pages(A, n, q)
  BY <1>10, <1>14, <1>16, <1>17, <1>18 DEF Pages
<1>. QED  BY <1>13, <1>15, <1>19

(* The page table lists, page by page, the families that have a code       *)
(* there.                                                                  *)
LEMMA PagesAre ==
  ASSUME NEW families, NEW A, NEW n \in Nat, AllReads(families, A, n), NEW m \in Nat
  PROVE  \E t \in Pages(A, n, m) : PageTable(families, m) = t.pages
<1> DEFINE kinds == [k \in 0..m |-> Pages(A, n, k)]
           step == [k \in 0..m |-> [x \in Pages(A, n, k - 1) |-> AddPage(families, x, k - 1)]]
           f == CHOOSE f : f = [i \in 0..m |-> IF i = 0 THEN NoPages(families)
                                               ELSE AddPage(families, f[i - 1], i - 1)]
<1>1. \A k \in 0..m : k # 0 => k \in 1..m /\ k - 1 \in 0..m /\ k - 1 \in Nat /\ (k - 1) + 1 = k
  OBVIOUS
<1>2. \A k \in 0..m : k # 0 => \A x \in kinds[k - 1] :
         step[k][x] \in kinds[k] /\ step[k][x] = AddPage(families, x, k - 1)
  <2> SUFFICES ASSUME NEW k \in 0..m, k # 0, NEW x \in kinds[k - 1]
               PROVE  step[k][x] \in kinds[k] /\ step[k][x] = AddPage(families, x, k - 1)
    OBVIOUS
  <2>1. k - 1 \in 0..m /\ k - 1 \in Nat /\ (k - 1) + 1 = k
    BY <1>1
  <2>2. x \in Pages(A, n, k - 1)
    BY <2>1
  <2>3. PICK j \in Nat : j = k - 1 /\ j + 1 = k
    BY <2>1
  <2>4. AddPage(families, x, j) \in Pages(A, n, j + 1)
    BY <2>2, <2>3, OnePageMore
  <2>. QED  BY <2>2, <2>3, <2>4
<1>3. NoPages(families) \in kinds[0]
  BY NoPagesYet
<1> HIDE DEF step, kinds
<1>4. PICK g : IsIteration(0, m, NoPages(families), step, kinds, g)
  <2>1. 0 \in Nat /\ 0 <= m
    OBVIOUS
  <2>. QED  BY <1>2, <1>3, <2>1, IterationExists
<1>5. g = [i \in 0..m |-> IF i = 0 THEN NoPages(families) ELSE AddPage(families, g[i - 1], i - 1)]
  BY <1>1, <1>2, <1>4 DEF IsIteration
<1>6. f = [i \in 0..m |-> IF i = 0 THEN NoPages(families) ELSE AddPage(families, f[i - 1], i - 1)]
  BY <1>5
<1>7. PageTable(families, m) = f[m].pages
  BY DEF PageTable
<1> HIDE DEF f
<1>8. f[0] = NoPages(families) /\ \A k \in 1..m : k \in 0..m /\ k # 0 /\ f[k] = AddPage(families, f[k - 1], k - 1)
  BY <1>6
<1> DEFINE T == {k \in 0..m : f[k] \in kinds[k]}
<1>9. 0 \in T
  BY <1>3, <1>8
<1>10. ASSUME NEW k \in 1..m, k - 1 \in T PROVE k \in T
  <2>1. k \in 0..m /\ k # 0 /\ f[k - 1] \in kinds[k - 1]
    BY <1>8, <1>10
  <2>2. step[k][f[k - 1]] \in kinds[k] /\ step[k][f[k - 1]] = AddPage(families, f[k - 1], k - 1)
    BY <1>2, <2>1
  <2>. QED  BY <1>8, <2>1, <2>2
<1> HIDE DEF T
<1>11. m \in T
  <2>1. m \in 0..m
    OBVIOUS
  <2>. QED  BY <1>9, <1>10, <2>1, ReachesAll
<1>12. f[m] \in Pages(A, n, m)
  BY <1>11 DEF T, kinds
<1>. QED  BY <1>7, <1>12

(* The greatest of some numbers.                                           *)
LEMMA GreatestIs ==
  ASSUME NEW n \in Nat \ {0}, NEW m \in [1..n -> Nat]
  PROVE  Max({m[j] : j \in 1..n}) \in Nat /\ \A j \in 1..n : m[j] <= Max({m[j2] : j2 \in 1..n})
<1> DEFINE T == {k \in 0..n : k # 0 => \E i \in 1..n : \A j \in 1..k : m[j] <= m[i]}
<1>1. 0 \in T
  OBVIOUS
<1>2. ASSUME NEW k \in 1..n, k - 1 \in T PROVE k \in T
  <2>1. \A j \in 1..k : j \in 1..k - 1 \/ j = k
    OBVIOUS
  <2>2. \E i \in 1..n : \A j \in 1..k : m[j] <= m[i]
    <3>1. CASE k = 1
      <4>1. \A j \in 1..k : j = k
        BY <3>1
      <4>2. PICK y \in Nat : y = m[k] /\ y <= y
        OBVIOUS
      <4>3. \A j \in 1..k : m[j] <= m[k]
        BY <4>1, <4>2
      <4>. QED  BY <4>3
    <3>2. CASE k # 1
      <4>1. PICK i \in 1..n : \A j \in 1..k - 1 : m[j] <= m[i]
        BY <1>2, <3>2
      <4>2. PICK x, y \in Nat : x = m[i] /\ y = m[k]
        OBVIOUS
      <4>3. CASE y <= x
        BY <2>1, <4>1, <4>2, <4>3
      <4>4. CASE ~(y <= x)
        <5>1. ASSUME NEW j \in 1..k PROVE m[j] <= y
          <6>1. CASE j = k
            BY <4>2, <6>1
          <6>2. CASE j # k
            <7>1. m[j] <= x /\ m[j] \in Nat
              BY <2>1, <4>1, <4>2, <6>2
            <7>. QED  BY <4>4, <7>1
          <6>. QED  BY <6>1, <6>2
        <5>. QED  BY <4>2, <5>1
      <4>. QED  BY <4>3, <4>4
    <3>. QED  BY <3>1, <3>2
  <2>3. k \in 0..n
    OBVIOUS
  <2>. QED  BY <2>2, <2>3
<1> HIDE DEF T
<1>3. n \in T
  <2>1. n \in 0..n
    OBVIOUS
  <2>. QED  BY <1>1, <1>2, <2>1, ReachesAll
<1>4. PICK i \in 1..n : \A j \in 1..n : m[j] <= m[i]
  BY <1>3 DEF T
<1> DEFINE S == {m[j] : j \in 1..n}
<1>5. \E x \in S : \A y \in S : x >= y
  BY <1>4
<1>6. Max(S) \in S /\ \A y \in S : Max(S) >= y
  BY <1>5 DEF Max
<1>7. S \in SUBSET Nat
  OBVIOUS
<1>8. \A j \in 1..n : m[j] \in S
  OBVIOUS
<1> HIDE DEF S
<1>9. Max(S) \in Nat /\ \A j \in 1..n : m[j] <= Max(S)
  BY <1>6, <1>7, <1>8
<1>. QED  BY <1>9 DEF S

(* There is a page for every code before the last (nPages).                *)
LEMMA PagesSuffice ==
  ASSUME NEW m \in Nat, NEW v \in Nat, v < m
  PROVE  LET N == (m + CharsPerPage - 1) \div CharsPerPage
         IN N \in Nat /\ v \div CharsPerPage < N
<1>1. PICK C \in Nat \ {0} : C = CharsPerPage
  BY FontsAssumption
<1>2. PICK y \in Nat : y = m + C - 1
  OBVIOUS
<1>3. PICK N \in Nat, r \in 0..C - 1 : N = y \div C /\ y = C * N + r
  <2>1. y \div C \in Nat /\ y % C \in 0..C - 1 /\ y = C * (y \div C) + (y % C)
    BY DivMod
  <2>. QED  BY <2>1
<1>4. PICK q \in Nat, s \in 0..C - 1 : q = v \div C /\ v = C * q + s
  <2>1. v \div C \in Nat /\ v % C \in 0..C - 1 /\ v = C * (v \div C) + (v % C)
    BY DivMod
  <2>. QED  BY <2>1
<1>5. ASSUME N <= q PROVE FALSE
  <2>1. PICK x, z \in Nat : x = C * N /\ z = C * q
    OBVIOUS
  <2>2. x <= z
    BY <1>5, <2>1
  <2>. QED  BY <1>2, <1>3, <1>4, <2>1, <2>2
<1>. QED  BY <1>1, <1>2, <1>3, <1>4, <1>5

\* A family covers what one of its fonts covers.
IsFamily(f) ==
  /\ IsFontList(f.mFonts)
  /\ \E i \in DOMAIN f.mFonts : f.mCoverage = getCoverage(f.mFonts[i].file.cmap).coverage
IsFamilyList(families, n) ==
  /\ n \in Nat \ {0} /\ Len(families) = n /\ DOMAIN families = 1..n
  /\ \A j \in 1..n : IsFamily(families[j])

(* The coverage of a family is a set of code points.                       *)
LEMMA FamilyIsRead ==
  ASSUME NEW f, IsFamily(f)
  PROVE  \E A \in SUBSET (0..kMaxCodePoint) : Reads(f.mCoverage, A)
<1>1. PICK i \in DOMAIN f.mFonts : f.mCoverage = getCoverage(f.mFonts[i].file.cmap).coverage
  BY DEF IsFamily
<1>2. IsCmap(f.mFonts[i].file.cmap)
  BY DEF IsFamily, IsFontList
<1>3. PICK cm : cm = f.mFonts[i].file.cmap
  OBVIOUS
<1>4. PICK A : Covers(cm, ChooseTables(cm), getCoverage(cm).coverage, A)
  BY <1>2, <1>3, CoverageIsRead
<1>. QED  BY <1>1, <1>3, <1>4 DEF Covers

(* A family covers what its closest font covers (computeCoverage).         *)
LEMMA NewFamilyIs ==
  ASSUME NEW locales, NEW variant, NEW fonts, NEW custom, IsFontList(fonts)
  PROVE  IsFamily(NewFamily(locales, variant, fonts, custom))
<1>1. PICK i \in DOMAIN fonts : i = closestFont(fonts, DefaultStyle)
  BY ClosestIsOneOfThem DEF IsFontList
<1>2. PICK f : f = NewFamily(locales, variant, fonts, custom)
  OBVIOUS
<1>3. f.mFonts = fonts /\ f.mCoverage = getCoverage(fonts[i].file.cmap).coverage
  BY <1>1, <1>2 DEF NewFamily, Covering
<1>. QED  BY <1>2, <1>3 DEF IsFamily

\* The codes of the families, each in the range of code points.
CodesOf(families, A, n) ==
  AllReads(families, A, n) /\ \A j \in 1..n : A[j] \in SUBSET (0..kMaxCodePoint)

(* The codes of all families of a collection.                              *)
LEMMA FamiliesAreRead ==
  ASSUME NEW families, NEW n \in Nat, IsFamilyList(families, n)
  PROVE  \E A : CodesOf(families, A, n)
<1> DEFINE A == [j \in 1..n |-> CHOOSE S \in SUBSET (0..kMaxCodePoint) : Reads(families[j].mCoverage, S)]
<1>1. ASSUME NEW j \in 1..n
      PROVE  A[j] \in SUBSET (0..kMaxCodePoint) /\ Reads(families[j].mCoverage, A[j])
  <2>1. \E S \in SUBSET (0..kMaxCodePoint) : Reads(families[j].mCoverage, S)
    BY FamilyIsRead DEF IsFamilyList
  <2>. QED  BY <2>1
<1>2. A = [j \in 1..n |-> A[j]]
  OBVIOUS
<1> HIDE DEF A
<1>3. \A j \in 1..n : A[j] \in SUBSET Nat
  BY <1>1 DEF Reads
<1>4. A \in [1..n -> SUBSET Nat]
  BY <1>2, <1>3
<1>5. CodesOf(families, A, n)
  BY <1>1, <1>4 DEF CodesOf, AllReads, IsFamilyList
<1>. QED  BY <1>5

(* The pages of a collection list the families that have a code in them.   *)
LEMMA NewCollectionLists ==
  ASSUME NEW families, NEW n \in Nat, IsFamilyList(families, n)
  PROVE  ListsItsFamilies(NewCollection(families))
<1>1. PICK A : CodesOf(families, A, n)
  BY FamiliesAreRead
<1>2. /\ n # 0 /\ DOMAIN families = 1..n /\ AllReads(families, A, n)
      /\ A \in [1..n -> SUBSET Nat]
      /\ \A j \in 1..n : Reads(families[j].mCoverage, A[j])
      /\ \A j \in 1..n : A[j] \in SUBSET CodePoints
  BY <1>1 DEF IsFamilyList, CodesOf, AllReads, CodePoints
<1>3. PICK c : c = NewCollection(families)
  OBVIOUS
<1> DEFINE max == Max({families[j].mCoverage.mMaxVal : j \in 1..n})
<1>4. max \in Nat /\ \A j \in 1..n : families[j].mCoverage.mMaxVal <= max
                                     /\ families[j].mCoverage.mMaxVal \in Nat
  <2>1. PICK m : m = [j \in 1..n |-> families[j].mCoverage.mMaxVal]
    OBVIOUS
  <2>2. m \in [1..n -> Nat] /\ \A j \in 1..n : m[j] = families[j].mCoverage.mMaxVal
    BY <1>2, <2>1 DEF Reads
  <2>3. {m[j] : j \in 1..n} = {families[j].mCoverage.mMaxVal : j \in 1..n}
    BY <2>2
  <2>4. Max({m[j] : j \in 1..n}) \in Nat /\ \A j \in 1..n : m[j] <= Max({m[j2] : j2 \in 1..n})
    BY <1>2, <2>2, GreatestIs
  <2>. QED  BY <2>2, <2>3, <2>4
<1>5. /\ c.mFamilies = families /\ c.mMaxChar = max
      /\ c.mRanges = PageTable(families, (max + CharsPerPage - 1) \div CharsPerPage)
  BY <1>2, <1>3 DEF NewCollection
<1> HIDE DEF max
<1>6. PICK mx \in Nat : mx = max
  BY <1>4
<1>7. PICK N \in Nat : N = (mx + CharsPerPage - 1) \div CharsPerPage
  <2>1. PICK y \in Nat, C \in Nat \ {0} : y = mx + CharsPerPage - 1 /\ C = CharsPerPage
    BY FontsAssumption
  <2>2. y \div C \in Nat
    BY DivMod
  <2>. QED  BY <2>1, <2>2
<1>8. PICK t \in Pages(A, n, N) : c.mRanges = t.pages
  BY <1>2, <1>5, <1>6, <1>7, PagesAre
<1>9. /\ t.pages \in Seq(Seq(1..n)) /\ DOMAIN t.pages = 1..N
      /\ \A p \in 1..N : Lists(t.pages[p], Having(A, n, p - 1), n)
  BY <1>8 DEF Pages
<1>10. \A ch \in CodePoints : ch \in Nat
  BY ReaderAssumption DEF CodePoints
<1>11. ASSUME NEW j \in 1..n, NEW ch \in CodePoints
       PROVE  covers(c.mFamilies[j], ch) <=> ch \in A[j]
  BY <1>2, <1>5, <1>10 DEF covers, Reads
<1>12. ASSUME NEW j \in 1..n, NEW ch \in CodePoints, covers(c.mFamilies[j], ch)
       PROVE  ch < c.mMaxChar /\ ch \div CharsPerPage + 1 \in DOMAIN c.mRanges
  <2>1. ch \in Nat /\ ch \in A[j]
    BY <1>10, <1>11, <1>12
  <2>2. ch < mx
    <3>1. ch < families[j].mCoverage.mMaxVal
      BY <1>2, <2>1 DEF Reads
    <3>. QED  BY <1>4, <1>6, <2>1, <3>1
  <2>3. ch \div CharsPerPage < N /\ ch \div CharsPerPage \in Nat
    BY <1>7, <2>1, <2>2, PagesSuffice, PageOfCode
  <2>. QED  BY <1>5, <1>6, <1>8, <1>9, <2>2, <2>3
<1>13. ASSUME NEW i \in 1..N
       PROVE  LET page == c.mRanges[i]
              IN /\ page \in Seq(1..n)
                 /\ \A k, l \in DOMAIN page : k < l => page[k] < page[l]
                 /\ \A j \in 1..n :
                       (\E k \in DOMAIN page : page[k] = j)
                       <=> \E ch \in CodePoints : ch \div CharsPerPage + 1 = i
                                                  /\ covers(c.mFamilies[j], ch)
  <2>1. PICK page \in Seq(1..n) : page = c.mRanges[i] /\ Lists(page, Having(A, n, i - 1), n)
    BY <1>8, <1>9
  <2>2. DOMAIN page = 1..Len(page)
    OBVIOUS
  <2>3. ASSUME NEW j \in 1..n
        PROVE  (\E k \in DOMAIN page : page[k] = j) <=> j \in Having(A, n, i - 1)
    BY <2>1, <2>2 DEF Lists
  <2>4. ASSUME NEW j \in 1..n
        PROVE  j \in Having(A, n, i - 1)
               <=> \E ch \in CodePoints : ch \div CharsPerPage + 1 = i /\ covers(c.mFamilies[j], ch)
    <3>1. \A v \in A[j] : v \in CodePoints /\ v \in Nat
      BY <1>2, <1>10
    <3>2. ASSUME NEW v \in Nat PROVE v \in OfPage(i - 1) <=> v \div CharsPerPage + 1 = i
      <4>1. PICK p \in Nat : p = i - 1 /\ i = p + 1
        OBVIOUS
      <4>2. v \div CharsPerPage \in Nat /\ (v \in OfPage(p) <=> v \div CharsPerPage = p)
        BY PageOfCode
      <4>. QED  BY <4>1, <4>2
    <3>3. j \in Having(A, n, i - 1) <=> \E v \in A[j] : v \in OfPage(i - 1)
      BY DEF Having
    <3>. QED  BY <1>10, <1>11, <3>1, <3>2, <3>3
  <2>. QED  BY <2>1, <2>2, <2>3, <2>4 DEF Lists
<1>14. ListsItsFamilies(c)
  BY <1>2, <1>5, <1>8, <1>9, <1>12, <1>13 DEF ListsItsFamilies
<1>. QED  BY <1>3, <1>14

(* The families of a collection are a list, and its tables are made of it. *)
Opened == {NewFamily(def.locales, def.variant, def.fonts, def.custom) : def \in FamilyDefs}
AreLists ==
  /\ opened \in Seq(Opened)
  /\ \A c \in collection :
        IsFamilyList(c.mFamilies, Len(c.mFamilies)) /\ c = NewCollection(c.mFamilies)

(* A varied family is one, too (createFamilyWithVariation).                *)
LEMMA VariedFamilyIs ==
  ASSUME NEW family, IsFamily(family), NEW variations
  PROVE  IsFamily(OrSame(createFamilyWithVariation(family, variations), family))
<1>1. PICK new : new = createFamilyWithVariation(family, variations)
  OBVIOUS
<1>2. CASE new = {}
  BY <1>1, <1>2 DEF OrSame
<1>3. CASE new # {}
  <2> DEFINE Vary1(font) == IF font.file.fvar \cap (DOMAIN variations) # {} /\ CanVary(font.file)
                            THEN Build([font.file EXCEPT !.axes = variations], font.style)
                            ELSE Build(font.file, font.style)
             fonts == [i \in DOMAIN family.mFonts |-> Vary1(family.mFonts[i])]
  <2>1. new = {NewFamily(family.mLocales, family.mVariant, fonts, family.mIsCustomFallback)}
    BY <1>1, <1>3 DEF createFamilyWithVariation
  <2>2. PICK n \in Nat \ {0} : n = Len(family.mFonts) /\ DOMAIN family.mFonts = 1..n
    BY DEF IsFamily, IsFontList
  <2>3. DOMAIN fonts = 1..n /\ Len(fonts) = n
    <3>1. fonts \in Seq({Vary1(family.mFonts[i]) : i \in 1..n}) /\ DOMAIN fonts = 1..n
      BY <2>2
    <3> HIDE DEF fonts
    <3>. QED  BY <3>1
  <2>4. ASSUME NEW i \in 1..n
        PROVE  "cmap" \in DOMAIN fonts[i].file /\ IsCmap(fonts[i].file.cmap)
    <3>1. PICK font : font = family.mFonts[i] /\ "cmap" \in DOMAIN font.file /\ IsCmap(font.file.cmap)
      BY <2>2 DEF IsFamily, IsFontList
    <3>2. fonts[i] = Vary1(font)
      BY <2>2, <3>1
    <3>3. \E file \in {font.file, [font.file EXCEPT !.axes = variations]} : fonts[i] = Build(file, font.style)
      BY <3>2
    <3>4. PICK file \in {font.file, [font.file EXCEPT !.axes = variations]} : fonts[i] = Build(file, font.style)
      BY <3>3
    <3>5. fonts[i].file = file
      <4>1. \A style : Build(file, style).file = file
        BY DEF Build
      <4>. QED  BY <3>4, <4>1
    <3>6. "cmap" \in DOMAIN file /\ file.cmap = font.file.cmap
      <4>1. CASE file = font.file
        BY <3>1, <4>1
      <4>2. CASE file = [font.file EXCEPT !.axes = variations]
        <5>1. "cmap" # "axes"
          OBVIOUS
        <5>. QED  BY <3>1, <4>2, <5>1
      <4>. QED  BY <3>4, <4>1, <4>2
    <3>. QED  BY <3>1, <3>5, <3>6
  <2> HIDE DEF fonts
  <2>5. IsFontList(fonts)
    BY <2>2, <2>3, <2>4 DEF IsFontList
  <2>6. PICK f : f = NewFamily(family.mLocales, family.mVariant, fonts, family.mIsCustomFallback) /\ IsFamily(f)
    BY <2>5, NewFamilyIs
  <2>7. OrSame(new, family) = f
    BY <1>3, <2>1, <2>6 DEF OrSame
  <2>. QED  BY <1>1, <2>6, <2>7
<1>. QED  BY <1>2, <1>3

(* Every collection is made of families that were read.                    *)
LEMMA AreListsHolds == Spec => []AreLists
<1>1. Init => AreLists
  <2>1. << >> \in Seq(Opened)
    OBVIOUS
  <2>. QED  BY <2>1 DEF Init, AreLists
<1>2. AreLists /\ [Next]_vars => AreLists'
  <2> SUFFICES ASSUME AreLists, [Next]_vars PROVE AreLists'
    OBVIOUS
  <2>1. ASSUME NEW def \in FamilyDefs, Open(def) PROVE AreLists'
    <3>1. PICK family \in Opened : opened' = Append(opened, family) /\ collection' = collection
      BY <2>1 DEF Open, Opened
    <3>2. opened' \in Seq(Opened)
      BY <3>1 DEF AreLists
    <3>. QED  BY <3>1, <3>2 DEF AreLists
  <2>2. CASE Create
    <3>1. collection' = {NewCollection(opened)} /\ opened' = opened /\ opened # <<>>
      BY <2>2 DEF Create
    <3>2. NewCollection(opened).mFamilies = opened
      BY DEF NewCollection
    <3>3. \A family \in Opened : IsFamily(family)
      <4>1. \A def \in FamilyDefs : IsFamily(NewFamily(def.locales, def.variant, def.fonts, def.custom))
        BY FontsAssumption, NewFamilyIs
      <4>. QED  BY <4>1 DEF Opened
    <3>4. PICK n \in Nat : n = Len(opened) /\ DOMAIN opened = 1..n /\ n # 0
      BY <3>1 DEF AreLists
    <3>5. \A j \in 1..n : opened[j] \in Opened
      BY <3>4 DEF AreLists
    <3>6. IsFamilyList(opened, n)
      BY <3>3, <3>4, <3>5 DEF IsFamilyList
    <3>. QED  BY <3>1, <3>2, <3>4, <3>6 DEF AreLists
  <2>3. ASSUME NEW text \in Texts, NEW locales \in WantedLocales, NEW variant \in WantedVariants,
               NEW runMax \in {1, Len(text)}, Itemize(text, locales, variant, runMax)
        PROVE  AreLists'
    BY <2>3 DEF Itemize, AreLists
  <2>4. ASSUME NEW variations \in Variations, Vary(variations) PROVE AreLists'
    <3>1. PICK c \in collection :
            /\ \E new \in createCollectionWithVariation(c, variations) : collection' = {new}
            /\ opened' = opened
      BY <2>4 DEF Vary
    <3>2. PICK n : n = Len(c.mFamilies) /\ IsFamilyList(c.mFamilies, n)
      BY DEF AreLists
    <3>3. DOMAIN c.mFamilies = 1..n /\ n # 0 /\ n \in Nat /\ \A j \in 1..n : IsFamily(c.mFamilies[j])
      BY <3>2 DEF IsFamilyList
    <3> DEFINE Varied1(j) == OrSame(createFamilyWithVariation(c.mFamilies[j], variations), c.mFamilies[j])
               varied == [j \in 1..n |-> Varied1(j)]
    <3>4. createCollectionWithVariation(c, variations) \in {{}, {NewCollection(varied)}}
      BY <3>3 DEF createCollectionWithVariation
    <3>5. \A j \in 1..n : IsFamily(varied[j])
      BY <3>3, VariedFamilyIs
    <3>6. varied \in Seq({Varied1(j) : j \in 1..n}) /\ DOMAIN varied = 1..n
      BY <3>3
    <3> HIDE DEF varied
    <3>7. IsFamilyList(varied, n)
      BY <3>3, <3>5, <3>6 DEF IsFamilyList
    <3>8. collection' = {NewCollection(varied)}
      BY <3>1, <3>4
    <3>9. NewCollection(varied).mFamilies = varied
      BY DEF NewCollection
    <3>10. Len(varied) = n
      BY <3>7 DEF IsFamilyList
    <3>. QED  BY <3>1, <3>7, <3>8, <3>9, <3>10 DEF AreLists
  <2>5. CASE UNCHANGED vars
    BY <2>5 DEF vars, AreLists
  <2>. QED  BY <2>1, <2>2, <2>3, <2>4, <2>5 DEF Next
<1>. QED  BY <1>1, <1>2, PTL DEF Spec

(* So its pages list its families.                                         *)
LEMMA CollectionLists ==
  ASSUME AreLists, NEW c \in collection
  PROVE  ListsItsFamilies(c) /\ \E n \in Nat : DOMAIN c.mFamilies = 1..n
<1>1. PICK families, n : families = c.mFamilies /\ n = Len(families)
  OBVIOUS
<1>2. IsFamilyList(families, n) /\ c = NewCollection(families)
  BY <1>1 DEF AreLists
<1>3. n \in Nat /\ DOMAIN families = 1..n
  BY <1>2 DEF IsFamilyList
<1>4. ListsItsFamilies(NewCollection(families))
  BY <1>2, <1>3, NewCollectionLists
<1>. QED  BY <1>1, <1>2, <1>3, <1>4

(* The page of a character lists, in the order of the collection, exactly  *)
(* the families with a character in that page, and no character of a       *)
(* family is behind the last one searched (FontCollection::init).          *)
THEOREM PagesAreRight == Spec => []PagesListTheirFamilies
<1>1. AreLists => PagesListTheirFamilies
  BY CollectionLists DEF PagesListTheirFamilies
<1>. QED  BY <1>1, AreListsHolds, PTL

-----------------------------------------------------------------------------
(* Among the candidates for a character that some family covers are all    *)
(* that can draw it, so the search finds one of them, the best.            *)
LEMMA SearchFindsTheBest ==
  ASSUME NEW c, NEW ch \in CodePoints, NEW vs, NEW variant, NEW locales, NEW n \in Nat, NEW i,
         Len(locales) \in 0..FONT_LOCALE_LIMIT, DOMAIN locales = 1..Len(locales),
         DOMAIN c.mFamilies = 1..n, ListsItsFamilies(c),
         i \in 1..n, covers(c.mFamilies[i], ch)
  PROVE  LET A == {j \in DOMAIN c.mFamilies : CanDraw(c, j, ch, vs)}
             chosen == getFamilyForChar(c, ch, vs, locales, variant)
         IN /\ chosen \in A
            /\ ChosenWell(chosen, A, {j \in A : calcCoverageScore(c, ch, vs, locales, j) = kFirstFontScore},
                          [j \in A |-> Merits(c, ch, vs, variant, locales, j)])
<1> DEFINE A == {j \in 1..n : CanDraw(c, j, ch, vs)}
           js == Candidates(c, ch, vs)
<1>1. ch < c.mMaxChar /\ ch \div CharsPerPage + 1 \in DOMAIN c.mRanges
  BY DEF ListsItsFamilies
<1>2. i \in A
  BY DEF CanDraw
<1>3. Ascending(js) /\ Able(c, ch, vs, js, A)
  <2>1. CASE vs = 0
    <3>1. PICK page, p : p = ch \div CharsPerPage + 1 /\ page = c.mRanges[p]
      OBVIOUS
    <3>2. /\ page \in Seq(1..n)
          /\ \A k, l \in DOMAIN page : k < l => page[k] < page[l]
          /\ \A j \in 1..n : (\E k \in DOMAIN page : page[k] = j)
                            <=> \E x \in CodePoints : x \div CharsPerPage + 1 = p /\ covers(c.mFamilies[j], x)
      BY <1>1, <3>1 DEF ListsItsFamilies
    <3>3. js = page
      BY <2>1, <3>1 DEF Candidates
    <3>4. page \in Seq(Nat \ {0})
      BY <3>2
    <3>5. \A k \in DOMAIN page : page[k] \in 1..n
      BY <3>2
    <3>6. \A j : j \in A <=> j \in 1..n /\ covers(c.mFamilies[j], ch)
      BY <2>1 DEF CanDraw
    <3>7. \A j : CanDraw(c, j, ch, vs) <=> covers(c.mFamilies[j], ch)
      BY <2>1 DEF CanDraw
    <3>9. ASSUME NEW j \in 1..n, covers(c.mFamilies[j], ch) PROVE \E k \in DOMAIN page : page[k] = j
      BY <3>1, <3>2, <3>9
    <3> HIDE DEF A, js
    <3>8. Able(c, ch, vs, js, A)
      <4>1. ASSUME NEW j PROVE j \in A <=> CanDraw(c, j, ch, vs) /\ \E k \in DOMAIN js : js[k] = j
        <5>1. (\E k \in DOMAIN js : js[k] = j) => j \in 1..n
          BY <3>3, <3>5
        <5>2. j \in 1..n /\ covers(c.mFamilies[j], ch) => \E k \in DOMAIN js : js[k] = j
          BY <3>3, <3>9
        <5>. QED  BY <3>6, <3>7, <5>1, <5>2
      <4>. QED  BY <4>1 DEF Able
    <3>. QED  BY <3>2, <3>3, <3>4, <3>8 DEF Ascending
  <2>2. CASE vs # 0
    <3>1. js = [j \in 1..n |-> j]
      BY <2>2 DEF Candidates
    <3> HIDE DEF js
    <3>2. js \in Seq(Nat \ {0}) /\ DOMAIN js = 1..n /\ \A j \in 1..n : js[j] = j
      BY <3>1
    <3>. QED  BY <3>2 DEF Ascending, Able
  <2>. QED  BY <2>1, <2>2
<1>4. PICK chosen : chosen = BestCandidate(c, ch, vs, locales, variant)
  OBVIOUS
<1> HIDE DEF js
<1>5. /\ chosen \in A
      /\ ChosenWell(chosen, A, {j \in A : calcCoverageScore(c, ch, vs, locales, j) = kFirstFontScore},
                    [j \in A |-> Merits(c, ch, vs, variant, locales, j)])
  <2>1. Candidates(c, ch, vs) = js /\ A # {}
    BY <1>2 DEF js
  <2> HIDE DEF A
  <2>. QED  BY <1>3, <1>4, <2>1, BestIsChosenWell
<1>6. getFamilyForChar(c, ch, vs, locales, variant) = chosen
  <2>1. Search(c, ch, vs, locales, variant) = chosen
    BY <1>1, <1>4 DEF Search
  <2>2. chosen # 0
    BY <1>5
  <2>. QED  BY <2>1, <2>2, FirstSearchWins
<1>. QED  BY <1>5, <1>6

(* A character that some family covers is given to the first of the        *)
(* collection or custom fallback that supports it, or else to the best by  *)
(* coverage, by the wanted locales in their order, by variant; the first   *)
(* of equals (getFamilyForChar, calcFamilyScore).                          *)
THEOREM BestWins == Spec => []BestFamilyWins
<1>1. AreLists => BestFamilyWins
  <2> SUFFICES ASSUME AreLists,
                      NEW c \in collection, NEW ch \in CodePoints,
                      NEW vs \in {0} \cup FirstVs .. FirstVs + NumVs - 1,
                      NEW locales \in WantedLocales, NEW variant \in WantedVariants,
                      asked = NothingAsked,
                      NEW i \in {j \in DOMAIN c.mFamilies : CanDraw(c, j, ch, vs)},
                      covers(c.mFamilies[i], ch)
               PROVE  LET able == {j \in DOMAIN c.mFamilies : CanDraw(c, j, ch, vs)}
                      IN ChosenWell(getFamilyForChar(c, ch, vs, locales, variant), able,
                                    {j \in able : calcCoverageScore(c, ch, vs, locales, j) = kFirstFontScore},
                                    [j \in able |-> Merits(c, ch, vs, variant, locales, j)])
    BY DEF BestFamilyWins
  <2>1. PICK n \in Nat : DOMAIN c.mFamilies = 1..n
    BY CollectionLists
  <2>2. ListsItsFamilies(c) /\ i \in 1..n
    BY <2>1, CollectionLists
  <2>3. Len(locales) \in 0..FONT_LOCALE_LIMIT /\ DOMAIN locales = 1..Len(locales)
    BY FontsAssumption
  <2>. QED  BY <2>1, <2>2, <2>3, SearchFindsTheBest
<1>. QED  BY <1>1, AreListsHolds, PTL

-----------------------------------------------------------------------------
(* A character needs a font that draws it when one of the families does.   *)
Needs(c, ch) ==
  ~doesNotNeedFontSupport(ch) /\ \E j \in DOMAIN c.mFamilies : covers(c.mFamilies[j], ch)
DrawsAt(c, text, family, m) == Needs(c, text[m]) => CanDraw(c, family, text[m], VsBehind(text, m))
Holds(run, p) == run.start <= p /\ p < run.end

(* The first i characters are in runs that draw them, as far as s has gone. *)
Drawn(c, text, o, s, i) ==
  /\ \A m \in 1..i, k \in 1..Len(s.runs) :
        Holds(s.runs[k], o[m - 1]) => DrawsAt(c, text, s.runs[k].family, m)
  /\ Len(s.runs) = 0 => \A m \in 1..i : ~Needs(c, text[m])
  /\ i # 0 => s.prevCh = text[i]
  /\ Len(s.runs) # 0 => s.runs[Len(s.runs)].family = s.lastFamily

(* Characters have room between their offsets.                             *)
Apart(text, o, i) ==
  /\ \A m \in 0..i : o[m] \in Nat
  /\ \A m \in 1..i : o[m - 1] < o[i]
  /\ \A m \in 1..i - 1 : o[m - 1] < o[i - 1]
  /\ i # 0 => o[i - 1] = o[i] - U16_LENGTH(text[i])
  /\ o[0] = 0

LEMMA OffsetsApart ==
  ASSUME NEW text, NEW n \in Nat, NEW o, IsOffset(text, n, o)
  PROVE  \A i \in 0..n : Apart(text, o, i)
<1> DEFINE Good(i) == Apart(text, o, i)
           bad == {i \in 0..n : ~Good(i)}
<1>1. /\ o[0] = 0
      /\ \A i \in 1..n : o[i] = o[i - 1] + U16_LENGTH(text[i])
  BY DEF IsOffset
<1>2. bad = {}
  <2>1. SUFFICES ASSUME bad # {} PROVE FALSE
    OBVIOUS
  <2>2. PICK i \in bad : \A y \in bad : i <= y
    BY <2>1, LeastExists, bad \in SUBSET Nat
  <2>3. CASE i = 0
    BY <1>1, <2>2, <2>3 DEF Apart
  <2>4. CASE i # 0
    <3>1. i \in 1..n /\ i - 1 \in 0..n /\ i - 1 \notin bad /\ i \in Nat
      BY <2>2, <2>4
    <3>2. Apart(text, o, i - 1)
      BY <3>1
    <3>3. U16_LENGTH(text[i]) \in 1..2 /\ o[i] = o[i - 1] + U16_LENGTH(text[i])
      BY <1>1, <3>1 DEF U16_LENGTH
    <3>4. /\ \A m \in 0..i - 1 : o[m] \in Nat
          /\ \A m \in 1..i - 1 : o[m - 1] < o[i - 1]
      BY <3>2 DEF Apart
    <3>5. o[i - 1] \in Nat /\ o[i] \in Nat /\ o[i - 1] < o[i] /\ o[i - 1] = o[i] - U16_LENGTH(text[i])
      BY <3>1, <3>3, <3>4
    <3>6. \A m \in 0..i : o[m] \in Nat
      BY <3>1, <3>4, <3>5
    <3>7. \A m \in 1..i : o[m - 1] < o[i]
      <4> SUFFICES ASSUME NEW m \in 1..i PROVE o[m - 1] < o[i]
        OBVIOUS
      <4>1. m = i \/ (m \in 1..i - 1 /\ m - 1 \in 0..i)
        BY <3>1
      <4>. QED  BY <3>4, <3>5, <3>6, <4>1
    <3>8. Apart(text, o, i)
      BY <1>1, <3>4, <3>5, <3>6, <3>7 DEF Apart
    <3>. QED  BY <2>2, <3>8
  <2>. QED  BY <2>3, <2>4
<1>. QED  BY <1>2

LEMMA EndsInOrder ==
  ASSUME NEW F, NEW G, NEW runs \in Seq(RunOf(F, G)), Tiles(runs)
  PROVE  \A k \in 1..Len(runs) : runs[k].start \in Int /\ runs[k].end \in Int /\ runs[k].end <= EndOf(runs)
<1>1. PICK n \in Nat : n = Len(runs)
  OBVIOUS
<1>2. \A k \in 1..n : runs[k].start \in Int /\ runs[k].end \in Int
  <2>1. \A k \in 1..n : runs[k] \in RunOf(F, G)
    BY <1>1
  <2>. QED  BY <2>1 DEF RunOf
<1> DEFINE bad == {d \in 0..n - 1 : ~(runs[n - d].end <= EndOf(runs))}
<1>3. bad = {}
  <2>1. SUFFICES ASSUME bad # {} PROVE FALSE
    OBVIOUS
  <2>2. PICK d \in bad : \A y \in bad : d <= y
    BY <2>1, LeastExists, bad \in SUBSET Nat
  <2>3. EndOf(runs) = runs[n].end /\ runs[n].end \in Int
    BY <1>1, <1>2, <2>2 DEF EndOf
  <2>4. CASE d = 0
    <3>1. n - d = n
      BY <2>4
    <3>. QED  BY <2>2, <2>3, <3>1
  <2>5. CASE d # 0
    <3>1. d - 1 \in 0..n - 1 /\ d - 1 \notin bad
      BY <2>2, <2>5
    <3>2. PICK k \in 1..n : k = n - d /\ k + 1 = n - (d - 1) /\ k + 1 \in 1..n /\ (k + 1) - 1 = k /\ k + 1 # 1
      BY <2>2, <2>5
    <3>3. runs[k + 1].end <= EndOf(runs)
      BY <3>1, <3>2
    <3>4. runs[k + 1].start = runs[k].end /\ runs[k + 1].start < runs[k + 1].end
      BY <1>1, <3>2 DEF Tiles
    <3>5. runs[k].end <= EndOf(runs)
      BY <1>2, <2>3, <3>2, <3>3, <3>4
    <3>. QED  BY <2>2, <3>2, <3>5
  <2>. QED  BY <2>4, <2>5
<1>4. \A k \in 1..n : runs[k].end <= EndOf(runs)
  <2> SUFFICES ASSUME NEW k \in 1..n PROVE runs[k].end <= EndOf(runs)
    OBVIOUS
  <2>1. n - k \in 0..n - 1 /\ n - (n - k) = k
    OBVIOUS
  <2>. QED  BY <1>3, <2>1
<1>. QED  BY <1>1, <1>2, <1>4

LEMMA PassingDraws ==
  ASSUME NEW c, NEW text, NEW o, NEW i \in Nat, NEW F, NEW G, NEW s, NEW runMax,
         Walked(F, G, s), s.pos = o[i], Apart(text, o, i), Drawn(c, text, o, s, i),
         IF Len(s.runs) = 0 THEN ~Needs(c, text[i + 1]) ELSE DrawsAt(c, text, s.lastFamily, i + 1)
  PROVE  Drawn(c, text, o, Pass(s, text[i + 1], s.lastFamily, s.runs, runMax), i + 1)
<1>1. PICK ch, runs, next, t : /\ ch = text[i + 1] /\ runs = s.runs /\ next = s.pos + U16_LENGTH(ch)
                               /\ t = Pass(s, ch, s.lastFamily, s.runs, runMax)
  OBVIOUS
<1>2. t.runs = Grow(runs, next) /\ t.prevCh = ch /\ t.lastFamily = s.lastFamily
  BY <1>1 DEF Pass
<1>3. \A m : m \in 1..i + 1 <=> m = i + 1 \/ m \in 1..i
  OBVIOUS
<1>4. runs \in Seq(RunOf(F, G)) /\ Tiles(runs) /\ Len(runs) \in Nat
  BY <1>1 DEF Walked
<1>5. CASE Len(runs) = 0
  <2>1. t.runs = runs
    BY <1>2, <1>4, <1>5 DEF Grow
  <2>2. \A m \in 1..i + 1 : ~Needs(c, text[m])
    BY <1>1, <1>3, <1>5 DEF Drawn
  <2>3. \A k : k \notin 1..Len(t.runs)
    BY <1>5, <2>1
  <2>4. i + 1 # 0 /\ t.prevCh = text[i + 1]
    BY <1>1, <1>2
  <2>. QED  BY <1>1, <1>5, <2>1, <2>2, <2>3, <2>4 DEF Drawn
<1>6. CASE Len(runs) # 0
  <2>1. PICK n \in Nat \ {0} : n = Len(runs)
    BY <1>4, <1>6
  <2>2. t.runs = [runs EXCEPT ![n].end = next]
    BY <1>2, <1>6, <2>1 DEF Grow
  <2>3. PICK grown : grown = t.runs
    OBVIOUS
  <2>4. \A k \in 1..n : runs[k] \in RunOf(F, G)
    BY <1>4, <2>1
  <2>5. /\ Len(grown) = n
        /\ \A k \in 1..n : grown[k].family = runs[k].family /\ grown[k].start = runs[k].start
        /\ \A k \in 1..n - 1 : grown[k].end = runs[k].end
    <3>1. n \in 1..n /\ DOMAIN runs = 1..n
      BY <1>4, <2>1
    <3>2. \A k \in 1..n : grown[k] = IF k = n THEN [runs[n] EXCEPT !.end = next] ELSE runs[k]
      BY <2>2, <2>3, <3>1
    <3>3. \A k \in 1..n : grown[k].family = runs[k].family /\ grown[k].start = runs[k].start
      BY <2>4, <3>1, <3>2 DEF RunOf
    <3>4. Len(grown) = n
      BY <1>4, <2>1, <2>2, <2>3, <3>1
    <3>. QED  BY <3>2, <3>3, <3>4
  <2>6. /\ \A k \in 1..n : runs[k].start \in Int /\ runs[k].end \in Int /\ runs[k].end <= EndOf(runs)
        /\ EndOf(runs) = o[i] /\ runs[n].end = o[i] /\ o[i] \in Nat
    <3>1. \A k \in 1..n : runs[k].start \in Int /\ runs[k].end \in Int /\ runs[k].end <= EndOf(runs)
      BY <1>4, <2>1, EndsInOrder
    <3>2. EndOf(runs) = o[i] /\ runs[n].end = o[i]
      BY <1>1, <1>6, <2>1 DEF Walked, EndOf
    <3>3. o[i] \in Nat
      BY DEF Apart
    <3>. QED  BY <3>1, <3>2, <3>3
  <2>7. /\ \A m \in 1..i, k \in 1..n : Holds(runs[k], o[m - 1]) => DrawsAt(c, text, runs[k].family, m)
        /\ runs[n].family = s.lastFamily
    BY <1>1, <1>6, <2>1 DEF Drawn
  <2>8. ASSUME NEW m \in 1..i + 1, NEW k \in 1..n, Holds(grown[k], o[m - 1])
        PROVE  DrawsAt(c, text, grown[k].family, m)
    <3>1. CASE m \in 1..i
      <4>1. o[m - 1] < o[i]
        BY <3>1 DEF Apart
      <4>2. Holds(runs[k], o[m - 1])
        <5>1. CASE k = n
          BY <2>5, <2>6, <2>8, <4>1, <5>1 DEF Holds
        <5>2. CASE k # n
          <6>1. k \in 1..n - 1
            BY <5>2
          <6>. QED  BY <2>5, <2>8, <6>1 DEF Holds
        <5>. QED  BY <5>1, <5>2
      <4>. QED  BY <2>5, <2>7, <3>1, <4>2
    <3>2. CASE m = i + 1
      <4>1. o[m - 1] = o[i]
        BY <3>2
      <4>2. k = n
        <5>1. ASSUME k \in 1..n - 1 PROVE FALSE
          <6>1. grown[k].end <= o[i] /\ o[i] < grown[k].end /\ grown[k].end \in Int
            BY <2>5, <2>6, <2>8, <4>1, <5>1 DEF Holds
          <6>. QED  BY <2>6, <6>1
        <5>. QED  BY <5>1
      <4>. QED  BY <1>1, <1>6, <2>5, <2>7, <3>2, <4>2
    <3>. QED  BY <1>3, <3>1, <3>2
  <2>9. t.prevCh = text[i + 1] /\ grown[n].family = t.lastFamily
    BY <1>1, <1>2, <2>5, <2>7
  <2>. QED  BY <1>1, <2>3, <2>5, <2>8, <2>9 DEF Drawn
<1>. QED  BY <1>5, <1>6

(* The runs of given are those of runs, if not so long.                    *)
Narrower(given, runs) ==
  \A k \in 1..Len(given) : /\ k \in 1..Len(runs)
                           /\ given[k].family = runs[k].family /\ given[k].start = runs[k].start
                           /\ given[k].end <= runs[k].end

LEMMA GivingUpNarrows ==
  ASSUME NEW F, NEW G, NEW runs \in Seq(RunOf(F, G)), NEW ch, Len(runs) # 0
  PROVE  Narrower(GiveUp(runs, ch), runs)
<1>1. PICK n \in Nat \ {0} : n = Len(runs) /\ runs # << >>
  OBVIOUS
<1>2. PICK front, d : front = Front(runs) /\ d = U16_LENGTH(ch) /\ d \in 1..2
  BY DEF U16_LENGTH
<1>3. front \in Seq(RunOf(F, G)) /\ Len(front) = n - 1 /\ \A k \in 1..n - 1 : front[k] = runs[k]
  BY <1>1, <1>2, FrontOf
<1>4. \A k \in 1..n : runs[k] \in RunOf(F, G) /\ runs[k].end \in Int
  <2>1. \A k \in 1..n : runs[k] \in RunOf(F, G)
    BY <1>1
  <2>. QED  BY <2>1 DEF RunOf
<1>5. PICK r : r = [runs[n] EXCEPT !.end = @ - d]
  OBVIOUS
<1>6. r \in RunOf(F, G) /\ r.family = runs[n].family /\ r.start = runs[n].start /\ r.end <= runs[n].end
  <2>1. PICK last \in RunOf(F, G) : last = runs[n]
    BY <1>4
  <2>2. r = [last EXCEPT !.end = @ - d]
    BY <1>5, <2>1
  <2>3. last.end \in Int /\ last.end - d \in Int /\ last.end - d <= last.end
    BY <1>2 DEF RunOf
  <2>4. r.end = last.end - d /\ r.family = last.family /\ r.start = last.start
    BY <2>2 DEF RunOf
  <2>5. r \in RunOf(F, G)
    BY <2>2, <2>3 DEF RunOf
  <2>. QED  BY <2>1, <2>3, <2>4, <2>5
<1>7. GiveUp(runs, ch) = front \/ GiveUp(runs, ch) = Append(front, r)
  BY <1>1, <1>2, <1>5 DEF GiveUp, Last
<1>8. Narrower(front, runs)
  <2>1. \A k \in 1..n - 1 : k \in 1..n
    OBVIOUS
  <2>2. \A k \in 1..n : runs[k].end <= runs[k].end
    BY <1>4
  <2>3. \A k \in 1..n - 1 : /\ k \in 1..n
                            /\ front[k].family = runs[k].family /\ front[k].start = runs[k].start
                            /\ front[k].end <= runs[k].end
    BY <1>3, <2>1, <2>2
  <2>4. Len(front) = n - 1 /\ Len(runs) = n
    BY <1>1, <1>3
  <2>. QED  BY <2>3, <2>4 DEF Narrower
<1>9. Narrower(Append(front, r), runs)
  <2>1. PICK given : given = Append(front, r)
    OBVIOUS
  <2>2. /\ Len(given) = n
        /\ \A k \in 1..n : given[k] = IF k = n THEN r ELSE front[k]
    BY <1>3, <1>6, <2>1
  <2>3. \A k \in 1..n : k = n \/ k \in 1..n - 1
    OBVIOUS
  <2>4. \A k \in 1..n : /\ given[k].family = runs[k].family /\ given[k].start = runs[k].start
                       /\ given[k].end <= runs[k].end
    BY <1>3, <1>4, <1>6, <2>2, <2>3
  <2>. QED  BY <1>1, <2>1, <2>2, <2>4 DEF Narrower
<1>. QED  BY <1>7, <1>8, <1>9

Adds(grown, runs, start) ==
  /\ Len(grown) = Len(runs) + 1 /\ grown[Len(grown)].start = start
  /\ \A k \in 1..Len(runs) : grown[k] = runs[k]

LEMMA NextRunAdds ==
  ASSUME NEW F, NEW G, NEW runs \in Seq(RunOf(F, G)), NEW run \in RunOf(F, G), NEW next \in Int
  PROVE  Adds(Grow(Append(runs, run), next), runs, run.start)
<1>1. PICK more, n : more = Append(runs, run) /\ n = Len(runs) + 1
  OBVIOUS
<1>2. /\ more \in Seq(RunOf(F, G)) /\ Len(more) = n /\ n \in 1..n /\ more # << >> /\ more[n] = run
      /\ \A k \in 1..Len(runs) : k \in 1..n /\ k # n /\ more[k] = runs[k]
  BY <1>1
<1>3. Grow(more, next) = [more EXCEPT ![n].end = next]
  BY <1>2 DEF Grow
<1>4. /\ Len(Grow(more, next)) = n
      /\ \A k \in 1..Len(runs) : Grow(more, next)[k] = runs[k]
  BY <1>2, <1>3
<1>5. Grow(more, next)[n].start = run.start
  <2>1. Grow(more, next)[n] = [run EXCEPT !.end = next]
    BY <1>2, <1>3
  <2>. QED  BY <2>1 DEF RunOf
<1>. QED  BY <1>1, <1>4, <1>5 DEF Adds

LEMMA BeginningDraws ==
  ASSUME NEW c, NEW text, NEW o, NEW i \in Nat, NEW F, NEW G, NEW s, NEW family \in F, NEW runMax,
         Walked(F, G, s), s.pos = o[i], Apart(text, o, i), Drawn(c, text, o, s, i),
         family # 0, getClosestMatch(c.mFamilies[family], WantedStyle) \in G,
         DrawsAt(c, text, family, i + 1)
  PROVE  Drawn(c, text, o,
               Pass(s, text[i + 1], family, Begin(c, s, family, Attaches(c, s, text[i + 1], family)), runMax),
               i + 1)
<1> DEFINE attach == Attaches(c, s, text[i + 1], family)
           Begins(given, start) ==
             /\ Tiles(given) /\ EndOf(given) = start /\ start <= s.pos
             /\ Begin(c, s, family, attach) = Append(given, NewRun(c, family, start, 0))
             /\ Narrower(given, s.runs)
             /\ \A m \in 1..i : start <= o[m - 1] => DrawsAt(c, text, family, m)
<1>1. PICK ch, next, t : /\ ch = text[i + 1] /\ next = s.pos + U16_LENGTH(ch)
                         /\ t = Pass(s, ch, family, Begin(c, s, family, attach), runMax)
  OBVIOUS
<1>2. t.runs = Grow(Begin(c, s, family, attach), next) /\ t.prevCh = ch /\ t.lastFamily = family
  BY <1>1 DEF Pass
<1>3. \A m : m \in 1..i + 1 <=> m = i + 1 \/ m \in 1..i
  OBVIOUS
<1>4. /\ s.runs \in Seq(RunOf(F, G)) /\ Tiles(s.runs) /\ s.pos \in Nat /\ s.pos = o[i]
      /\ next \in Int /\ s.pos < next /\ \A m \in 0..i : o[m] \in Nat
  <2>1. s.runs \in Seq(RunOf(F, G)) /\ Tiles(s.runs) /\ s.pos \in Nat
    BY DEF Walked
  <2>2. U16_LENGTH(ch) \in 1..2
    BY DEF U16_LENGTH
  <2>3. \A m \in 0..i : o[m] \in Nat
    BY DEF Apart
  <2>. QED  BY <1>1, <2>1, <2>2, <2>3
<1>5. \E given \in Seq(RunOf(F, G)), start \in Int : Begins(given, start)
  <2>1. CASE Len(s.runs) = 0
    <3>1. s.lastFamily = 0 /\ s.runs = << >> /\ Begin(c, s, family, attach) = <<NewRun(c, family, 0, 0)>>
      BY <2>1 DEF Walked, Begin
    <3>2. /\ Append(<< >>, NewRun(c, family, 0, 0)) = <<NewRun(c, family, 0, 0)>>
          /\ << >> \in Seq(RunOf(F, G)) /\ Len(<< >>) = 0
      OBVIOUS
    <3>3. Tiles(<< >>) /\ EndOf(<< >>) = 0 /\ Narrower(<< >>, s.runs)
      BY <3>2 DEF Tiles, EndOf, Narrower
    <3>4. \A m \in 1..i : DrawsAt(c, text, family, m)
      BY <2>1 DEF Drawn, DrawsAt
    <3>5. Begins(<< >>, 0) /\ 0 \in Int
      BY <1>4, <3>1, <3>2, <3>3, <3>4
    <3> HIDE DEF Begins
    <3>. QED  BY <3>2, <3>5, Zenon
  <2>2. CASE Len(s.runs) # 0 /\ ~attach
    <3>1. /\ Begin(c, s, family, attach) = Append(s.runs, NewRun(c, family, s.pos, 0))
          /\ EndOf(s.runs) = s.pos
      BY <2>2 DEF Walked, Begin
    <3>2. Narrower(s.runs, s.runs)
      <4>1. \A k \in 1..Len(s.runs) : s.runs[k].end \in Int
        BY <1>4, EndsInOrder
      <4>. QED  BY <4>1 DEF Narrower
    <3>3. \A m \in 1..i : ~(s.pos <= o[m - 1])
      <4> SUFFICES ASSUME NEW m \in 1..i PROVE ~(s.pos <= o[m - 1])
        OBVIOUS
      <4>1. o[m - 1] < o[i] /\ m - 1 \in 0..i
        BY DEF Apart
      <4>. QED  BY <1>4, <4>1
    <3>4. Begins(s.runs, s.pos)
      BY <1>4, <3>1, <3>2, <3>3
    <3> HIDE DEF Begins
    <3>. QED  BY <1>4, <3>4
  <2>3. CASE Len(s.runs) # 0 /\ attach
    <3>1. i # 0 /\ s.prevCh = text[i] /\ covers(c.mFamilies[family], text[i])
      BY <1>4, <2>3 DEF Attaches, Drawn, Apart
    <3> DEFINE from == s.pos - U16_LENGTH(s.prevCh)
               left == GiveUp(s.runs, s.prevCh)
    <3>2. Begin(c, s, family, attach) = Append(left, NewRun(c, family, from, 0))
      BY <2>3 DEF Walked, Begin
    <3>3. from \in Int /\ from <= s.pos /\ from = o[i - 1]
      BY <1>4, <3>1 DEF U16_LENGTH, Apart
    <3>4. left \in Seq(RunOf(F, G)) /\ Tiles(left) /\ EndOf(left) = from
      BY <2>3, GivingUpTiles DEF Walked
    <3>5. Narrower(left, s.runs)
      BY <1>4, <2>3, GivingUpNarrows
    <3>6. \A m \in 1..i : from <= o[m - 1] => DrawsAt(c, text, family, m)
      <4> SUFFICES ASSUME NEW m \in 1..i, from <= o[m - 1] PROVE DrawsAt(c, text, family, m)
        OBVIOUS
      <4>1. m - 1 \in 0..i /\ (m # i => m \in 1..i - 1) /\ i - 1 \in 0..i
        BY <3>1
      <4>2. ASSUME m # i PROVE FALSE
        <5>1. o[m - 1] < o[i - 1]
          BY <4>1, <4>2 DEF Apart
        <5>. QED  BY <1>4, <3>3, <4>1, <5>1
      <4>3. m = i
        BY <4>2
      <4>. QED  BY <3>1, <4>3 DEF DrawsAt, CanDraw
    <3> HIDE DEF from, left
    <3>7. Begins(left, from)
      BY <3>2, <3>3, <3>4, <3>5, <3>6
    <3> HIDE DEF Begins
    <3>. QED  BY <3>3, <3>4, <3>7
  <2>. QED  BY <2>1, <2>2, <2>3
<1>6. PICK given \in Seq(RunOf(F, G)), start \in Int : Begins(given, start)
  BY <1>5
<1>7. PICK run \in RunOf(F, G) : run = NewRun(c, family, start, 0) /\ run.start = start /\ run.family = family
  <2>1. PICK font \in G : font = getClosestMatch(c.mFamilies[family], WantedStyle)
    OBVIOUS
  <2>2. NewRun(c, family, start, 0) = [family |-> family, start |-> start, end |-> 0, font |-> font]
    BY <2>1 DEF NewRun
  <2>3. [family |-> family, start |-> start, end |-> 0, font |-> font] \in RunOf(F, G)
    BY DEF RunOf
  <2>. QED  BY <2>2, <2>3
<1>8. PICK n \in Nat : n = Len(given)
  OBVIOUS
<1>9. PICK grown : grown = Grow(Append(given, run), next)
  OBVIOUS
<1>10. grown = t.runs
  BY <1>2, <1>6, <1>7, <1>9
<1>11. /\ Len(grown) = n + 1 /\ grown[n + 1].start = start
       /\ \A k \in 1..n : grown[k] = given[k]
  <2>1. next \in Int
    BY <1>4
  <2> HIDE DEF Begins, attach
  <2>2. Adds(grown, given, run.start)
    BY <1>9, <2>1, NextRunAdds
  <2>. QED  BY <1>7, <1>8, <2>2 DEF Adds
<1>12. grown[n + 1].family = family
  <2>1. PICK more : more = Append(given, run)
    OBVIOUS
  <2>2. /\ more \in Seq(RunOf(F, G)) /\ Len(more) = n + 1 /\ more # << >> /\ more[n + 1] = run
        /\ n + 1 \in DOMAIN more
    BY <1>8, <2>1
  <2>3. grown = [more EXCEPT ![n + 1].end = next]
    BY <1>9, <2>1, <2>2 DEF Grow
  <2>4. grown[n + 1] = [run EXCEPT !.end = next]
    BY <2>2, <2>3
  <2>. QED  BY <1>7, <2>4 DEF RunOf
<1>13. \A k \in 1..n : /\ k \in 1..Len(s.runs) /\ given[k].family = s.runs[k].family
                      /\ given[k].start = s.runs[k].start /\ given[k].end <= s.runs[k].end
  BY <1>6, <1>8 DEF Narrower
<1>14. \A k \in 1..n : given[k].end \in Int /\ given[k].end <= start
  BY <1>6, <1>8, EndsInOrder
<1>15. \A k \in 1..Len(s.runs) : s.runs[k].end \in Int
  BY <1>4, EndsInOrder
<1>16. ASSUME NEW m \in 1..i + 1, NEW k \in 1..n + 1, Holds(grown[k], o[m - 1])
       PROVE  DrawsAt(c, text, grown[k].family, m)
  <2>1. o[m - 1] \in Nat
    <3>1. m - 1 \in 0..i
      OBVIOUS
    <3>. QED  BY <1>4, <3>1
  <2>2. CASE k = n + 1
    <3>1. start <= o[m - 1]
      BY <1>11, <1>16, <2>2 DEF Holds
    <3>2. DrawsAt(c, text, family, m)
      BY <1>3, <1>6, <3>1
    <3>. QED  BY <1>12, <2>2, <3>2
  <2>3. CASE k \in 1..n
    <3>1. given[k].start <= o[m - 1] /\ o[m - 1] < given[k].end
      BY <1>11, <1>16, <2>3 DEF Holds
    <3>2. Holds(s.runs[k], o[m - 1]) /\ k \in 1..Len(s.runs)
      BY <1>13, <1>14, <1>15, <2>1, <2>3, <3>1 DEF Holds
    <3>3. m \in 1..i
      <4>1. ASSUME m = i + 1 PROVE FALSE
        <5>1. o[m - 1] = s.pos /\ start <= s.pos
          BY <1>4, <1>6, <4>1
        <5>. QED  BY <1>4, <1>14, <2>3, <3>1, <5>1
      <4>. QED  BY <1>3, <4>1
    <3>4. DrawsAt(c, text, s.runs[k].family, m)
      BY <3>2, <3>3 DEF Drawn
    <3>. QED  BY <1>11, <1>13, <2>3, <3>4
  <2>. QED  BY <2>2, <2>3
<1>17. Len(grown) # 0 /\ grown[Len(grown)].family = t.lastFamily /\ t.prevCh = text[i + 1]
  BY <1>1, <1>2, <1>11, <1>12
<1> HIDE DEF Begins, attach
<1>18. Drawn(c, text, o, t, i + 1)
  BY <1>10, <1>11, <1>16, <1>17 DEF Drawn
<1>. QED  BY <1>1, <1>18 DEF attach

LEMMA SeeingDraws ==
  ASSUME NEW c, NEW text, NEW o, NEW i \in Nat, NEW F, NEW G, NEW s, NEW family \in F, NEW runMax,
         Walked(F, G, s), s.pos = o[i], Apart(text, o, i), Drawn(c, text, o, s, i),
         family # 0, getClosestMatch(c.mFamilies[family], WantedStyle) \in G,
         DrawsAt(c, text, family, i + 1)
  PROVE  Drawn(c, text, o, See(c, s, text[i + 1], family, runMax), i + 1)
<1> DEFINE passes == Continues(c, s.lastFamily, text[i + 1]) \/ (s.pos # 0 /\ family = s.lastFamily)
<1>1. CASE passes
  <2>1. See(c, s, text[i + 1], family, runMax) = Pass(s, text[i + 1], s.lastFamily, s.runs, runMax)
    BY <1>1 DEF See
  <2>2. s.lastFamily = 0 <=> Len(s.runs) = 0
    BY DEF Walked
  <2>3. CASE s.lastFamily = 0
    <3>1. ~Needs(c, text[i + 1])
      BY <1>1, <2>3 DEF Continues, Needs
    <3>. QED  BY <2>1, <2>2, <2>3, <3>1, PassingDraws
  <2>4. CASE s.lastFamily # 0
    <3>1. DrawsAt(c, text, s.lastFamily, i + 1)
      BY <1>1, <2>4 DEF Continues, DrawsAt, Needs, CanDraw
    <3>. QED  BY <2>1, <2>2, <2>4, <3>1, PassingDraws
  <2>. QED  BY <2>3, <2>4
<1>2. CASE ~passes
  <2>1. See(c, s, text[i + 1], family, runMax)
        = Pass(s, text[i + 1], family, Begin(c, s, family, Attaches(c, s, text[i + 1], family)), runMax)
    BY <1>2 DEF See
  <2>. QED  BY <2>1, BeginningDraws
<1>. QED  BY <1>1, <1>2

(* The walk that is never stopped draws all it has seen.                   *)
LEMMA WalkDraws ==
  ASSUME NEW c, NEW text, NEW locales, NEW variant, NEW n \in Nat, NEW F, NEW G, NEW f, NEW o,
         DrawsWith(F, G, c, text, locales, variant, n),
         IsSeen(c, text, locales, variant, n, n, f),
         IsOffset(text, n, o),
         \A i \in 1..n : DrawsAt(c, text, getFamilyForChar(c, text[i], VsBehind(text, i), locales, variant), i)
  PROVE  \A i \in 0..n : Drawn(c, text, o, f[i], i)
<1> DEFINE Good(i) == Drawn(c, text, o, f[i], i)
           bad == {i \in 0..n : ~Good(i)}
<1>1. /\ f[0] = NothingSeen
      /\ \A i \in 1..n : f[i] = SeeNext(c, f[i - 1], text, i, locales, variant, n)
  BY DEF IsSeen
<1>2. \A i \in 0..n : Walked(F, G, f[i]) /\ ~f[i].done /\ f[i].pos = o[i]
  BY WalkIsWalked
<1>3. \A i \in 0..n : Apart(text, o, i)
  BY OffsetsApart
<1>4. bad = {}
  <2>1. SUFFICES ASSUME bad # {} PROVE FALSE
    OBVIOUS
  <2>2. PICK i \in bad : \A y \in bad : i <= y
    BY <2>1, LeastExists, bad \in SUBSET Nat
  <2>3. CASE i = 0
    <3>1. NothingSeen.runs = << >> /\ Len(<< >>) = 0
      BY DEF NothingSeen
    <3>2. Drawn(c, text, o, NothingSeen, 0)
      BY <3>1 DEF Drawn
    <3>. QED  BY <1>1, <2>2, <2>3, <3>2
  <2>4. CASE i # 0
    <3>1. PICK j \in Nat : j = i - 1 /\ i = j + 1 /\ i \in 1..n /\ j \in 0..n /\ j \notin bad
      BY <2>2, <2>4
    <3>2. PICK s : s = f[j]
      OBVIOUS
    <3>3. Walked(F, G, s) /\ ~s.done /\ s.pos = o[j] /\ Apart(text, o, j) /\ Drawn(c, text, o, s, j)
      BY <1>2, <1>3, <3>1, <3>2
    <3>4. PICK family \in F : /\ family = getFamilyForChar(c, text[i], VsBehind(text, i), locales, variant)
                              /\ family # 0
                              /\ getClosestMatch(c.mFamilies[family], WantedStyle) \in G
      BY <3>1 DEF DrawsWith
    <3>5. DrawsAt(c, text, family, j + 1)
      BY <3>1, <3>4
    <3>6. f[i] = See(c, s, text[j + 1], family, n)
      BY <1>1, <3>1, <3>2, <3>3, <3>4 DEF SeeNext
    <3> HIDE DEF Good, bad
    <3>7. Drawn(c, text, o, See(c, s, text[j + 1], family, n), j + 1)
      BY <3>3, <3>4, <3>5, SeeingDraws
    <3>8. Good(i)
      BY <3>1, <3>6, <3>7 DEF Good
    <3>. QED  BY <2>2, <3>8 DEF bad
  <2>. QED  BY <2>3, <2>4
<1>. QED  BY <1>4

(* What FirstOf keeps is the beginning of what it is given.                *)
Begins(S, kept, runs) ==
  /\ kept \in Seq(S)
  /\ \A k \in DOMAIN kept : k \in 1..Len(runs) /\ kept[k] = runs[k]

LEMMA FirstOfAll ==
  ASSUME NEW S, NEW runs \in Seq(S), NEW runMax \in Nat
  PROVE  Begins(S, FirstOf(runs, runMax), runs)
<1>1. PICK m \in 0..Len(runs) : FirstOf(runs, runMax) = SubSeq(runs, 1, m)
  <2>1. PICK l \in Int : l = Len(runs) /\ l \in Nat
    OBVIOUS
  <2>2. PICK max \in Int : max = runMax /\ max \in Nat
    OBVIOUS
  <2>3. Min({l, max}) = IF l <= max THEN l ELSE max
    BY LesserOfTwo
  <2>4. Min({l, max}) \in 0..l
    BY <2>1, <2>2, <2>3
  <2>. QED  BY <2>1, <2>2, <2>4 DEF FirstOf
<1>2. /\ SubSeq(runs, 1, m) \in Seq(S) /\ DOMAIN SubSeq(runs, 1, m) = 1..m
      /\ \A k \in 1..m : SubSeq(runs, 1, m)[k] = runs[k]
  OBVIOUS
<1>3. m \in Nat /\ m <= Len(runs) /\ Len(runs) \in Nat
  OBVIOUS
<1>. QED  BY <1>1, <1>2, <1>3 DEF Begins

(* The runs itemize returns draw the characters that need a font.          *)
LEMMA ItemizeDraws ==
  ASSUME NEW c, NEW text \in Seq(Nat), NEW locales, NEW variant, NEW runMax \in Nat,
         \A i \in 1..Len(text) :
            DrawsAt(c, text, getFamilyForChar(c, text[i], VsBehind(text, i), locales, variant), i)
  PROVE  LET runs == itemize(c, text, locales, variant, runMax)
         IN \A m \in 1..Len(text), k \in DOMAIN runs :
               Holds(runs[k], Offset(text, m - 1)) => DrawsAt(c, text, runs[k].family, m)
<1>1. PICK n \in Nat : n = Len(text) /\ (n = 0 <=> text = << >>)
  OBVIOUS
<1> DEFINE family(i) == getFamilyForChar(c, text[i], VsBehind(text, i), locales, variant)
           F == {family(i) : i \in 1..n}
           G == {getClosestMatch(c.mFamilies[j], WantedStyle) : j \in F}
<1>2. PICK f : IsSeen(c, text, locales, variant, n, n, f) /\ Seen(c, text, locales, variant, n) = f[n]
  <2> DEFINE h == CHOOSE h : h = [i \in 0..n |-> IF i = 0 THEN NothingSeen
                                               ELSE SeeNext(c, h[i - 1], text, i, locales, variant, n)]
  <2>1. \E e : IsSeen(c, text, locales, variant, n, n, e)
    BY SeenExists
  <2>2. IsSeen(c, text, locales, variant, n, n, h)
    BY <2>1 DEF IsSeen
  <2>. QED  BY <1>1, <2>2 DEF Seen
<1>3. PICK o : IsOffset(text, n, o) /\ \A k : Offset(text, k) = o[k]
  <2> DEFINE h == CHOOSE h : h = [k \in 0..n |-> IF k = 0 THEN 0 ELSE h[k - 1] + U16_LENGTH(text[k])]
  <2>1. \E e : IsOffset(text, n, e)
    BY OffsetExists
  <2>2. IsOffset(text, n, h)
    BY <2>1 DEF IsOffset
  <2>. QED  BY <1>1, <2>2 DEF Offset
<1>4. DrawsWith(F, G, c, text, locales, variant, n)
  <2>1. ASSUME NEW i \in 1..n PROVE family(i) # 0
    BY DEF getFamilyForChar, OrFirst
  <2>2. ASSUME NEW i \in 1..n
        PROVE  family(i) \in F /\ getClosestMatch(c.mFamilies[family(i)], WantedStyle) \in G
    OBVIOUS
  <2>. QED  BY <2>1, <2>2 DEF DrawsWith
<1>5. \A i \in 1..n : DrawsAt(c, text, getFamilyForChar(c, text[i], VsBehind(text, i), locales, variant), i)
  BY <1>1
<1> HIDE DEF F, G, family
<1>6. PICK s : s = f[n]
  OBVIOUS
<1>7. Drawn(c, text, o, s, n) /\ Walked(F, G, s)
  <2>1. \A i \in 0..n : Drawn(c, text, o, f[i], i)
    BY <1>2, <1>3, <1>4, <1>5, WalkDraws
  <2>2. \A i \in 0..n : Walked(F, G, f[i])
    BY <1>2, <1>3, <1>4, WalkIsWalked
  <2>. QED  BY <1>6, <2>1, <2>2
<1>8. PICK all, runs : /\ all = itemize(c, text, locales, variant, n)
                       /\ runs = itemize(c, text, locales, variant, runMax)
  OBVIOUS
<1>9. /\ all = FirstOf(Runs(c, text, s), n)
      /\ runs = FirstOf(all, runMax)
  <2>1. all = FirstOf(Runs(c, text, s), n)
    BY <1>2, <1>6, <1>8 DEF itemize
  <2>2. TileAndBegin(all, runs, runMax, Offset(text, n))
    BY <1>1, <1>8, ItemizeTiles
  <2>. QED  BY <2>1, <2>2 DEF TileAndBegin, FirstOf
<1>10. CASE s.lastFamily # 0 \/ n = 0
  <2>1. Runs(c, text, s) = s.runs /\ s.runs \in Seq(RunOf(F, G))
    BY <1>1, <1>7, <1>10 DEF Runs, Walked
  <2>2. /\ all \in Seq(RunOf(F, G))
        /\ \A k \in DOMAIN all : k \in 1..Len(s.runs) /\ all[k] = s.runs[k]
    <3>1. Begins(RunOf(F, G), FirstOf(s.runs, n), s.runs)
      BY <1>1, <2>1, FirstOfAll
    <3>. QED  BY <1>9, <2>1, <3>1 DEF Begins
  <2>3. \A k \in DOMAIN runs : k \in 1..Len(all) /\ runs[k] = all[k]
    <3>1. Begins(RunOf(F, G), FirstOf(all, runMax), all)
      BY <2>2, FirstOfAll
    <3>. QED  BY <1>9, <3>1 DEF Begins
  <2>4. \A k \in DOMAIN runs : k \in 1..Len(s.runs) /\ runs[k] = s.runs[k]
    BY <2>2, <2>3
  <2>5. \A m \in 1..n, k \in DOMAIN runs :
           Holds(runs[k], o[m - 1]) => DrawsAt(c, text, runs[k].family, m)
    BY <1>7, <2>4 DEF Drawn
  <2>. QED  BY <1>1, <1>3, <1>8, <2>5
<1>11. CASE s.lastFamily = 0 /\ n # 0
  <2>1. \A m \in 1..n : ~Needs(c, text[m])
    BY <1>7, <1>11 DEF Drawn, Walked
  <2>. QED  BY <1>1, <2>1 DEF DrawsAt
<1>. QED  BY <1>10, <1>11

(* What was asked is one of the texts, for one of the lists of locales.    *)
AskedWell ==
  asked # NothingAsked => asked.text \in Texts /\ asked.locales \in WantedLocales

LEMMA AskedWellHolds == Spec => []AskedWell
<1>1. Init => AskedWell
  BY DEF Init, AskedWell
<1>2. AskedWell /\ AskedOfIt /\ [Next]_vars => AskedWell'
  <2> SUFFICES ASSUME AskedWell, AskedOfIt, [Next]_vars PROVE AskedWell'
    OBVIOUS
  <2>1. ASSUME NEW def \in FamilyDefs, Open(def) PROVE AskedWell'
    BY <2>1 DEF Open, AskedWell
  <2>2. CASE Create
    <3>1. asked = NothingAsked /\ asked' = asked
      BY <2>2 DEF Create, AskedOfIt
    <3>. QED  BY <3>1 DEF AskedWell
  <2>3. ASSUME NEW text \in Texts, NEW locales \in WantedLocales, NEW variant \in WantedVariants,
               NEW runMax \in {1, Len(text)}, Itemize(text, locales, variant, runMax)
        PROVE  AskedWell'
    <3>1. /\ asked = NothingAsked /\ collection' = collection
          /\ asked'.text = text /\ asked'.locales = locales
      BY <2>3 DEF Itemize
    <3>. QED  BY <3>1 DEF AskedWell
  <2>4. ASSUME NEW variations \in Variations, Vary(variations) PROVE AskedWell'
    <3>1. asked = NothingAsked /\ asked' = asked
      BY <2>4 DEF Vary
    <3>. QED  BY <3>1 DEF AskedWell
  <2>5. CASE UNCHANGED vars
    BY <2>5 DEF vars, AskedWell
  <2>. QED  BY <2>1, <2>2, <2>3, <2>4, <2>5 DEF Next
<1>. QED  BY <1>1, <1>2, AskedOfItHolds, PTL DEF Spec

(* A character that needs a font and that some family covers is in a run   *)
(* whose family supports it, wherever marks, sticky punctuation and        *)
(* modifiers have moved it (itemize).                                      *)
THEOREM CoveredIsDrawn == Spec => []DrawnIfCovered
<1>1. AreLists /\ AskedOfIt /\ AskedWell => DrawnIfCovered
  <2> SUFFICES ASSUME AreLists, AskedOfIt, AskedWell, NEW c \in collection, asked # NothingAsked,
                      NEW i \in DOMAIN asked.text, NEW k \in DOMAIN asked.runs,
                      Holds(asked.runs[k], Offset(asked.text, i - 1)), Needs(c, asked.text[i])
               PROVE  CanDraw(c, asked.runs[k].family, asked.text[i], VsBehind(asked.text, i))
    BY DEF DrawnIfCovered, Holds, Needs
  <2>1. PICK text, locales, variant, runMax :
          text = asked.text /\ locales = asked.locales /\ variant = asked.variant /\ runMax = asked.runMax
    OBVIOUS
  <2>2. /\ text \in Seq(Nat) /\ runMax \in Nat /\ text \in Texts /\ locales \in WantedLocales
        /\ asked.runs = itemize(c, text, locales, variant, runMax) /\ ListsItsFamilies(c)
    BY <2>1, CollectionLists DEF AskedOfIt, AskedWell
  <2>3. PICK n \in Nat : DOMAIN c.mFamilies = 1..n
    BY CollectionLists
  <2>4. /\ Len(locales) \in 0..FONT_LOCALE_LIMIT /\ DOMAIN locales = 1..Len(locales)
        /\ \A m \in 1..Len(text) : text[m] <= kMaxCodePoint \/ isVariationSelector(text[m])
    BY <2>2, FontsAssumption
  <2>5. ASSUME NEW m \in 1..Len(text), Needs(c, text[m])
        PROVE  CanDraw(c, getFamilyForChar(c, text[m], VsBehind(text, m), locales, variant),
                       text[m], VsBehind(text, m))
    <3>0. PICK vs : vs = VsBehind(text, m)
      OBVIOUS
    <3>1. PICK ch \in CodePoints : ch = text[m]
      <4>1. text[m] \in Nat /\ ~isVariationSelector(text[m])
        BY <2>2, <2>5 DEF Needs, doesNotNeedFontSupport
      <4>. QED  BY <2>4, <4>1, FontsAssumption DEF CodePoints
    <3>2. PICK j \in 1..n : covers(c.mFamilies[j], ch)
      BY <2>3, <2>5, <3>1 DEF Needs
    <3>3. getFamilyForChar(c, ch, vs, locales, variant) \in {l \in DOMAIN c.mFamilies : CanDraw(c, l, ch, vs)}
      BY <2>2, <2>3, <2>4, <3>2, SearchFindsTheBest
    <3>. QED  BY <3>0, <3>1, <3>3
  <2>6. \A m \in 1..Len(text) :
           DrawsAt(c, text, getFamilyForChar(c, text[m], VsBehind(text, m), locales, variant), m)
    BY <2>5 DEF DrawsAt
  <2>7. LET runs == itemize(c, text, locales, variant, runMax)
        IN \A m \in 1..Len(text), l \in DOMAIN runs :
              Holds(runs[l], Offset(text, m - 1)) => DrawsAt(c, text, runs[l].family, m)
    BY <2>2, <2>6, ItemizeDraws
  <2>8. i \in 1..Len(text) /\ k \in DOMAIN itemize(c, text, locales, variant, runMax)
    BY <2>1, <2>2
  <2>. QED  BY <2>1, <2>2, <2>7, <2>8 DEF DrawsAt
<1>. QED  BY <1>1, AreListsHolds, AskedOfItHolds, AskedWellHolds, PTL

=============================================================================
