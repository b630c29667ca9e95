--------------------------- MODULE MCHyphenatorMap ---------------------------
(***************************************************************************)
(* As Hyphenator.java does, hyphenators are registered for a language, a   *)
(* language and region, a language and variant, and a script; and lookups  *)
(* are made for what LocaleListCache makes of locales: one that ICU has    *)
(* maximised (language, script and region present), with a variant; a      *)
(* language that ICU does not know, with and without a script and a style; *)
(* a script without a language; and the empty locale of a paint without    *)
(* locales.                                                                *)
(*                                                                         *)
(* And, on its own, the tool makes a .hyb file of up to two patterns and   *)
(* one exception over the letters a, b and A, which words are hyphenated   *)
(* with, as they are with the null file.                                   *)
(***************************************************************************)
EXTENDS HyphenatorMap, Hyphenate

L(lang, script, region, variant, style) ==
  [lang |-> lang, script |-> script, region |-> region, variant |-> variant, style |-> style]
Keys == {L("de", "", "", "", ""), L("de", "", "CH", "1901", ""), L("de", "", "", "1901", ""),
         L("und", "Ethi", "", "", "")}
Wanted == {L("de", "Latn", "CH", "1901", ""), L("xx", "", "", "", ""), L("xx", "Ethi", "", "", ""),
           L("xx", "Ethi", "", "", "emoji"), L("und", "Ethi", "", "", ""), L("", "", "", "", "")}
Locales == Keys \cup Wanted

a == 97
b == 98
A == 65
Letters == (Dot :> 0) @@ (a :> 1) @@ (A :> 1) @@ (b :> 2)
One == 49
Two == 50
Pats == {<<a, One, b>>, <<a, Two, b, a>>, <<One, a, One, b, a>>, <<Dot, a, One>>, <<b, One, a, Dot>>,
         <<a, One, a, Two>>, <<Two, b, b>>, <<One, a>>, <<b>>, <<b, Two, b, One, a>>, <<a, b, One>>,
         <<One, b, One, a, b>>, <<Two, a, b, Dot>>, <<Dot, b, One, a, b, Two>>}
Hyps == {<<a, b>>, <<a, HyphenMinus, b>>, <<b, a, HyphenMinus, a, b>>, <<a, HyphenMinus, a, HyphenMinus, b>>}

\* Units outside the alphabet, by their script.
Lower == 108        \* l
SHY == 173
MiddleDot == 183
MCHyphens == {8211}
MCScript(c) == CASE c \in {a, b, A, Lower} -> "Latn" [] c = 1576 -> "Arab" [] c = 1377 -> "Armn"
                 [] c = 3221 -> "Knda" [] OTHER -> "Zyyy"
MCJoiningType(c) == CASE c = 1576 -> "D" [] c = 1611 -> "T" [] OTHER -> "U"

Words == UNION {[1..n -> {a, b}] : n \in 1..5} \cup [1..3 -> {a, A, b}]
         \cup {<<a, A, b, A, a, b>>, <<a, b, a, b, a, b, a>>}
ForeignWords ==
    {<<1576, 1611, SHY, 1611, 1576>>, <<a, 1611, SHY, 1576>>, <<1377, SHY, 1377>>, <<a, b, SHY, a>>,
     <<a, Lower, MiddleDot, Lower, a>>, <<Lower, MiddleDot, Lower>>, <<b, a, b, 8211, a>>}
OtherWords ==
    UNION {[1..n -> {a, HyphenMinus, SHY, 1576, 3221}] : n \in 1..4}
    \cup [1..3 -> {a, 8208, 8211, 1576}] \cup ForeignWords

\* The null file and a prefix and a suffix that a file is used with.
Hyphenators(file) == {[file |-> file, minPrefix |-> p, minSuffix |-> q, locale |-> "en"] :
                         p \in {1, 2}, q \in {1, 2}}
NullHyphenators == [file : {NoFile}, minPrefix : {1, 2}, minSuffix : {1, 2}, locale : {"en", "pl", "ca"}]

\* The map and the tool run on their own.
MapIdle == mMap = [l \in Locale |-> NoHyphenator]
MapAndToolInit == Init /\ HybInit
MapAndToolNext ==
    \/ Next /\ UNCHANGED hybVars /\ patLines = <<>> /\ hypLines = <<>> /\ hyb = NoFile
    \/ HybNext /\ UNCHANGED vars /\ MapIdle
MapAndToolSpec == MapAndToolInit /\ [][MapAndToolNext]_<<vars, hybVars>>

-----------------------------------------------------------------------------
\* Letter k of a pattern's line, counted from 1, and the number behind it.
LetterAt(pat, k) == CHOOSE i \in DOMAIN pat : ~IsDigit(pat[i]) /\ Len(PatWord(SubSeq(pat, 1, i))) = k
NumberBehind(pat, k) ==
    LET i == IF k = 0 THEN 1 ELSE LetterAt(pat, k) + 1
    IN IF i <= Len(pat) /\ IsDigit(pat[i]) THEN pat[i] - 48 ELSE 0

\* The number that the lines read put at gap g of a padded word, as Liang
\* defines it: the greatest one of all patterns that occur across the gap;
\* exceptions stand above the patterns.
Codes(letters) == [i \in DOMAIN letters |-> Letters[letters[i]]]
LiangNumber(word, g) ==
    LET padded == <<0>> \o Codes(word) \o <<0>>
        Occurs(letters, o) == o + Len(letters) <= Len(padded)
                              /\ SubSeq(padded, o + 1, o + Len(letters)) = Codes(letters)
        ofPatterns == {NumberBehind(pat, g - o) : <<pat, o>> \in
                         {x \in Range(patLines) \X (0 .. g) :
                            g - x[2] <= Len(PatWord(x[1])) /\ Occurs(PatWord(x[1]), x[2])}}
        ofExceptions == {LET ends == {i \in DOMAIN hyp : hyp[i] # HyphenMinus
                                         /\ Len(SelectSeq(SubSeq(hyp, 1, i), LAMBDA c : c # HyphenMinus)) = g - 1}
                         IN IF \E i \in ends : i < Len(hyp) /\ hyp[i + 1] = HyphenMinus THEN 11 ELSE 10 :
                           hyp \in {h \in Range(hypLines) :
                                      Codes(SelectSeq(h, LAMBDA c : c # HyphenMinus)) = Codes(word)}}
    IN Max({0} \cup ofPatterns \cup ofExceptions)

\* No two lines have the same letters, and no two results the same digits.
LettersOf == [i \in DOMAIN patLines |-> PatWord(patLines[i])]
             \o [i \in DOMAIN hypLines |-> ExceptionWord(hypLines[i])]
Unambiguous ==
    /\ \A i, j \in DOMAIN LettersOf : i # j => LettersOf[i] # LettersOf[j]
    /\ \A v, w \in {x \in DOMAIN trie : trie[x] # NoRes} : Digits(trie[v]) = Digits(trie[w]) => trie[v] = trie[w]

\* A break follows a hyphen that does not begin the word, or the middle dot of
\* Catalan l.l; and no hyphen is drawn behind one that is there.
BrokenAtItsHyphens(h, word) ==
    LET types == hyphenate(h, word)
    IN \A i \in DOMAIN types : types[i] # DONT_BREAK =>
          /\ i > 1
          /\ \/ isLineBreakingHyphen(word[i]) /\ editForThisLine(types[i]) = "NO_EDIT"
             \/ word[i] = SHY
             \/ word[i] = MiddleDot /\ h.locale = "ca" /\ word[i - 1] = word[i + 1]

(* The tool accepts its file when no two lines have the same letters and no *)
(* two results the same digits; and a file it accepts, compressed and       *)
(* packed as it is, breaks every word exactly where Liang's definition, read *)
(* from the lines, has an odd number, within the prefix and the suffix      *)
(* (mk_hyb_file.py, hyphenateFromCodes).  Words with other letters, and all *)
(* words without a file, are broken at their own hyphens only.              *)
HyphenatesAsPatternsSay ==
    /\ hyb = NoFile /\ patLines = <<>> /\ hypLines = <<>> /\ MapIdle =>
        \A h \in NullHyphenators, word \in OtherWords : BrokenAtItsHyphens(h, word)
    /\ hyb # NoFile =>
        /\ \A h \in Hyphenators(hyb), word \in ForeignWords : BrokenAtItsHyphens(h, word)
        /\ Unambiguous => verify_hyb_file(hyb)
        /\ verify_hyb_file(hyb) =>
              \A h \in Hyphenators(hyb), word \in Words :
                  LET types == hyphenate(h, word)
                  IN Len(word) \in h.minPrefix + h.minSuffix .. LONGEST_HYPHENATED_WORD =>
                       \A i \in DOMAIN types :
                          types[i] = IF /\ i \in h.minPrefix .. Len(word) - h.minSuffix
                                        /\ LiangNumber(word, i + 1) % 2 = 1
                                     THEN "BREAK_AND_INSERT_HYPHEN" ELSE DONT_BREAK
=============================================================================
