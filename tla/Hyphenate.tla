----------------------------- MODULE Hyphenate -----------------------------
(***************************************************************************)
(* Hyphenating a word (Hyphenator.cpp): by the patterns of a .hyb file when *)
(* every letter is in its alphabet, or else at the hyphens it has; and the  *)
(* parts between the no-break spaces of a text (LineBreakerUtil.cpp).       *)
(*                                                                         *)
(* A word is a sequence of code units, the result a function from the      *)
(* offsets 0 .. Len(word) - 1 to hyphenation types.                        *)
(***************************************************************************)
EXTENDS HybFile

CONSTANTS
    MAX_HYPHENATED_SIZE,        \* 64 in the code
    LONGEST_HYPHENATED_WORD,    \* 45 in the code
    CHAR_SOFT_HYPHEN, CHAR_HYPHEN, CHAR_MIDDLE_DOT, CHAR_NBSP,
    OtherHyphens,   \* the other line breaking hyphens: en dash, maqaf, ...
    ScriptOf(_),    \* uscript_getScript
    JoiningType(_)  \* UCHAR_JOINING_TYPE: "D", "R", "L", "C" (causing), "T", "U"

DONT_BREAK == "DONT_BREAK"

hyphenationTypeBasedOnScript(c) ==
    CASE ScriptOf(c) = "Knda" -> "BREAK_AND_DONT_INSERT_HYPHEN"   \* and the other such scripts
      [] ScriptOf(c) = "Armn" -> "BREAK_AND_INSERT_ARMENIAN_HYPHEN"
      [] ScriptOf(c) = "Cans" -> "BREAK_AND_INSERT_UCAS_HYPHEN"
      [] OTHER                -> "BREAK_AND_INSERT_HYPHEN"

isLineBreakingHyphen(c) == c \in {HyphenMinus, CHAR_HYPHEN} \cup OtherHyphens

\* How a line ends, and how the next one begins, at a break of a type.
editForThisLine(type) ==
    CASE type = "BREAK_AND_INSERT_HYPHEN"          -> "INSERT_HYPHEN"
      [] type = "BREAK_AND_INSERT_ARMENIAN_HYPHEN" -> "INSERT_ARMENIAN_HYPHEN"
      [] type = "BREAK_AND_INSERT_UCAS_HYPHEN"     -> "INSERT_UCAS_HYPHEN"
      [] type = "BREAK_AND_REPLACE_WITH_HYPHEN"    -> "REPLACE_WITH_HYPHEN"
      [] type = "BREAK_AND_INSERT_HYPHEN_AND_ZWJ"  -> "INSERT_ZWJ_AND_HYPHEN"
      [] OTHER -> "NO_EDIT"
editForNextLine(type) ==
    CASE type = "BREAK_AND_INSERT_HYPHEN_AT_NEXT_LINE" -> "INSERT_HYPHEN"
      [] type = "BREAK_AND_INSERT_HYPHEN_AND_ZWJ"      -> "INSERT_ZWJ"
      [] OTHER -> "NO_EDIT"

-----------------------------------------------------------------------------
(***************************************************************************)
(* By the patterns of a file.                                              *)
(***************************************************************************)
\* The code of a letter, 0 when the alphabet does not have it.
CodeOf(alphabet, c) ==
    IF alphabet.version = 0
    THEN IF c < alphabet.min \/ c >= alphabet.max THEN 0 ELSE alphabet.data[c]
    ELSE LET found == SelectSeq(alphabet.entries, LAMBDA e : e[1] >= c)
         IN IF found # <<>> /\ Head(found)[1] = c THEN Head(found)[2] ELSE 0

\* The codes between two zeros, and the type of the breaks: the last script
\* that is not broken by a hyphen; DONT_BREAK when a letter has no code.
alphabetLookup(alphabet, word) ==
    IF \E i \in DOMAIN word : CodeOf(alphabet, word[i]) = 0 THEN [type |-> DONT_BREAK]
    ELSE [type |-> FoldLeft(LAMBDA t, c : IF t = "BREAK_AND_INSERT_HYPHEN"
                                          THEN hyphenationTypeBasedOnScript(c) ELSE t,
                            "BREAK_AND_INSERT_HYPHEN", word),
          codes |-> <<0>> \o [i \in DOMAIN word |-> CodeOf(alphabet, word[i])] \o <<0>>]

\* The slots of the patterns that match the codes from i on: <<end, slot>>.
\* A slot without an edge holds code 0 and leads to the root: a 0 without an
\* edge is read as one that leads there.
RECURSIVE Matches(_, _, _, _)
Matches(file, codes, j, node) ==
    IF j > Len(codes) THEN {}
    ELSE LET entry == file.trie[node + codes[j]]
         IN IF entry.ch # codes[j] THEN {}
            ELSE {<<j, entry.link>>} \cup Matches(file, codes, j + 1, entry.link)

\* The numbers of a pattern that ends at padded position j, put where they
\* stand, within the prefix and the suffix that are not broken.
MergeNumbersUnclipped(buffer, p, j, minPrefix, maxOffset) ==
    LET offset == j - (p.len + p.shift)
    IN [b \in DOMAIN buffer |->
          IF b - offset \in 0 .. p.len - 1
          THEN Max({buffer[b], p.buf[b - offset + 1]}) ELSE buffer[b]]
MergeNumbers(buffer, p, j, minPrefix, maxOffset) ==
    LET offset == j - (p.len + p.shift)
    IN [b \in DOMAIN buffer |->
          IF b - offset \in Max({minPrefix - offset, 0}) .. Min({p.len, maxOffset - offset}) - 1
          THEN Max({buffer[b], p.buf[b - offset + 1]}) ELSE buffer[b]]

hyphenateFromCodes(file, codes, hyphenValue, minPrefix, minSuffix) ==
    LET maxOffset == Len(codes) - minSuffix - 1
        matched == UNION {Matches(file, codes, i, 0) : i \in 1 .. Len(codes) - 1}
        With(buffer, m) == LET pat == file.trie[m[2]].pat
                           IN IF pat = <<>> THEN buffer
                              ELSE MergeNumbers(buffer, file.patterns[pat], m[1], minPrefix, maxOffset)
        numbers == FoldSet(LAMBDA m, buffer : With(buffer, m),
                           [b \in 0 .. Len(codes) - 3 |-> 0], matched)
    IN [b \in DOMAIN numbers |->
          IF b \in minPrefix .. maxOffset - 1 /\ numbers[b] % 2 = 1 THEN hyphenValue
          ELSE IF b \in minPrefix .. maxOffset - 1 \/ numbers[b] = 0 THEN DONT_BREAK
          ELSE "a number left in the result"]

-----------------------------------------------------------------------------
(***************************************************************************)
(* At the hyphens of the word.  In the code's words word[i] is Unit(i).    *)
(***************************************************************************)
\* Whether the letters around a soft hyphen, at offset location - 1, join.
getHyphTypeForArabic(word, location) ==
    LET After == SelectSeq(SubSeq(word, location + 1, Len(word)), LAMBDA c : JoiningType(c) # "T")
        Before == SelectSeq(SubSeq(word, 1, location - 1), LAMBDA c : JoiningType(c) # "T")
    IN IF /\ After # <<>> /\ JoiningType(Head(After)) \in {"D", "R", "C"}
          /\ Before # <<>> /\ JoiningType(Last(Before)) \in {"D", "L", "C"}
       THEN "BREAK_AND_INSERT_HYPHEN_AND_ZWJ" ELSE "BREAK_AND_INSERT_HYPHEN"

hyphenateWithNoPatterns(h, word) ==
    LET Unit(i) == word[i + 1]
        At(i) ==
            IF i = 0 THEN DONT_BREAK
            ELSE IF i > 1 /\ isLineBreakingHyphen(Unit(i - 1))
            THEN IF /\ Unit(i - 1) \in {HyphenMinus, CHAR_HYPHEN}
                    /\ h.locale \in {"pl", "sl"} /\ ScriptOf(Unit(i)) = "Latn"
                 THEN "BREAK_AND_INSERT_HYPHEN_AT_NEXT_LINE" ELSE "BREAK_AND_DONT_INSERT_HYPHEN"
            ELSE IF i > 1 /\ Unit(i - 1) = CHAR_SOFT_HYPHEN
            THEN IF ScriptOf(Unit(i)) = "Arab" THEN getHyphTypeForArabic(word, i)
                 ELSE hyphenationTypeBasedOnScript(Unit(i))
            ELSE IF /\ Unit(i - 1) = CHAR_MIDDLE_DOT
                    /\ h.minPrefix < i /\ i <= Len(word) - h.minSuffix
                    /\ Unit(i - 2) = Unit(i) /\ Unit(i) \in {76, 108}     \* l, L
                    /\ h.locale = "ca"
            THEN "BREAK_AND_REPLACE_WITH_HYPHEN"
            ELSE DONT_BREAK
    IN [i \in 0 .. Len(word) - 1 |-> At(i)]

\* A hyphenator is [file, minPrefix, minSuffix, locale]; NoFile stands for a
\* null pointer, which makes a soft hyphen only hyphenator.
hyphenateWord(h, word) ==
    LET found == alphabetLookup(h.file.alphabet, word)
    IN IF /\ h.file # NoFile /\ Len(word) >= h.minPrefix + h.minSuffix
          /\ Len(word) + 2 <= MAX_HYPHENATED_SIZE /\ found.type # DONT_BREAK
       THEN hyphenateFromCodes(h.file, found.codes, found.type, h.minPrefix, h.minSuffix)
       ELSE hyphenateWithNoPatterns(h, word)

\* The parts between no-break spaces are hyphenated, the long ones are not.
hyphenate(h, str) ==
    LET PartStart(i) == Max({0} \cup {k \in 1 .. i : str[k] = CHAR_NBSP})
        PartEnd(i) == Min({Len(str)} \cup {k - 1 : k \in {m \in i + 1 .. Len(str) : str[m] = CHAR_NBSP}})
        At(i) == LET part == SubSeq(str, PartStart(i) + 1, PartEnd(i))
                 IN IF str[i + 1] = CHAR_NBSP \/ Len(part) > LONGEST_HYPHENATED_WORD THEN DONT_BREAK
                    ELSE hyphenateWord(h, part)[i - PartStart(i)]
    IN [i \in 0 .. Len(str) - 1 |-> At(i)]

=============================================================================
