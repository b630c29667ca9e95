------------------------------- MODULE Locale -------------------------------
(***************************************************************************)
(* Locales and how well a font's locales suit a wanted one (Locale.cpp,    *)
(* Locale.h).                                                              *)
(*                                                                         *)
(* A tag is the sequence of its subtags.  A language, script or region     *)
(* code is kept as the subtag itself: the code packs its letters into      *)
(* bits, and packLanguageOrRegion and getIdentifier say how                *)
(* (FontCollectionProofs shows that packing confuses no two codes).        *)
(* mSubScriptBits is the set of its flags.                                 *)
(***************************************************************************)
EXTENDS Integers, Sequences, FiniteSets

CONSTANTS
    LanguageTags,       \* subtags of two or three lower case letters
    RegionTags          \* two upper case letters, or three digits

NO_LANGUAGE == "no language"
NO_SCRIPT   == "no script"
NO_REGION   == "no region"
NO_VARIANT  == "no variant"
EMPTY       == "empty"

-----------------------------------------------------------------------------
(***************************************************************************)
(* Packing.  A code is a sequence of two or three letters, counted from    *)
(* the base of their alphabet ('a', 'A' or '0').                           *)
(***************************************************************************)
packLanguageOrRegion(in) ==
    IF Len(in) = 2 THEN 31 * 1024 + in[1] * 32 + in[2]
    ELSE in[1] * 1024 + in[2] * 32 + in[3]

unpackLanguageOrRegion(p) ==
    LET first  == (p \div 1024) % 32
        second == (p \div 32) % 32
        third  == p % 32
    IN IF first = 31 THEN <<second, third>> ELSE <<first, second, third>>

packScript(c) == c[1] * 32768 + c[2] * 1024 + c[3] * 32 + c[4]
unpackScript(p) == <<p \div 32768, (p \div 1024) % 32, (p \div 32) % 32, p % 32>>

\* The 64 bits of an identifier: 15 of language, 20 of script, 15 of region,
\* 2 of emoji style, 2 of line break style, 10 (2 used) of variant.
getIdentifier(language, script, region, emoji, lb, variant) ==
    ((((language * 1048576 + script) * 32768 + region) * 4 + emoji) * 4 + lb) * 1024 + variant

-----------------------------------------------------------------------------
(***************************************************************************)
(* Parsing a tag.                                                          *)
(***************************************************************************)
SubScriptBits ==
    [Bopo |-> {"bopomofo"}, Hang |-> {"hangul"}, Hanb |-> {"han", "bopomofo"},
     Hani |-> {"han"}, Hans |-> {"han", "simplified"}, Hant |-> {"han", "traditional"},
     Hira |-> {"hiragana"}, Hrkt |-> {"katakana", "hiragana"},
     Jpan |-> {"han", "katakana", "hiragana"}, Kana |-> {"katakana"},
     Kore |-> {"han", "hangul"}]
OtherScripts == {"Latn", "Zsye", "Zsym"}
scriptToSubScriptBits(script) ==
    IF script \in DOMAIN SubScriptBits THEN SubScriptBits[script] ELSE {}
scriptToEmojiStyle(script) ==
    CASE script = "Zsye" -> "emoji" [] script = "Zsym" -> "text" [] OTHER -> EMPTY

Unsupported ==
    [language |-> NO_LANGUAGE, script |-> NO_SCRIPT, region |-> NO_REGION,
     variant |-> NO_VARIANT, lb |-> EMPTY, emoji |-> EMPTY, bits |-> {}]
isSupported(l) == l # Unsupported

\* The value of the first `key` subtag behind the first "u", if it is one of values.
Extension(tag, key, values) ==
    LET us == {i \in 2..Len(tag) - 1 : tag[i] = "u"}
        keys == {k \in 1..Len(tag) - 1 : tag[k] = key /\ \E i \in us : i < k}
        First(S) == CHOOSE i \in S : \A j \in S : i <= j
    IN IF keys # {} /\ tag[First(keys) + 1] \in values THEN tag[First(keys) + 1] ELSE EMPTY

\* Language, then script, region and German variant where present; a subtag
\* that is none of them sends the whole tag to the search for -u-.
Parse(tag) ==
    IF tag = <<>> \/ tag[1] \notin LanguageTags THEN Unsupported
    ELSE LET At(i, S) == IF i <= Len(tag) /\ tag[i] \in S THEN 1 ELSE 0
             s == At(2, DOMAIN SubScriptBits \cup OtherScripts)
             r == At(2 + s, RegionTags)
             v == IF tag[1] = "de" THEN At(2 + s + r, {"1901", "1996"}) ELSE 0
             script == IF s = 1 THEN tag[2] ELSE NO_SCRIPT
             more == Len(tag) > 1 + s + r + v
             em == IF more THEN Extension(tag, "em", {"emoji", "text", "default"}) ELSE EMPTY
         IN [language |-> tag[1],
             script   |-> script,
             region   |-> IF r = 1 THEN tag[2 + s] ELSE NO_REGION,
             variant  |-> IF v = 1 THEN tag[2 + s + r] ELSE NO_VARIANT,
             lb       |-> IF more THEN Extension(tag, "lb", {"loose", "normal", "strict"})
                          ELSE EMPTY,
             emoji    |-> IF em # EMPTY THEN em ELSE scriptToEmojiStyle(script),
             bits     |-> scriptToSubScriptBits(script)]

\* The tag written for HarfBuzz and ICU; it says nothing of the emoji style.
getString(l) ==
    <<IF l.language = NO_LANGUAGE THEN "und" ELSE l.language>>
    \o (IF l.script = NO_SCRIPT THEN <<>> ELSE <<l.script>>)
    \o (IF l.region = NO_REGION THEN <<>> ELSE <<l.region>>)
    \o (IF l.variant = NO_VARIANT THEN <<>> ELSE <<l.variant>>)
    \o (IF l.lb = EMPTY THEN <<>> ELSE <<"u", "lb", l.lb>>)

\* The locale with only some of its subtags; the line break style is dropped.
getPartialLocale(l, subtags) ==
    LET Keep(field) == IF field \in subtags THEN l[field] ELSE Unsupported[field]
    IN [language |-> IF "language" \in subtags THEN l.language ELSE "und",
        script |-> Keep("script"), region |-> Keep("region"), variant |-> Keep("variant"),
        lb |-> EMPTY, emoji |-> Keep("emoji"),
        bits |-> IF "script" \in subtags THEN l.bits ELSE {}]

-----------------------------------------------------------------------------
(***************************************************************************)
(* Lists of locales and matching.                                          *)
(***************************************************************************)
\* The first emoji style a locale of the list names, if one does.
getEmojiStyle(list) ==
    LET styled == {i \in DOMAIN list : list[i].emoji # EMPTY}
    IN IF styled = {} THEN EMPTY
       ELSE list[CHOOSE i \in styled : \A j \in styled : i <= j].emoji

getUnionOfSubScriptBits(list) == UNION {list[i].bits : i \in DOMAIN list}
isAllTheSameLocale(list) == \A i \in DOMAIN list : list[i].language = list[1].language

supportsScript(providedBits, requestedBits) ==
    requestedBits # {} /\ requestedBits \subseteq providedBits

\* 0 (no match) to 4: how well the locales of a font suit locale l.
calcScoreFor(l, supported) ==
    LET style == {i \in DOMAIN supported : l.emoji # EMPTY /\ l.emoji = supported[i].emoji}
        language == {i \in DOMAIN supported : l.language = supported[i].language}
        script == {i \in DOMAIN supported : \/ l.script = supported[i].script
                                            \/ supportsScript(supported[i].bits, l.bits)}
        union == supportsScript(getUnionOfSubScriptBits(supported), l.bits)
    IN IF style \cap language # {} THEN 4
       ELSE IF \/ union /\ 1 \in language /\ isAllTheSameLocale(supported)
               \/ script \cap language # {} THEN 3
       ELSE IF style # {} THEN 2
       ELSE IF union \/ script # {} THEN 1
       ELSE 0

=============================================================================
