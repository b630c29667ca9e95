-------------------------- MODULE MCLocaleListCache --------------------------
(* Tags ja, its alias jpn (same identifier once maximised), en, fr, and    *)
(* xx, which ICU does not know.  The limit on the length of a list is 2    *)
(* instead of 12, so that en,ja,fr exceeds it.                             *)
EXTENDS LocaleListCache
Id(tag) == CASE tag \in {"ja", "jpn"} -> "ja-Jpan-JP"
             [] tag = "en" -> "en-Latn-US"
             [] tag = "fr" -> "fr-Latn-FR"
             [] OTHER -> "unsupported"
Tags == {"ja", "jpn", "en", "fr", "xx"}
Names == { << >>, <<"xx">>, <<"ja">>, <<"jpn", "xx", "ja">>, <<"en", "ja", "fr">> }
Identifiers == {"ja-Jpan-JP", "en-Latn-US", "fr-Latn-FR"}
NoName == << >>
=============================================================================
