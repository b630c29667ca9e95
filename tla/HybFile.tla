------------------------------ MODULE HybFile ------------------------------
(***************************************************************************)
(* The tool that packs hyphenation patterns into a .hyb file               *)
(* (tools/mk_hyb_file.py), read a line at a time, and its own check of the *)
(* file.  Characters are their code points.                                *)
(*                                                                         *)
(* A node of the trie is known by the letters that lead to it.  The bit    *)
(* fields of the file are kept as records, and byte offsets as indices.    *)
(***************************************************************************)
EXTENDS Integers, SequencesExt, FiniteSetsExt

CONSTANTS
    ch_map,         \* letter -> code, upper and lower case alike; '.' -> 0
    PatLines,       \* the lines that a .pat.txt may hold
    HypLines,       \* the lines that a .hyp.txt may hold
    MaxPatLines, MaxHypLines    \* bounds

VARIABLES
    patLines, hypLines,     \* the lines read so far
    trie,                   \* letters -> res, over the nodes of the trie
    hyb                     \* the .hyb file written, NoFile before

hybVars == <<patLines, hypLines, trie, hyb>>

Dot == 46
HyphenMinus == 45
IsDigit(c) == c \in 48..57
NoRes == <<-1>>     \* None: no pattern ends in the node
NoFile == [alphabet |-> <<>>, trie |-> <<>>, patterns |-> <<>>]

Sorted(S, Less(_, _)) ==
    [k \in 1 .. Cardinality(S) |-> CHOOSE e \in S : Cardinality({d \in S : Less(d, e)}) = k - 1]

-----------------------------------------------------------------------------
(***************************************************************************)
(* Lines.  The numbers of a pattern are aligned with its end: the last one *)
(* stands behind the last letter.                                          *)
(***************************************************************************)
PatRes(pat) ==
    LET See(s, c) ==
            IF IsDigit(c) THEN [letter |-> FALSE, number |-> TRUE, res |-> Append(s.res, c - 48)]
            ELSE [letter |-> TRUE, number |-> s.number,
                  res |-> IF s.letter /\ s.number THEN Append(s.res, 0) ELSE s.res]
        end == FoldLeft(See, [letter |-> FALSE, number |-> FALSE, res |-> <<>>], pat)
    IN IF end.letter THEN Append(end.res, 0) ELSE end.res
PatWord(pat) == SelectSeq(pat, LAMBDA c : ~IsDigit(c))

\* 11 for a hyphen of the exception, 10 between two letters without one.
ExceptionRes(hypWord) ==
    LET letters == SelectSeq([i \in DOMAIN hypWord |-> i], LAMBDA i : hypWord[i] # HyphenMinus)
    IN [k \in 1 .. Len(letters) - 1 |->
            IF letters[k + 1] - letters[k] > 1 THEN 11 ELSE 10] \o <<0, 0>>
ExceptionWord(hypWord) == <<Dot>> \o SelectSeq(hypWord, LAMBDA c : c # HyphenMinus) \o <<Dot>>

\* A word makes a node of each of its prefixes; the last one takes the result.
add_word_res(t, word, res) ==
    [w \in DOMAIN t \cup {SubSeq(word, 1, n) : n \in 0 .. Len(word)} |->
        IF w = word THEN res ELSE IF w \in DOMAIN t THEN t[w] ELSE NoRes]

Succ(t, w) == {c \in DOMAIN ch_map : Append(w, c) \in DOMAIN t}

-----------------------------------------------------------------------------
(***************************************************************************)
(* Suffix compression: nodes that write themselves alike become one.       *)
(***************************************************************************)
\* Breadth first, and by code among the successors of a node.
bfs(t) ==
    LET Code(w) == [i \in DOMAIN w |-> ch_map[w[i]]]
        Less(a, b) == \/ Len(a) < Len(b)
                      \/ Len(a) = Len(b) /\ \E k \in DOMAIN a : /\ Code(a)[k] < Code(b)[k]
                                                                /\ \A i \in 1 .. k - 1 : a[i] = b[i]
    IN Sorted(DOMAIN t, Less)

\* The numbers of a result written one after the other: 11 and 1, 1 alike.
Digits(res) == IF res = NoRes THEN <<>>
               ELSE FoldLeft(LAMBDA s, n : s \o (IF n < 10 THEN <<n>> ELSE <<1, n - 10>>), <<>>, res)

\* From the last node to the first: every node's representative, which is the
\* last node that is written like it.
dedup(t) ==
    LET order == bfs(t)
        See(w, d) ==
            LET s == <<Digits(t[w]), {<<c, d.ix[Append(w, c)]>> : c \in Succ(t, w)}>>
                rep == IF s \in DOMAIN d.map THEN d.map[s] ELSE w
            IN [ix |-> (w :> rep) @@ d.ix, map |-> (s :> rep) @@ d.map]
    IN FoldRight(See, order, [ix |-> <<>>, map |-> <<>>]).ix

-----------------------------------------------------------------------------
(***************************************************************************)
(* Packing: node ix has its edge for code s in slot ix + s.  The free      *)
(* lists of the tool find the first place where a node and its edges fit.  *)
(***************************************************************************)
MaxCode == Max({ch_map[c] : c \in DOMAIN ch_map})

pack(t, nodes) ==
    LET Put(p, w) ==
            LET succ == {ch_map[c] : c \in Succ(t, w)}
                Fits(k) == k \notin p.nodes /\ \A s \in succ : k + s \notin p.edges
                ix == CHOOSE n \in 0 .. (Len(nodes) + 1) * (MaxCode + 1) :
                        Fits(n) /\ \A k \in 0 .. n - 1 : ~Fits(k)
            IN [ix |-> (w :> ix) @@ p.ix, nodes |-> p.nodes \cup {ix},
                edges |-> p.edges \cup {ix + s : s \in succ}]
    IN FoldLeft(Put, [ix |-> <<>>, nodes |-> {}, edges |-> {}], nodes).ix

\* The patterns in the file, without their trailing zeros; the index of a
\* pattern is abstracted to its result, and index 0, none, to <<>>.
generate_pattern(t) ==
    LET Length(res) == Max({0} \cup {k \in DOMAIN res : res[k] # 0})
    IN [res \in {t[w] : w \in DOMAIN t} \ {NoRes, <<>>} |->
            [len |-> Length(res), shift |-> Len(res) - Length(res), buf |-> SubSeq(res, 1, Length(res))]]

\* Slot n (from 0) of the file holds the pattern of node n and the edge that
\* was put there: its code and the node it leads to.
generate_trie(t, ix, rep) ==
    LET edges == {e \in (DOMAIN ix) \X (DOMAIN ch_map) : e[2] \in Succ(t, e[1])}
        Slot(n) ==
            LET here == {w \in DOMAIN ix : ix[w] = n /\ t[w] # NoRes}
                into == {e \in edges : ix[e[1]] + ch_map[e[2]] = n}
                edge == CHOOSE e \in into : TRUE
            IN [pat  |-> IF here = {} THEN <<>> ELSE t[CHOOSE w \in here : TRUE],
                ch   |-> IF into = {} THEN 0 ELSE ch_map[edge[2]],
                link |-> IF into = {} THEN 0 ELSE ix[rep[Append(edge[1], edge[2])]]]
    IN [n \in 0 .. Max({ix[w] : w \in DOMAIN ix}) + MaxCode |-> Slot(n)]

\* Format 0 is a table of the codes from the least letter to the greatest one,
\* format 1 a sorted list of the letters with their codes.
generate_alphabet(version) ==
    LET letters == DOMAIN ch_map \ {Dot}
        data == [c \in Min(letters) .. Max(letters) |-> IF c \in letters THEN ch_map[c] ELSE 0]
    IN [version |-> version, min |-> Min(letters), max |-> Max(letters) + 1, data |-> data,
        entries |-> LET sorted == Sorted(letters, <)
                    IN [k \in DOMAIN sorted |-> <<sorted[k], ch_map[sorted[k]]>>]]

-----------------------------------------------------------------------------
(***************************************************************************)
(* The tool's check: the lines that can be read back from the file.        *)
(***************************************************************************)
get_pattern(file, ix) ==
    LET e == file.patterns[ix] IN e.buf \o [k \in 1 .. e.shift |-> 0]

\* What a node with pattern pat, reached by the letters s, says: a line.
Reconstruct(pat, s) ==
    LET Code(i) == LET off == i + Len(pat) - Len(s) IN IF off < 1 THEN 0 ELSE pat[off]
        Number(i) == IF Code(i) \in 1..9 THEN <<48 + Code(i)>>
                     ELSE IF Code(i) = 11 THEN <<HyphenMinus>> ELSE <<>>
        line == FoldLeft(LAMBDA r, i : r \o <<s[i]>> \o Number(i), Number(0), [i \in DOMAIN s |-> i])
        isException == \E i \in 0 .. Len(s) : Code(i) >= 10
    IN [exception |-> isException, line |-> IF isException THEN SubSeq(line, 2, Len(line) - 1) ELSE line]

LowerCase == {c \in DOMAIN ch_map : \A d \in DOMAIN ch_map : ch_map[d] = ch_map[c] => d <= c}

RECURSIVE traverse_trie(_, _, _)
traverse_trie(file, ix, s) ==
    LET Edge(c) == file.trie[ix + ch_map[c]]
    IN (IF file.trie[ix].pat = <<>> THEN {} ELSE {Reconstruct(get_pattern(file, file.trie[ix].pat), s)})
       \cup UNION {traverse_trie(file, Edge(c).link, Append(s, c)) :
                      c \in {d \in LowerCase : Edge(d).link # 0 /\ Edge(d).ch = ch_map[d]}}

verify_hyb_file(file) ==
    LET lines == traverse_trie(file, 0, <<>>)
    IN /\ {l.line : l \in {r \in lines : ~r.exception}} = Range(patLines)
       /\ {l.line : l \in {r \in lines : r.exception}} = Range(hypLines)

-----------------------------------------------------------------------------
HybInit ==
    /\ patLines = <<>> /\ hypLines = <<>>
    /\ trie = (<<>> :> NoRes)
    /\ hyb = NoFile

add_pat(pat) ==
    /\ hyb = NoFile /\ hypLines = <<>> /\ Len(patLines) < MaxPatLines
    /\ patLines' = Append(patLines, pat)
    /\ trie' = add_word_res(trie, PatWord(pat), PatRes(pat))
    /\ UNCHANGED <<hypLines, hyb>>

add_exception(hypWord) ==
    /\ hyb = NoFile /\ Len(hypLines) < MaxHypLines
    /\ hypLines' = Append(hypLines, hypWord)
    /\ trie' = add_word_res(trie, ExceptionWord(hypWord), ExceptionRes(hypWord))
    /\ UNCHANGED <<patLines, hyb>>

generate_hyb_file(version) ==
    LET rep == dedup(trie)
        nodes == SelectSeq(bfs(trie), LAMBDA w : rep[w] = w)
    IN /\ hyb = NoFile
       /\ hyb' = [alphabet |-> generate_alphabet(version), patterns |-> generate_pattern(trie),
                  trie |-> generate_trie(trie, pack(trie, nodes), rep)]
       /\ UNCHANGED <<patLines, hypLines, trie>>

HybNext ==
    \/ \E pat \in PatLines : add_pat(pat)
    \/ \E hypWord \in HypLines : add_exception(hypWord)
    \/ \E version \in {0, 1} : generate_hyb_file(version)

=============================================================================
