----------------------------- MODULE CmapReader -----------------------------
(***************************************************************************)
(* One font is read, whatever is in its cmap table: FontFamily's           *)
(* computeCoverage hands the table to CmapCoverage::getCoverage and keeps  *)
(* the two results.  The properties compare them with the table itself, in *)
(* the words of the OpenType format.                                       *)
(***************************************************************************)
EXTENDS CmapCoverage

CONSTANT Cmaps      \* the tables to read

ASSUME ReaderAssumption ==
    /\ kMaxCodePoint \in Nat /\ kMaxCodePoint + 1 < kMaximumCapacity
    /\ GlyphIds \in Nat \ {0} /\ FirstVs \in Nat /\ NumVs \in Nat
    /\ \A cmap \in Cmaps : IsCmap(cmap)

VARIABLES
    cmap,       \* the table of the font
    read        \* what getCoverage returned for it, NotRead before

NotRead == [coverage |-> EmptySet, vs |-> NoTable]

ReaderInit == cmap \in Cmaps /\ read = NotRead
Read ==
    /\ read = NotRead
    /\ read' = getCoverage(cmap)
    /\ UNCHANGED cmap
ReaderSpec == ReaderInit /\ [][Read]_<<cmap, read>>

-----------------------------------------------------------------------------
CmapCodes == 0 .. kMaxCodePoint + 2

\* What a table says of a code point, in the words of the OpenType format:
\* a segment maps it to a glyph other than 0, or a group holds it.
Maps(t, c) ==
    IF t.format = 4
    THEN \E i \in DOMAIN t.segments :
            LET s == t.segments[i]
            IN /\ c \in s.start .. s.end
               /\ IF s.glyphs = NoTable THEN (c + s.delta) % GlyphIds # 0
                  ELSE c - s.start < Len(s.glyphs) /\ s.glyphs[c - s.start + 1] # 0
    ELSE c <= kMaxCodePoint /\ \E i \in DOMAIN t.groups : c \in t.groups[i][1] .. t.groups[i][2]

\* The segments or groups are in order and apart, as the format wants them.
InOrder(t) ==
    IF t.format = 4
    THEN /\ \A i \in DOMAIN t.segments : t.segments[i].start <= t.segments[i].end
         /\ \A i \in 1 .. Len(t.segments) - 1 : t.segments[i].end < t.segments[i + 1].start
    ELSE /\ \A i \in DOMAIN t.groups : t.groups[i][1] <= t.groups[i][2]
         /\ \A i \in 1 .. Len(t.groups) - 1 : t.groups[i][2] < t.groups[i + 1][1]

\* The character tables that can be read, and the first of the best priority.
Readable == {i \in DOMAIN cmap : ~IsVsTable(cmap[i]) /\ Usable(cmap[i])
                                 /\ getTablePriority(cmap[i]) < kLowestPriority}
VsTables == {i \in DOMAIN cmap : IsVsTable(cmap[i]) /\ cmap[i].format = 14 /\ cmap[i].fits # "no"}
Best == CHOOSE i \in Readable : \A j \in Readable :
            LET pi == getTablePriority(cmap[i])
                pj == getTablePriority(cmap[j])
            IN pi < pj \/ (pi = pj /\ i <= j)

(* A font covers the code points its best table gives a glyph: all of them   *)
(* when the table is in order, and never another one, however broken the     *)
(* table (getCoverage, getCoverageFormat4 and 12, initFromRanges).           *)
CoverageIsTheMapping ==
    read # NotRead =>
        LET covered == {c \in CmapCodes : get(read.coverage, c)}
            mapped == IF Readable = {} \/ cmap[Best].fits = "cut" THEN {}
                      ELSE {c \in CmapCodes : Maps(cmap[Best], c)}
        IN /\ covered \subseteq mapped
           /\ (Readable # {} /\ cmap[Best].fits # "cut" /\ InOrder(cmap[Best])) => covered = mapped

(* Walking a coverage with nextSetBit, as the page tables of a collection   *)
(* do, meets exactly the code points that get finds, across empty, shared    *)
(* and partly filled pages (SparseBitSet::nextSetBit).                       *)
WalkMeetsAll ==
    read # NotRead =>
        \A from \in CmapCodes :
            LET after == {c \in from .. kMaxCodePoint : get(read.coverage, c)}
            IN nextSetBit(read.coverage, from) = IF after = {} THEN kNotFound ELSE Min(after)

(* A variation sequence is supported when its table gives it a glyph of its  *)
(* own, or lists its base as a default one and the base has a glyph; two     *)
(* overlapping lists make one set (getVSCoverage, mergeRanges).              *)
SequencesAreMerged ==
    (read # NotRead /\ VsTables # {} /\ cmap[Min(VsTables)].fits = "whole") =>
        LET t == cmap[Min(VsTables)]
            Of(vs) == {k \in DOMAIN t.records : t.records[k].vs = vs /\ t.records[k].inFile}
            Ascending(s, gap) == \A k \in 1 .. Len(s) - 1 : s[k] + gap <= s[k + 1]
            Sound(r) == /\ r.default # Cut /\ r.nonDefault # Cut
                        /\ \/ r.nonDefault = NoTable
                           \/ /\ Ascending(r.nonDefault, 1)
                              /\ \A k \in DOMAIN r.nonDefault : r.nonDefault[k] <= kMaxCodePoint
                        /\ \/ r.default = NoTable
                           \/ \A k \in 1 .. Len(r.default) - 1 :
                                 r.default[k][1] + r.default[k][2] < r.default[k + 1][1]
            Supports(r, c) ==
                \/ r.nonDefault # NoTable /\ \E k \in DOMAIN r.nonDefault : r.nonDefault[k] = c
                \/ /\ r.default # NoTable /\ get(read.coverage, c)
                   /\ \E k \in DOMAIN r.default :
                         c \in r.default[k][1] .. r.default[k][1] + r.default[k][2]
        IN \A vs \in FirstVs .. FirstVs + NumVs - 1 :
              (Of(vs) # {} /\ Sound(t.records[Min(Of(vs))])) =>
                  \A c \in CmapCodes : (getVsIndex(vs) \in DOMAIN read.vs
                                    /\ get(read.vs[getVsIndex(vs)], c))
                                   = Supports(t.records[Min(Of(vs))], c)

=============================================================================
