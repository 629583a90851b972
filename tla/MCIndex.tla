------------------------------ MODULE MCIndex -------------------------------
(***************************************************************************)
(* Index on small files: words of 6 bits, a header of 2 places, slots of   *)
(* 3, directory entries of 1 and entries of 2.  Some files are given, some *)
(* are made by the encoder, with counts of 2 bits.                         *)
(***************************************************************************)
EXTENDS IndexEncoder

MCLimit == 32

ShortName == <<"a", "NUL", "NUL">>

\* Every place of the file reads as the entry e.
Everywhere(e) == [n \in 0..(MCLimit - 1) |-> e]

Wide == [filter |-> 0, min |-> 0, max |-> 1]

MkFile(slots, dir, size, sized, entryAt) ==
    [magic |-> TRUE, sized |-> sized, size |-> size, slots |-> slots, dir |-> dir,
     entryAt |-> entryAt]

D(log, off, count) == [log |-> log, off |-> off, count |-> count]

\* Two logs in any order with sections anywhere: inside the tables, touching,
\* overlapping, empty, past the end, about to wrap, and with the sign bit set.
TwoLogs ==
    {MkFile(<<ShortName>>, <<D(a, oa, ca), D(b, ob, cb)>>, 11, sized, Everywhere(Wide)) :
        a \in {1, 2}, b \in {1, 2}, oa \in {6, 7, 9, 30, 63}, ob \in {6, 7, 9, 11, 31},
        ca \in 0..2, cb \in 0..2, sized \in BOOLEAN}

\* Three logs whose sections lie in any order.
ThreeLogs ==
    {MkFile(<<ShortName>>, <<D(1, oa, ca), D(2, ob, 1), D(3, oc, cc)>>, 14, sized, Everywhere(Wide)) :
        oa \in {8, 10, 12}, ob \in {8, 10, 12, 31}, oc \in {8, 10, 12, 31},
        ca \in 1..2, cc \in 0..2, sized \in BOOLEAN}

\* Filenames of every kind, and files that are cut off.
Names ==
    {MkFile(<<s, t>>, <<>>, size, TRUE, Everywhere(Wide)) :
        s \in {ShortName, <<"a", "a", "a">>, <<".", "a", "NUL">>, <<"a", "NUL", "/">>},
        t \in {ShortName, <<"NUL", "a", "a">>, <<".", "NUL", "NUL">>, <<".", ".", "NUL">>,
               <<".", ".", ".">>, <<".", ".", "/">>, <<"a", "/", "a">>},
        size \in {1, 7, 8}}

\* Directories of every length up to five for the search.
Searched ==
    {MkFile(<<ShortName>>, [n \in 1..len |-> D(2 * n - 1, 3 + len + 2 * n, 1)], 31, TRUE,
            Everywhere(Wide)) : len \in 0..5}

\* Three entries of one log, with a mix of intervals and filter indices.
Entries == [filter : 0..2, min : 0..1, max : 0..1]
Scanned ==
    {MkFile(<<ShortName, <<"a", "a", "NUL">>>>, <<D(1, 10, 3), D(3, 16, 1)>>, 18, FALSE,
            [Everywhere(Wide) EXCEPT ![10] = e, ![12] = f, ![14] = g]) :
        e \in [filter : {0, 2}, min : 0..1, max : 0..1], f \in Entries, g \in [filter : {1, 2}, min : {1}, max : {1, 2}]}

BadMagic == {[f EXCEPT !.magic = FALSE] : f \in Searched}

MCGiven == TwoLogs \cup ThreeLogs \cup Names \cup Searched \cup Scanned \cup BadMagic
MCLayouts == TwoLogs \cup ThreeLogs

-----------------------------------------------------------------------------
(* Indexes of up to three filters over up to three logs: filters that      *)
(* share logs, overlap, cover nothing, cover a log twice, or are too many; *)
(* more entries of a log than its count can tell, with logs behind it;     *)
(* filenames that fill their slot or are too long.                         *)

C(log, lo0, hi0) == [LogId |-> log, MinTimestamp |-> lo0, MaxTimestamp |-> hi0]
F(name, coverage) == [Filename |-> name, Coverage |-> coverage]

NameA == <<"a">>
NameB == <<"a", "a", "a">>
NameC == <<".", "a">>
TooLong == <<"a", "a", "a", "a">>

Coverages == {<<>>, <<C(6, 0, 1)>>, <<C(6, 1, 2), C(1, 1, 1)>>, <<C(3, 0, 2), C(6, 1, 1)>>,
              <<C(3, 2, 2), C(3, 1, 2)>>}

MCFilters ==
    {<<>>, <<F(TooLong, <<C(1, 0, 1)>>)>>,
     <<F(NameA, <<>>), F(NameA, <<>>), F(NameB, <<>>), F(NameC, <<C(1, 0, 1)>>)>>}
    \cup {<<F(NameB, x)>> : x \in Coverages}
    \cup {<<F(NameA, x), F(NameB, y), F(NameC, z)>> : x, y, z \in Coverages}
=============================================================================
