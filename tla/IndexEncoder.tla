---------------------------- MODULE IndexEncoder -----------------------------
(***************************************************************************)
(* Index.Bytes (internal/test/index_encode.go): the layout of index.bin,   *)
(* and what the reader of Index makes of it and of files from elsewhere.   *)
(* An index to encode is a list of filters, each with its filename and the *)
(* intervals it covers.                                                    *)
(***************************************************************************)
EXTENDS Index, Wire, FiniteSets

CONSTANTS
    Filters,        \* the lists of filters considered
    Given,          \* the files from elsewhere
    CountWidth      \* bits of a count of filters or of a log's entries; 16

Wrapped(n) == n % 2 ^ CountWidth

\* Bytes panics.
Panics(filters) ==
    \/ Len(filters) > 2 ^ CountWidth - 1
    \/ \E n \in 1..Len(filters) : Len(filters[n].Filename) > filenameSize

\* byLog[id]: the entries of a log, in the order of filters and intervals.
byLog(filters, id) ==
    SX!FlattenSeq([n \in 1..Len(filters) |->
        SX!FlattenSeq([m \in 1..Len(filters[n].Coverage) |->
            LET c == filters[n].Coverage[m]
            IN  IF c.LogId = id
                THEN <<[filter |-> Wrapped(n - 1), min |-> c.MinTimestamp, max |-> c.MaxTimestamp]>>
                ELSE <<>>])])

\* The keys of byLog.
LogsOf(filters) ==
    UNION {{c.LogId : c \in SX!ToSet(filters[n].Coverage)} : n \in 1..Len(filters)}

\* and the same, sorted for the reader's binary search.
logIds(filters) ==
    LET D == 1..Cardinality(LogsOf(filters))
    IN  CHOOSE ids \in [D -> LogsOf(filters)] : \A j, k \in D : j < k => ids[j] < ids[k]

\* A name and its NULs.
Slot(name) == [n \in 1..filenameSize |-> IF n <= Len(name) THEN name[n] ELSE "NUL"]

Tables(filters) ==
    headerSize + filenameSize * Len(filters) + logDirEntrySize * Len(logIds(filters))

\* The entries of the first k logs of the directory.
EntriesOf(filters, k) == SX!FlattenSeq([j \in 1..k |-> byLog(filters, logIds(filters)[j])])

\* A bug to detect: a section is taken to be as long as its count tells.
CutOffset(filters, k) ==
    LET Told(id) == SubSeq(byLog(filters, id), 1, Wrapped(Len(byLog(filters, id))))
    IN  Tables(filters) +
        entrySize * Len(SX!FlattenSeq([j \in 1..(k - 1) |-> Told(logIds(filters)[j])]))

\* Where the entries of the k-th log begin.
OffsetOf(filters, k) == Tables(filters) + entrySize * Len(EntriesOf(filters, k - 1))

\* The entry that is read at place p.
EntryAt(filters, p) ==
    LET entries == EntriesOf(filters, Len(logIds(filters)))
        Begins(n) == p = Tables(filters) + (n - 1) * entrySize
    IN  IF \E n \in 1..Len(entries) : Begins(n)
        THEN entries[CHOOSE n \in 1..Len(entries) : Begins(n)]
        ELSE [filter |-> 0, min |-> 0, max |-> 0]

Bytes(filters) ==
    LET ids == logIds(filters)
    IN  [magic |-> TRUE, sized |-> TRUE,
         size |-> OffsetOf(filters, Len(ids) + 1),
         slots |-> [n \in 1..Wrapped(Len(filters)) |-> Slot(filters[n].Filename)],
         dir |-> [k \in 1..Len(ids) |-> [log |-> ids[k], off |-> OffsetOf(filters, k),
                                         count |-> Wrapped(Len(byLog(filters, ids[k])))]],
         entryAt |-> [p \in 0..(Limit - 1) |-> EntryAt(filters, p)]]

\* The inputs for which Bytes returns, and all files: what it returns for
\* them and the others.
Encodable == {filters \in Filters : ~Panics(filters)}
AllFiles == Given \cup {Bytes(filters) : filters \in Encodable}

\* The encodings are among the files and so, as IndexAssumption says, fit into
\* offsets; the filenames are ones that the reader takes.
ASSUME EncoderAssumption ==
    /\ 2 ^ CountWidth \in Nat \ {0}
    /\ AllFiles \subseteq File
    /\ \A filters \in Filters :
          filters \in Seq([Filename : {name \in Seq(STRING) : validateFilterFilename(name)},
                           Coverage : Seq([LogId : Nat, MinTimestamp : Nat, MaxTimestamp : Nat])])

VARIABLE src    \* the input of Bytes, or none for a file from elsewhere

EncoderInit ==
    /\ \/ src = {} /\ file \in Given
       \/ \E filters \in Encodable : src = {filters} /\ file = Bytes(filters)
    /\ CallInit

\* The reader runs on the file.
EncoderNext == Next /\ UNCHANGED src

EncoderSpec == EncoderInit /\ [][EncoderNext]_<<vars, src>>

FairEncoderSpec == EncoderSpec /\ WF_vars(Step)

-----------------------------------------------------------------------------
(* Correctness *)

\* The filenames that a lookup should give, in filter-list order.
Covering(filters, id, ts) ==
    SX!FlattenSeq([n \in 1..Len(filters) |->
        SX!FlattenSeq([m \in 1..Len(filters[n].Coverage) |->
            LET c == filters[n].Coverage[m]
            IN  IF c.LogId = id /\ ts \in c.MinTimestamp..c.MaxTimestamp
                THEN <<filters[n].Filename>>
                ELSE <<>>])])

\* The log has no more entries than its count can tell.
CountFits(filters, id) == Len(byLog(filters, id)) < 2 ^ CountWidth

(***************************************************************************)
(* Writer and reader agree, at every layout of filters and logs: the       *)
(* reader accepts the file, and Lookup gives for a shared log the filters  *)
(* that cover, "the earlier filter first", each as often as it covers.     *)
(* Bytes "panics on inputs the format cannot represent", but not on a log  *)
(* with more entries than a count can tell: what Lookup gives of that log  *)
(* is cut short, and the other logs are served all the same.               *)
(***************************************************************************)
EncodedIsServed ==
    \A filters \in src :
        /\ pc # "rejected"
        /\ pc = "found" /\ CountFits(filters, query.log) =>
              names = Covering(filters, query.log, query.ts)
=============================================================================
