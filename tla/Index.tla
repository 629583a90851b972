------------------------------- MODULE Index --------------------------------
(***************************************************************************)
(* internal.Index (internal/upki_index.go): NewIndexFromReader validates   *)
(* the tables of index.bin, Lookup finds the filters that cover a log id   *)
(* and timestamp, Close releases the reader.  The loops of the code are    *)
(* actions, one step for each iteration.                                   *)
(*                                                                         *)
(* The file is what its bytes say: the header's magic, the NUL-padded      *)
(* filename slots, the log directory (log ids compare as numbers, offsets  *)
(* are unsigned words of Width bits, converted to signed ones as the code  *)
(* does) and, for every place in the file, the entry that would be read    *)
(* there.  The sizes of header, slots and entries are parameters.  Indices *)
(* are the code's, from 0.                                                 *)
(***************************************************************************)
EXTENDS Integers, Sequences

CONSTANTS
    File,               \* the files considered
    LogId, Timestamp,   \* what Lookup is asked about
    Width,              \* bits of an offset; 64 in the code
    headerSize, filenameSize, logDirEntrySize, entrySize

Limit == 2 ^ (Width - 1)

DirEntry == [log : Nat, off : 0..(2 * Limit - 1), count : Nat]
EntryData == [filter : Nat, min : Nat, max : Nat]

ASSUME IndexAssumption ==
    /\ Width \in Nat \ {0}
    /\ Limit \in Nat \ {0}
    /\ headerSize \in Nat /\ filenameSize \in Nat
    /\ logDirEntrySize \in Nat /\ entrySize \in Nat \ {0}
    /\ LogId \subseteq Nat /\ Timestamp \subseteq Nat
    /\ \A f \in File :
          /\ f.magic \in BOOLEAN /\ f.sized \in BOOLEAN
          /\ f.size \in 0..(Limit - 1)
          /\ f.slots \in Seq(Seq(STRING))
          /\ f.dir \in Seq(DirEntry)
          /\ f.entryAt \in [0..(Limit - 1) -> EntryData]
          /\ \A n \in 1..Len(f.dir) : f.dir[n].count * entrySize <= Limit

VARIABLES
    file,       \* the file, and whether its reader reports its size
    closer,     \* does the Index own a closer?
    ropen,      \* is the reader open?
    pc,         \* where the code is
    i,          \* the index of the loop that runs
    spans,      \* entry sections collected by validateEntrySections
    lo, hi,     \* the bounds of findLog
    at,         \* the log directory entry that findLog returned
    query,      \* the log id and timestamp of the Lookup that runs
    names       \* the filenames it has found

readerVars == <<file, closer, ropen>>
searchVars == <<lo, hi, at, query, names>>
vars == <<readerVars, pc, i, spans, searchVars>>

-----------------------------------------------------------------------------
(* The file *)

\* The value that the low Width bits of n have as a signed word.
Signed(n) == ((n + Limit) % (2 * Limit)) - Limit

numFilenames == Len(file.slots)
numLogs == Len(file.dir)
Log(k) == file.dir[k + 1].log
Offset(k) == file.dir[k + 1].off
Count(k) == file.dir[k + 1].count

tablesEnd == headerSize + numFilenames * filenameSize + numLogs * logDirEntrySize

sectionLen(k) == Count(k) * entrySize

\* The places where the filename in a slot can end: a NUL, or the slot's end.
Ends(slot) == {n \in 0..Len(slot) : n = Len(slot) \/ slot[n + 1] = "NUL"}

\* The filename of a slot: its bytes up to the first NUL.
NameOf(slot) == SubSeq(slot, 1, CHOOSE n \in Ends(slot) : \A m \in Ends(slot) : n <= m)

Filename(k) == NameOf(file.slots[k + 1])

\* Bytes a filename may have: "a" stands for letters, digits, - and _.
Allowed == {"a", "."}

validateFilterFilename(name) ==
    /\ name # <<>>
    /\ name \notin {<<".">>, <<".", ".">>}
    /\ \A n \in 1..Len(name) : name[n] \in Allowed

\* readFullAt: n bytes can be read at off; none can always be.
Readable(off, n) ==
    /\ off >= 0
    /\ n = 0 \/ (ropen /\ off + n <= file.size)

-----------------------------------------------------------------------------
(* NewIndexFromReader *)

\* A call of NewIndexFromReader on a file.
CallInit ==
    /\ closer \in BOOLEAN
    /\ ropen = TRUE
    /\ pc = "header"
    /\ i = 0
    /\ spans = <<>>
    /\ lo = 0 /\ hi = 0 /\ at = 0
    /\ query = [log |-> 0, ts |-> 0]
    /\ names = <<>>

Init == file \in File /\ CallInit

\* The ways on from a step: to another part of the code, with the loop index
\* set; the loop's next round; and the errors that end NewIndexFromReader.
Loop(where, from) == pc' = where /\ i' = from
Advance == i' = i + 1 /\ UNCHANGED pc
Reject == pc' = "rejected" /\ UNCHANGED i
ReadFails == pc' = "unread" /\ UNCHANGED i

ReadHeader ==
    /\ pc = "header"
    /\ \/ /\ Readable(0, headerSize) /\ file.magic
          /\ Loop("tables", 0)
       \/ /\ ~(Readable(0, headerSize) /\ file.magic)
          /\ Reject
       \/ ReadFails
    /\ UNCHANGED <<readerVars, spans, searchVars>>

ReadTables ==
    /\ pc = "tables"
    /\ \/ Readable(0, tablesEnd) /\ Loop("filenames", 0)
       \/ ~Readable(0, tablesEnd) /\ Reject
       \/ ReadFails
    /\ UNCHANGED <<readerVars, spans, searchVars>>

CheckFilename ==
    /\ pc = "filenames"
    /\ \/ i < numFilenames /\ validateFilterFilename(Filename(i)) /\ Advance
       \/ i < numFilenames /\ ~validateFilterFilename(Filename(i)) /\ Reject
       \/ i = numFilenames /\ Loop("order", 1)
    /\ UNCHANGED <<readerVars, spans, searchVars>>

Ascending(a, b) == a < b

\* validateLogDirOrder
CheckOrder ==
    /\ pc = "order"
    /\ \/ i < numLogs /\ Ascending(Log(i - 1), Log(i)) /\ Advance
       \/ i < numLogs /\ ~Ascending(Log(i - 1), Log(i)) /\ Reject
       \/ i >= numLogs /\ Loop("sections", 0)
    /\ UNCHANGED <<readerVars, spans, searchVars>>

\* The section of log k as validateEntrySections computes it.  The code does
\* not keep k.
Span(k) == [log |-> k,
            start |-> Signed(Offset(k)),
            end |-> Signed(Signed(Offset(k)) + sectionLen(k))]

\* A bug to detect: a section may not reach the end of the file.
SectionBeforeEOF(k) ==
    /\ Span(k).start >= tablesEnd
    /\ file.sized => Span(k).end < file.size

\* The tests validateEntrySections makes of one section.
SectionOK(k) ==
    /\ Span(k).start >= tablesEnd
    /\ file.sized => Span(k).end <= file.size

CheckSection ==
    /\ pc = "sections"
    /\ i < numLogs
    /\ \/ /\ SectionOK(i)
          /\ Advance
          /\ spans' = IF sectionLen(i) > 0 THEN Append(spans, Span(i)) ELSE spans
       \/ ~SectionOK(i) /\ Reject /\ UNCHANGED spans
    /\ UNCHANGED <<readerVars, searchVars>>

\* A bug to detect: the spans are left in some other order.
AnyOrder(s) == TRUE

InOrder(s) == \A m, n \in 1..Len(s) : m < n => s[m].start <= s[n].start

\* slices.SortFunc, which is not stable.
SortSpans ==
    /\ pc = "sections"
    /\ i = numLogs
    /\ \E order \in [1..Len(spans) -> 1..Len(spans)] :
          /\ \A m, n \in 1..Len(spans) : order[m] = order[n] => m = n
          /\ spans' = [n \in 1..Len(spans) |-> spans[order[n]]]
    /\ InOrder(spans')
    /\ Loop("overlap", 1)
    /\ UNCHANGED <<readerVars, searchVars>>

\* The loop over the sorted spans; it may not run at all.
CheckOverlap ==
    /\ pc = "overlap"
    /\ \/ i < Len(spans) /\ spans[i + 1].start >= spans[i].end /\ Advance
       \/ i < Len(spans) /\ spans[i + 1].start < spans[i].end /\ Reject
       \/ i >= Len(spans) /\ Loop("ready", 0)
    /\ UNCHANGED <<readerVars, spans, searchVars>>

-----------------------------------------------------------------------------
(* Lookup and Close *)

\* No Lookup runs.
Idle == pc \in {"ready", "found", "failed"}

Lookup(log, ts) ==
    /\ Idle
    /\ query' = [log |-> log, ts |-> ts]
    /\ lo' = 0 /\ hi' = numLogs
    /\ names' = <<>>
    /\ Loop("search", 0)
    /\ UNCHANGED <<readerVars, spans, at>>

\* Bugs to detect: the middle element is skipped, or kept, at the wrong end.
HiBelow(mid) == mid - 1
LoAt(mid) == mid

\* The new bounds of findLog.
HiAt(mid) == mid
LoAbove(mid) == mid + 1

mid0 == (lo + hi) \div 2

\* One round of findLog.
Search ==
    /\ pc = "search"
    /\ lo < hi
    /\ \/ /\ Log(mid0) < query.log
          /\ lo' = LoAbove(mid0)
          /\ UNCHANGED <<pc, hi, at>>
       \/ /\ Log(mid0) > query.log
          /\ hi' = HiAt(mid0)
          /\ UNCHANGED <<pc, lo, at>>
       \/ /\ Log(mid0) = query.log
          /\ at' = mid0
          /\ pc' = "read"
          /\ UNCHANGED <<lo, hi>>
    /\ UNCHANGED <<readerVars, i, spans, query, names>>

NotIndexed ==
    /\ pc = "search"
    /\ lo >= hi
    /\ pc' = "found"
    /\ UNCHANGED <<readerVars, i, spans, searchVars>>

\* The entry section is read, or its read fails.
ReadEntries ==
    /\ pc = "read"
    /\ \/ Readable(Signed(Offset(at)), sectionLen(at)) /\ pc' = "scan"
       \/ pc' = "failed"
    /\ UNCHANGED <<readerVars, i, spans, searchVars>>

Entry(k, n) == file.entryAt[Signed(Offset(k)) + n * entrySize]

\* A bug to detect: the interval is taken for half open.
CoversBelow(e, ts) == e.min <= ts /\ ts < e.max

Covers(e, ts) == e.min <= ts /\ ts <= e.max

\* One round of the loop over the entries.
ScanEntry ==
    /\ pc = "scan"
    /\ i < Count(at)
    /\ \/ /\ Entry(at, i).filter >= numFilenames
          /\ pc' = "failed"
          /\ UNCHANGED <<i, names>>
       \/ /\ Entry(at, i).filter < numFilenames
          /\ Advance
          /\ names' = IF Covers(Entry(at, i), query.ts)
                      THEN Append(names, Filename(Entry(at, i).filter))
                      ELSE names
    /\ UNCHANGED <<readerVars, spans, lo, hi, at, query>>

LookupReturns ==
    /\ pc = "scan"
    /\ i = Count(at)
    /\ pc' = "found"
    /\ UNCHANGED <<readerVars, i, spans, searchVars>>

\* Not concurrently with a Lookup: the Checker's lock sees to that.
Close ==
    /\ Idle
    /\ closer
    /\ closer' = FALSE
    /\ ropen' = FALSE
    /\ UNCHANGED <<file, pc, i, spans, searchVars>>

-----------------------------------------------------------------------------
(* The system *)

Step ==
    \/ ReadHeader \/ ReadTables \/ CheckFilename \/ CheckOrder
    \/ CheckSection \/ SortSpans \/ CheckOverlap
    \/ Search \/ NotIndexed \/ ReadEntries \/ ScanEntry \/ LookupReturns

Next ==
    \/ Step
    \/ \E log \in LogId, ts \in Timestamp : Lookup(log, ts)
    \/ Close

Spec == Init /\ [][Next]_vars

\* NewIndexFromReader and Lookup are sequential code that keeps running.
FairSpec == Spec /\ WF_vars(Step)

-----------------------------------------------------------------------------
(* Correctness *)

PC == {"header", "tables", "filenames", "order", "sections", "overlap", "rejected", "unread",
       "ready", "search", "read", "scan", "found", "failed"}

SpanType == [log : Nat, start : (-Limit)..(Limit - 1), end : (-Limit)..(Limit - 1)]

\* The type of every variable of the Index; file never changes.
IndexTypeOK ==
    /\ closer \in BOOLEAN /\ ropen \in BOOLEAN
    /\ pc \in PC
    /\ i \in Nat /\ lo \in Nat /\ hi \in Nat /\ at \in Nat
    /\ spans \in Seq(SpanType)
    /\ query \in [log : Nat, ts : Nat]
    /\ names \in Seq(Seq(STRING))

Accepted == pc \in {"ready", "search", "read", "scan", "found", "failed"}

\* The bytes of log k's section, without any wrap, and whether the file has them.
SectionEnd(k) == Offset(k) + sectionLen(k)
InFile(k) == SectionEnd(k) <= file.size

Logs == 0..(numLogs - 1)

\* A name that, joined to the directory, is a file of that directory.
SafeName(name) ==
    /\ name \notin {<<>>, <<".">>, <<".", ".">>}
    /\ \A n \in 1..Len(name) : name[n] \notin {"/", "NUL"}

DisjointSections(j, k) ==
    sectionLen(j) > 0 /\ sectionLen(k) > 0 =>
        SectionEnd(j) <= Offset(k) \/ SectionEnd(k) <= Offset(j)

(***************************************************************************)
(* What an accepted index guarantees to whoever uses it: no filename leads *)
(* out of the cache directory, no log id is listed twice and they ascend,  *)
(* and the entries Lookup can read for a log are no part of the tables and *)
(* no other log's, in whatever order the sections lie and even if another  *)
(* section's end wraps around.                                             *)
(***************************************************************************)
AcceptedIsWellFormed ==
    Accepted =>
        /\ \A k \in 0..(numFilenames - 1) : SafeName(Filename(k))
        /\ \A j, k \in Logs : j < k => Log(j) < Log(k)
        /\ \A k \in Logs : InFile(k) => Offset(k) >= tablesEnd
        /\ \A j, k \in Logs :
              j # k /\ InFile(j) /\ InFile(k) => DisjointSections(j, k)

\* What the index format asks of a file.
WellFormed ==
    /\ file.magic
    /\ file.size >= headerSize /\ file.size >= tablesEnd
    /\ \A k \in 0..(numFilenames - 1) :
          /\ SafeName(Filename(k))
          /\ \A n \in 1..Len(Filename(k)) : Filename(k)[n] \in Allowed
    /\ \A j, k \in Logs : j < k => Log(j) < Log(k)
    /\ \A k \in Logs : Offset(k) >= tablesEnd /\ InFile(k)
    /\ \A j, k \in Logs : j # k => DisjointSections(j, k)

(***************************************************************************)
(* The tests reject no file that keeps to the format: sections may touch,  *)
(* be empty, lie in any order and end where the file ends.                 *)
(***************************************************************************)
WellFormedAccepted == pc = "rejected" => ~WellFormed

\* names are those of the entries of log k that cover ts, in entry order.
NamesOfCovering(k, ts) ==
    \E pos \in [1..Len(names) -> 0..(Count(k) - 1)] :
        /\ \A m, n \in 1..Len(names) : m < n => pos[m] < pos[n]
        /\ \A n \in 0..(Count(k) - 1) :
              ts \in Entry(k, n).min..Entry(k, n).max <=> \E m \in 1..Len(names) : pos[m] = n
        /\ \A m \in 1..Len(names) : names[m] = Filename(Entry(k, pos[m]).filter)

(***************************************************************************)
(* Lookup returns the filters of every entry of the log that covers the    *)
(* timestamp, and of no other, in index entry order; an empty result means *)
(* that the log is not in the directory or no entry covers; and a section  *)
(* with a filter index out of range never yields a result.                 *)
(***************************************************************************)
LookupExact ==
    pc = "found" =>
        /\ \A k \in Logs : Log(k) = query.log =>
              /\ NamesOfCovering(k, query.ts)
              /\ \A n \in 0..(Count(k) - 1) : Entry(k, n).filter < numFilenames
        /\ names # <<>> => \E k \in Logs : Log(k) = query.log

(***************************************************************************)
(* validateEntrySections: when the reader reports its size, every section  *)
(* of an accepted index lies entirely within the file, because "entryOffset*)
(* + sectionLen cannot overflow int64".                                    *)
(***************************************************************************)
SectionsWithinFile == Accepted /\ file.sized => \A k \in Logs : InFile(k)

(***************************************************************************)
(* NewIndexFromReader and Lookup come to an end: the bounds of the search  *)
(* close in on each other whatever the directory holds.                    *)
(***************************************************************************)
EveryCallEnds == ~Idle ~> (Idle \/ pc \in {"rejected", "unread"})
=============================================================================
