---------------------------- MODULE IndexProofs ------------------------------
(***************************************************************************)
(* NewIndexFromReader accepts exactly the files it should and Lookup finds *)
(* exactly the covering filters, for files of any size, with any number of *)
(* filenames, logs and entries and offsets of any width.                   *)
(*                                                                         *)
(* The invariant says what every loop has established when its index is i: *)
(* the filenames, neighbours and sections before i have been tested, spans *)
(* holds the nonempty sections before i and each of them once, the search  *)
(* has excluded every log outside lo..hi-1, and names are those of the     *)
(* covering entries before i.                                              *)
(*                                                                         *)
(* For a file that Bytes wrote, the sections are segments of one list of   *)
(* entries, so that the file is well formed and every entry is read where  *)
(* it was put; names is then what the filters give for the entries before  *)
(* i, and in the end what they give for their intervals.                   *)
(***************************************************************************)
EXTENDS IndexEncoder, WireProofs, FiniteSetTheorems

\* What the validation loops have established once they have reached b.
NamesChecked(b) == \A k \in 0..(b - 1) : validateFilterFilename(Filename(k))

OrderChecked(b) == \A j, k \in Logs : j < k /\ k < b => Log(j) < Log(k)

SectionsChecked(b) == \A k \in Logs : k < b => SectionOK(k)

\* spans holds the nonempty sections of the logs below b, each of them once.
SpansOf(b) ==
    /\ \A m \in 1..Len(spans) : /\ spans[m].log \in Logs /\ spans[m].log < b
                                /\ sectionLen(spans[m].log) > 0
                                /\ spans[m] = Span(spans[m].log)
    /\ \A m, n \in 1..Len(spans) : spans[m].log = spans[n].log => m = n
    /\ \A k \in Logs : k < b /\ sectionLen(k) > 0 =>
          \E m \in 1..Len(spans) : spans[m].log = k

\* Of the spans up to b, none reaches into the next.
ApartUpTo(b) == \A m \in 1..(Len(spans) - 1) : m < b => spans[m].end <= spans[m + 1].start

NamesInv ==
    /\ pc = "filenames" => i <= numFilenames /\ NamesChecked(i)
    /\ pc \in {"order", "sections", "overlap"} \/ Accepted => NamesChecked(numFilenames)

OrderInv ==
    /\ pc = "order" => i >= 1 /\ OrderChecked(i)
    /\ pc \in {"sections", "overlap"} \/ Accepted => OrderChecked(numLogs)

SectionsInv ==
    /\ pc = "sections" => i <= numLogs /\ SectionsChecked(i)
    /\ pc = "overlap" \/ Accepted => SectionsChecked(numLogs)

SpansInv ==
    /\ pc \in {"header", "tables", "filenames", "order"} => spans = <<>>
    /\ pc = "sections" => SpansOf(i)
    /\ pc = "overlap" \/ Accepted => SpansOf(numLogs) /\ InOrder(spans)
    /\ pc = "overlap" => i >= 1 /\ ApartUpTo(i)
    /\ Accepted => ApartUpTo(Len(spans))

\* The reader is not closed before the Index exists.
OpenInv ==
    pc \in {"header", "tables", "filenames", "order", "sections", "overlap"} => ropen

\* names are those of the entries of log k below b that cover ts, in order.
NamesBelow(k, b, ts) ==
    \E pos \in [1..Len(names) -> 0..(b - 1)] :
        /\ \A m, n \in 1..Len(names) : m < n => pos[m] < pos[n]
        /\ \A n \in 0..(b - 1) :
              ts \in Entry(k, n).min..Entry(k, n).max <=> \E m \in 1..Len(names) : pos[m] = n
        /\ \A m \in 1..Len(names) : names[m] = Filename(Entry(k, pos[m]).filter)

\* What the search, and then the loop over the entries, have established.
LookupInv ==
    /\ pc = "search" =>
          /\ lo <= numLogs /\ hi <= numLogs /\ i = 0 /\ names = <<>>
          /\ \A k \in Logs : Log(k) = query.log => lo <= k /\ k < hi
    /\ pc \in {"read", "scan"} => at \in Logs /\ Log(at) = query.log
    /\ pc = "read" => i = 0 /\ names = <<>>
    /\ pc = "scan" =>
          /\ i <= Count(at)
          /\ Count(at) = 0 \/ /\ Signed(Offset(at)) >= 0
                              /\ Signed(Offset(at)) + sectionLen(at) <= file.size
          /\ NamesBelow(at, i, query.ts)
          /\ \A n \in 0..(i - 1) : Entry(at, n).filter < numFilenames

\* The inductive invariant.
IndexInv ==
    /\ file \in File
    /\ IndexTypeOK
    /\ NamesInv /\ OrderInv /\ SectionsInv /\ SpansInv
    /\ OpenInv
    /\ LookupInv
    /\ WellFormedAccepted
    /\ LookupExact

-----------------------------------------------------------------------------
(* Numbers, words and the file *)

\* A nonempty set of natural numbers has a smallest one.
LEMMA SmallestOf ==
  ASSUME NEW S \in SUBSET Nat, NEW x \in S
  PROVE  \E n \in S : \A m \in S : n <= m
<1> DEFINE Below == {ss \in Nat \X Nat : ss[1] < ss[2]}
<1>1. IsWellFoundedOn(Below, Nat)
  BY NatLessThanWellFounded DEF OpToRel
<1> HIDE DEF Below
<1>2. PICK n \in S : \A m \in S : ~(<<m, n>> \in Below)
  BY <1>1, WFMin
<1>3. \A m \in S : ~(m < n)
  BY <1>2 DEF Below
<1> QED
  BY <1>3

\* The remainder of a number below twice the divisor.
LEMMA ModOnce ==
  ASSUME NEW L \in Nat \ {0}
  PROVE  /\ \A a \in Int : a % L \in 0..(L - 1)
         /\ \A a \in 0..(L - 1) : a % L = a
         /\ \A a \in L..(2 * L - 1) : a % L = a - L
OBVIOUS

\* Converting to a signed word keeps what fits, and takes 2^Width from what
\* does not.
LEMMA SignedWord ==
  /\ \A n \in Int : Signed(n) \in (-Limit)..(Limit - 1)
  /\ \A n \in (-Limit)..(Limit - 1) : Signed(n) = n
  /\ \A n \in Limit..(3 * Limit - 1) : Signed(n) = n - 2 * Limit
<1>1. Limit \in Nat \ {0} /\ 2 * Limit \in Nat \ {0}
  BY IndexAssumption
<1>2. \A n \in Int : Signed(n) \in (-Limit)..(Limit - 1)
  <2> SUFFICES ASSUME NEW n \in Int PROVE Signed(n) \in (-Limit)..(Limit - 1)
    OBVIOUS
  <2>1. (n + Limit) % (2 * Limit) \in 0..(2 * Limit - 1)
    BY <1>1, ModOnce
  <2> QED
    BY <1>1, <2>1 DEF Signed
<1>3. ASSUME NEW n \in (-Limit)..(Limit - 1) PROVE Signed(n) = n
  <2>1. n + Limit \in 0..(2 * Limit - 1)
    BY <1>1
  <2>2. (n + Limit) % (2 * Limit) = n + Limit
    BY <1>1, <2>1, ModOnce
  <2> QED
    BY <1>1, <2>2 DEF Signed
<1>4. ASSUME NEW n \in Limit..(3 * Limit - 1) PROVE Signed(n) = n - 2 * Limit
  <2>1. n + Limit \in (2 * Limit)..(2 * (2 * Limit) - 1)
    BY <1>1
  <2>2. (n + Limit) % (2 * Limit) = (n + Limit) - 2 * Limit
    BY <1>1, <2>1, ModOnce
  <2> QED
    BY <1>1, <2>2 DEF Signed
<1> QED
  BY <1>2, <1>3, <1>4

\* What the assumptions say of the numbers in the file.
LEMMA FileFacts ==
  ASSUME file \in File
  PROVE  /\ numFilenames \in Nat /\ numLogs \in Nat /\ tablesEnd \in Nat
         /\ file.size \in 0..(Limit - 1) /\ Limit \in Nat \ {0}
         /\ \A k \in Logs : /\ k \in Nat /\ Log(k) \in Nat /\ Count(k) \in Nat
                            /\ Offset(k) \in 0..(2 * Limit - 1)
                            /\ sectionLen(k) \in 0..Limit
                            /\ sectionLen(k) = 0 <=> Count(k) = 0
<1>1. /\ file.slots \in Seq(Seq(STRING)) /\ file.dir \in Seq(DirEntry)
      /\ file.size \in 0..(Limit - 1) /\ Limit \in Nat \ {0}
      /\ \A n \in 1..Len(file.dir) : file.dir[n].count * entrySize <= Limit
  BY IndexAssumption
<1>2. numFilenames \in Nat /\ numLogs \in Nat
  BY <1>1 DEF numFilenames, numLogs
<1>3. tablesEnd \in Nat
  <2>1. numFilenames * filenameSize \in Nat /\ numLogs * logDirEntrySize \in Nat /\ headerSize \in Nat
    BY <1>2, IndexAssumption
  <2> QED
    BY <2>1 DEF tablesEnd
<1>4. ASSUME NEW k \in Logs
      PROVE  /\ k \in Nat /\ Log(k) \in Nat /\ Count(k) \in Nat
             /\ Offset(k) \in 0..(2 * Limit - 1)
             /\ sectionLen(k) \in 0..Limit
             /\ sectionLen(k) = 0 <=> Count(k) = 0
  <2>1. k \in Nat /\ k + 1 \in 1..Len(file.dir)
    BY <1>2 DEF Logs, numLogs
  <2>2. file.dir[k + 1] \in DirEntry /\ file.dir[k + 1].count * entrySize <= Limit
    BY <1>1, <2>1
  <2>3. Log(k) \in Nat /\ Count(k) \in Nat /\ Offset(k) \in 0..(2 * Limit - 1)
    BY <2>2 DEF DirEntry, Log, Count, Offset
  <2>4. sectionLen(k) \in Nat /\ (sectionLen(k) = 0 <=> Count(k) = 0)
    BY <2>3, IndexAssumption DEF sectionLen
  <2>5. sectionLen(k) <= Limit
    BY <2>2 DEF sectionLen, Count
  <2> QED
    BY <1>1, <2>1, <2>3, <2>4, <2>5
<1> QED
  BY <1>1, <1>2, <1>3, <1>4

\* The file never changes, and so nothing that is computed from it alone.
LEMMA FileStays ==
  ASSUME UNCHANGED file
  PROVE  /\ numFilenames' = numFilenames /\ numLogs' = numLogs /\ Logs' = Logs
         /\ tablesEnd' = tablesEnd
         /\ \A k : /\ Filename(k)' = Filename(k) /\ Log(k)' = Log(k) /\ Count(k)' = Count(k)
                   /\ Offset(k)' = Offset(k) /\ sectionLen(k)' = sectionLen(k)
                   /\ Span(k)' = Span(k) /\ (SectionOK(k)' <=> SectionOK(k))
         /\ \A k, n : Entry(k, n)' = Entry(k, n)
<1>1. numFilenames' = numFilenames /\ numLogs' = numLogs /\ tablesEnd' = tablesEnd /\ Logs' = Logs
  BY DEF numFilenames, numLogs, tablesEnd, Logs
<1>2. \A k : /\ Filename(k)' = Filename(k) /\ Log(k)' = Log(k) /\ Count(k)' = Count(k)
             /\ Offset(k)' = Offset(k) /\ sectionLen(k)' = sectionLen(k)
  BY DEF Filename, Log, Count, Offset, sectionLen
<1>3. \A k : Span(k)' = Span(k)
  BY <1>2 DEF Span, Signed
<1>4. \A k : SectionOK(k)' <=> SectionOK(k)
  BY <1>1, <1>3 DEF SectionOK
<1>5. \A k, n : Entry(k, n)' = Entry(k, n)
  BY <1>2 DEF Entry, Signed
<1> QED
  BY <1>1, <1>2, <1>3, <1>4, <1>5

\* A section that is there is computed without wrapping around.
LEMMA SpanOfInFile ==
  ASSUME file \in File, NEW k \in Logs, InFile(k)
  PROVE  /\ Span(k).start = Offset(k) /\ Span(k).end = SectionEnd(k)
         /\ Offset(k) \in Nat /\ SectionEnd(k) \in Nat
         /\ SectionEnd(k) = Offset(k) + sectionLen(k)
<1>1. Offset(k) \in 0..(Limit - 1) /\ Offset(k) + sectionLen(k) \in 0..(Limit - 1)
  BY FileFacts DEF InFile, SectionEnd
<1>2. Signed(Offset(k)) = Offset(k) /\ Signed(Offset(k) + sectionLen(k)) = Offset(k) + sectionLen(k)
  BY <1>1, FileFacts, SignedWord
<1> QED
  BY <1>1, <1>2, FileFacts DEF Span, SectionEnd

\* A span has the type the code gives it.
LEMMA SpanTyped ==
  ASSUME file \in File, NEW k \in Logs
  PROVE  Span(k) \in SpanType
<1>1. k \in Nat /\ Offset(k) \in Int /\ sectionLen(k) \in Int /\ Limit \in Nat
  BY FileFacts
<1>2. Signed(Offset(k)) \in (-Limit)..(Limit - 1)
  BY <1>1, SignedWord
<1>3. Signed(Offset(k)) + sectionLen(k) \in Int
  BY <1>1, <1>2
<1>4. Signed(Signed(Offset(k)) + sectionLen(k)) \in (-Limit)..(Limit - 1)
  BY <1>3, SignedWord
<1> QED
  BY <1>1, <1>2, <1>4 DEF Span, SpanType

\* A filename is a sequence: its slot has a first NUL or an end.
LEMMA FilenameTyped ==
  ASSUME file \in File, NEW k \in 0..(numFilenames - 1)
  PROVE  Filename(k) \in Seq(STRING)
<1> DEFINE slot == file.slots[k + 1]
<1>1. slot \in Seq(STRING)
  <2>1. file.slots \in Seq(Seq(STRING)) /\ k + 1 \in 1..Len(file.slots)
    BY FileFacts, IndexAssumption DEF numFilenames
  <2> QED
    BY <2>1
<1> HIDE DEF slot
<1>2. Len(slot) \in Ends(slot) /\ Ends(slot) \in SUBSET Nat /\ Ends(slot) \subseteq 0..Len(slot)
  BY <1>1 DEF Ends
<1>3. \E n \in Ends(slot) : \A m \in Ends(slot) : n <= m
  BY <1>2, SmallestOf
<1> DEFINE end == CHOOSE n \in Ends(slot) : \A m \in Ends(slot) : n <= m
<1>4. end \in 0..Len(slot)
  BY <1>2, <1>3
<1> HIDE DEF end
<1>5. SubSeq(slot, 1, end) \in Seq(STRING)
  BY <1>1, <1>4
<1> QED
  BY <1>5 DEF Filename, NameOf, slot, end

-----------------------------------------------------------------------------
(* Steps that establish nothing new *)

\* Whether a file is well formed depends on the file only.
LEMMA WellFormedStays ==
  ASSUME UNCHANGED file
  PROVE  WellFormed' <=> WellFormed
<1>1. \A k : SectionEnd(k)' = SectionEnd(k) /\ (InFile(k)' <=> InFile(k))
  BY FileStays DEF SectionEnd, InFile
<1>2. \A j, k : DisjointSections(j, k)' <=> DisjointSections(j, k)
  BY <1>1, FileStays DEF DisjointSections
<1> QED
  BY <1>1, <1>2, FileStays DEF WellFormed

\* The parts of the invariant that are about the file stay what they are while
\* file and spans do.
LEMMA CheckedStays ==
  ASSUME UNCHANGED <<file, spans>>
  PROVE  /\ \A b : NamesChecked(b)' <=> NamesChecked(b)
         /\ \A b : OrderChecked(b)' <=> OrderChecked(b)
         /\ \A b : SectionsChecked(b)' <=> SectionsChecked(b)
         /\ \A b : SpansOf(b)' <=> SpansOf(b)
         /\ \A b : ApartUpTo(b)' <=> ApartUpTo(b)
         /\ Len(spans)' = Len(spans) /\ (InOrder(spans)' <=> InOrder(spans))
<1>1. \A b : NamesChecked(b)' <=> NamesChecked(b)
  BY FileStays DEF NamesChecked
<1>2. \A b : OrderChecked(b)' <=> OrderChecked(b)
  BY FileStays DEF OrderChecked
<1>3. \A b : SectionsChecked(b)' <=> SectionsChecked(b)
  BY FileStays DEF SectionsChecked
<1>4. \A b : SpansOf(b)' <=> SpansOf(b)
  BY FileStays DEF SpansOf
<1>5. \A b : ApartUpTo(b)' <=> ApartUpTo(b)
  BY DEF ApartUpTo
<1> QED
  BY <1>1, <1>2, <1>3, <1>4, <1>5 DEF InOrder

\* An accepted index stays accepted, and what was tested stays true.
LEMMA AcceptedStays ==
  ASSUME IndexInv, UNCHANGED <<file, spans>>, Accepted, pc' \in PC, Accepted'
  PROVE  /\ file' \in File /\ NamesInv' /\ OrderInv' /\ SectionsInv' /\ SpansInv'
         /\ OpenInv' /\ WellFormedAccepted'
<1>1. /\ NamesChecked(numFilenames) /\ OrderChecked(numLogs) /\ SectionsChecked(numLogs)
      /\ SpansOf(numLogs) /\ InOrder(spans) /\ ApartUpTo(Len(spans))
  BY DEF IndexInv, NamesInv, OrderInv, SectionsInv, SpansInv
<1>2. /\ NamesChecked(numFilenames)' /\ OrderChecked(numLogs)' /\ SectionsChecked(numLogs)'
      /\ SpansOf(numLogs)' /\ InOrder(spans)' /\ ApartUpTo(Len(spans))'
  BY <1>1, FileStays, CheckedStays
<1>3. pc' \notin {"header", "tables", "filenames", "order", "sections", "overlap", "rejected"}
  BY DEF Accepted
<1> QED
  BY <1>2, <1>3
  DEF IndexInv, NamesInv, OrderInv, SectionsInv, SpansInv, OpenInv, WellFormedAccepted

\* An error of NewIndexFromReader: only a file that is not well formed may be
\* rejected.
LEMMA Ends_IndexInv ==
  ASSUME IndexInv, UNCHANGED file, IndexTypeOK',
         pc' = "unread" \/ (pc' = "rejected" /\ ~WellFormed)
  PROVE  IndexInv'
<1>1. ~Accepted' /\ pc' \in {"unread", "rejected"}
  BY DEF Accepted
<1>2. WellFormedAccepted'
  BY WellFormedStays DEF WellFormedAccepted
<1>3. NamesInv' /\ OrderInv' /\ SectionsInv' /\ SpansInv' /\ OpenInv'
  BY <1>1 DEF NamesInv, OrderInv, SectionsInv, SpansInv, OpenInv
<1>4. LookupInv' /\ LookupExact'
  BY <1>1 DEF LookupInv, LookupExact
<1> QED
  BY <1>2, <1>3, <1>4 DEF IndexInv

\* While NewIndexFromReader runs there is no Lookup to speak of.
LEMMA NoLookupYet ==
  ASSUME pc \in {"header", "tables", "filenames", "order", "sections", "overlap", "ready"}
  PROVE  LookupInv /\ LookupExact /\ WellFormedAccepted
BY DEF LookupInv, LookupExact, WellFormedAccepted

-----------------------------------------------------------------------------
(* NewIndexFromReader *)

\* A call starts with nothing tested.
LEMMA Init_IndexInv == Init => IndexInv
<1> SUFFICES ASSUME Init PROVE IndexInv
  OBVIOUS
<1>1. IndexTypeOK
  BY DEF Init, CallInit, IndexTypeOK, PC
<1>2. pc = "header" /\ spans = <<>> /\ ropen /\ ~Accepted /\ file \in File
  BY DEF Init, CallInit, Accepted
<1>3. NamesInv /\ OrderInv /\ SectionsInv /\ SpansInv /\ OpenInv
  BY <1>2 DEF NamesInv, OrderInv, SectionsInv, SpansInv, OpenInv
<1> QED
  BY <1>1, <1>2, <1>3, NoLookupYet DEF IndexInv

\* A step of NewIndexFromReader that touches none of the variables of Lookup
\* and adds no span keeps the types.
LEMMA ValidateTyped ==
  ASSUME IndexInv, UNCHANGED <<readerVars, spans, searchVars>>, pc' \in PC, i' \in Nat
  PROVE  IndexTypeOK'
BY DEF IndexInv, IndexTypeOK, readerVars, searchVars

\* The header: a file that has it is not rejected.
LEMMA ReadHeader_IndexInv ==
  ASSUME IndexInv, ReadHeader
  PROVE  IndexInv'
<1>0. /\ UNCHANGED <<readerVars, spans, searchVars>> /\ UNCHANGED <<file, spans, ropen>>
      /\ pc = "header"
      /\ \/ pc' = "tables" /\ i' = 0
         \/ pc' = "rejected" /\ i' = i /\ ~(Readable(0, headerSize) /\ file.magic)
         \/ pc' = "unread" /\ i' = i
  BY DEF ReadHeader, Loop, Reject, ReadFails, readerVars
<1>1. IndexTypeOK'
  <2>1. i \in Nat
    BY DEF IndexInv, IndexTypeOK
  <2>2. pc' \in PC /\ i' \in Nat
    BY <1>0, <2>1 DEF PC
  <2> QED
    BY <1>0, <2>2, ValidateTyped
<1>2. ropen /\ file \in File /\ spans = <<>>
  BY <1>0 DEF IndexInv, OpenInv, SpansInv
<1>3. CASE pc' = "rejected" /\ ~(Readable(0, headerSize) /\ file.magic)
  <2>1. headerSize \in Nat /\ file.size \in Nat
    BY <1>2, FileFacts, IndexAssumption
  <2>2. ~WellFormed
    BY <1>2, <1>3, <2>1 DEF WellFormed, Readable
  <2> QED
    BY <1>0, <1>1, <1>3, <2>2, Ends_IndexInv
<1>4. CASE pc' = "unread"
  BY <1>0, <1>1, <1>4, Ends_IndexInv
<1>5. CASE pc' = "tables"
  <2>1. ~Accepted' /\ spans' = <<>> /\ ropen' /\ file' \in File
    BY <1>0, <1>2, <1>5 DEF Accepted
  <2>2. NamesInv' /\ OrderInv' /\ SectionsInv' /\ SpansInv' /\ OpenInv'
    BY <1>5, <2>1 DEF NamesInv, OrderInv, SectionsInv, SpansInv, OpenInv
  <2>3. LookupInv' /\ LookupExact' /\ WellFormedAccepted'
    BY <1>5 DEF LookupInv, LookupExact, WellFormedAccepted
  <2> QED
    BY <1>1, <2>1, <2>2, <2>3 DEF IndexInv
<1> QED
  BY <1>0, <1>3, <1>4, <1>5

\* The tables: a file that has them is not rejected.
LEMMA ReadTables_IndexInv ==
  ASSUME IndexInv, ReadTables
  PROVE  IndexInv'
<1>0. /\ UNCHANGED <<readerVars, spans, searchVars>> /\ UNCHANGED <<file, spans, ropen>>
      /\ pc = "tables"
      /\ \/ pc' = "filenames" /\ i' = 0
         \/ pc' = "rejected" /\ i' = i /\ ~Readable(0, tablesEnd)
         \/ pc' = "unread" /\ i' = i
  BY DEF ReadTables, Loop, Reject, ReadFails, readerVars
<1>1. IndexTypeOK'
  <2>1. i \in Nat
    BY DEF IndexInv, IndexTypeOK
  <2>2. pc' \in PC /\ i' \in Nat
    BY <1>0, <2>1 DEF PC
  <2> QED
    BY <1>0, <2>2, ValidateTyped
<1>2. ropen /\ file \in File /\ spans = <<>>
  BY <1>0 DEF IndexInv, OpenInv, SpansInv
<1>3. CASE pc' = "rejected" /\ ~Readable(0, tablesEnd)
  <2>1. tablesEnd \in Nat /\ file.size \in Nat
    BY <1>2, FileFacts
  <2>2. ~WellFormed
    BY <1>2, <1>3, <2>1 DEF WellFormed, Readable
  <2> QED
    BY <1>0, <1>1, <1>3, <2>2, Ends_IndexInv
<1>4. CASE pc' = "unread"
  BY <1>0, <1>1, <1>4, Ends_IndexInv
<1>5. CASE pc' = "filenames" /\ i' = 0
  <2>1. ~Accepted' /\ spans' = <<>> /\ ropen' /\ file' \in File
    BY <1>0, <1>2, <1>5 DEF Accepted
  <2>2. i' <= numFilenames' /\ NamesChecked(i)'
    BY <1>5, <2>1, <1>0, <1>2, FileFacts, FileStays DEF NamesChecked
  <2>3. NamesInv' /\ OrderInv' /\ SectionsInv' /\ SpansInv' /\ OpenInv'
    BY <1>5, <2>1, <2>2 DEF NamesInv, OrderInv, SectionsInv, SpansInv, OpenInv
  <2>4. LookupInv' /\ LookupExact' /\ WellFormedAccepted'
    BY <1>5 DEF LookupInv, LookupExact, WellFormedAccepted
  <2> QED
    BY <1>1, <2>1, <2>3, <2>4 DEF IndexInv
<1> QED
  BY <1>0, <1>3, <1>4, <1>5

\* A name passes validateFilterFilename exactly when it is safe and made of
\* allowed bytes; an allowed byte is neither a separator nor NUL.
LEMMA ValidName ==
  ASSUME NEW name
  PROVE  /\ validateFilterFilename(name) => SafeName(name)
         /\ SafeName(name) /\ (\A n \in 1..Len(name) : name[n] \in Allowed) =>
               validateFilterFilename(name)
<1>1. \A x \in Allowed : x \notin {"/", "NUL"}
  BY DEF Allowed
<1> QED
  BY <1>1 DEF validateFilterFilename, SafeName

\* The loop over the filenames.
LEMMA CheckFilename_IndexInv ==
  ASSUME IndexInv, CheckFilename
  PROVE  IndexInv'
<1>0. /\ UNCHANGED <<readerVars, spans, searchVars>> /\ UNCHANGED <<file, spans, ropen>>
      /\ pc = "filenames"
      /\ \/ pc' = pc /\ i' = i + 1 /\ i < numFilenames /\ validateFilterFilename(Filename(i))
         \/ pc' = "rejected" /\ i' = i /\ i < numFilenames /\ ~validateFilterFilename(Filename(i))
         \/ pc' = "order" /\ i' = 1 /\ i = numFilenames
  BY DEF CheckFilename, Loop, Reject, Advance, readerVars
<1>1. i \in Nat /\ i <= numFilenames /\ NamesChecked(i)
  BY <1>0 DEF IndexInv, IndexTypeOK, NamesInv
<1>2. IndexTypeOK'
  <2>1. pc' \in PC /\ i' \in Nat
    BY <1>0, <1>1 DEF PC
  <2> QED
    BY <1>0, <2>1, ValidateTyped
<1>3. ropen /\ file \in File /\ spans = <<>>
  BY <1>0 DEF IndexInv, OpenInv, SpansInv
<1>4. CASE pc' = "rejected" /\ i < numFilenames /\ ~validateFilterFilename(Filename(i))
  <2>1. i \in 0..(numFilenames - 1)
    BY <1>1, <1>3, <1>4, FileFacts
  <2>2. ~WellFormed
    BY <1>4, <2>1, ValidName DEF WellFormed
  <2> QED
    BY <1>0, <1>2, <1>4, <2>2, Ends_IndexInv
<1>5. CASE /\ pc' = "filenames" /\ i' = i + 1 /\ i < numFilenames
           /\ validateFilterFilename(Filename(i))
  <2>1. ~Accepted' /\ spans' = <<>> /\ ropen' /\ file' \in File
    BY <1>0, <1>3, <1>5 DEF Accepted
  <2>2. i' <= numFilenames' /\ NamesChecked(i)'
    <3>1. NamesChecked(i + 1) /\ i + 1 <= numFilenames
      BY <1>1, <1>3, <1>5, FileFacts DEF NamesChecked
    <3> QED
      BY <1>0, <1>5, <3>1, CheckedStays, FileStays
  <2>3. NamesInv' /\ OrderInv' /\ SectionsInv' /\ SpansInv' /\ OpenInv'
    BY <1>5, <2>1, <2>2 DEF NamesInv, OrderInv, SectionsInv, SpansInv, OpenInv
  <2>4. LookupInv' /\ LookupExact' /\ WellFormedAccepted'
    BY <1>5 DEF LookupInv, LookupExact, WellFormedAccepted
  <2> QED
    BY <1>2, <2>1, <2>3, <2>4 DEF IndexInv
<1>6. CASE pc' = "order" /\ i' = 1 /\ i = numFilenames
  <2>1. ~Accepted' /\ spans' = <<>> /\ ropen' /\ file' \in File
    BY <1>0, <1>3, <1>6 DEF Accepted
  <2>2. NamesChecked(numFilenames)'
    BY <1>0, <1>1, <1>6, CheckedStays, FileStays
  <2>3. OrderChecked(i)'
    <3>1. OrderChecked(1)
      BY <1>3, FileFacts, SMTT(20) DEF OrderChecked
    <3> QED
      BY <1>0, <1>6, <3>1, CheckedStays
  <2>4. NamesInv' /\ OrderInv' /\ SectionsInv' /\ SpansInv' /\ OpenInv'
    BY <1>6, <2>1, <2>2, <2>3 DEF NamesInv, OrderInv, SectionsInv, SpansInv, OpenInv
  <2>5. LookupInv' /\ LookupExact' /\ WellFormedAccepted'
    BY <1>6 DEF LookupInv, LookupExact, WellFormedAccepted
  <2> QED
    BY <1>2, <2>1, <2>4, <2>5 DEF IndexInv
<1> QED
  BY <1>0, <1>4, <1>5, <1>6

\* validateLogDirOrder: testing neighbours orders all log ids before i.
LEMMA CheckOrder_IndexInv ==
  ASSUME IndexInv, CheckOrder
  PROVE  IndexInv'
<1>0. /\ UNCHANGED <<readerVars, spans, searchVars>> /\ UNCHANGED <<file, spans, ropen>>
      /\ pc = "order"
      /\ \/ pc' = pc /\ i' = i + 1 /\ i < numLogs /\ Log(i - 1) < Log(i)
         \/ pc' = "rejected" /\ i' = i /\ i < numLogs /\ ~(Log(i - 1) < Log(i))
         \/ pc' = "sections" /\ i' = 0 /\ i >= numLogs
  BY DEF CheckOrder, Loop, Reject, Advance, Ascending, readerVars
<1>1. i \in Nat /\ i >= 1 /\ OrderChecked(i) /\ NamesChecked(numFilenames)
  BY <1>0 DEF IndexInv, IndexTypeOK, OrderInv, NamesInv
<1>2. IndexTypeOK'
  <2>1. pc' \in PC /\ i' \in Nat
    BY <1>0, <1>1 DEF PC
  <2> QED
    BY <1>0, <2>1, ValidateTyped
<1>3. ropen /\ file \in File /\ spans = <<>>
  BY <1>0 DEF IndexInv, OpenInv, SpansInv
<1>4. NamesChecked(numFilenames)'
  BY <1>0, <1>1, CheckedStays, FileStays
<1>5. i < numLogs => i \in Logs /\ i - 1 \in Logs
  BY <1>1, <1>3, FileFacts DEF Logs
<1>6. CASE pc' = "rejected" /\ i < numLogs /\ ~(Log(i - 1) < Log(i))
  <2>1. i - 1 < i
    BY <1>1
  <2>2. ~WellFormed
    BY <1>5, <1>6, <2>1 DEF WellFormed
  <2> QED
    BY <1>0, <1>2, <1>6, <2>2, Ends_IndexInv
<1>7. CASE pc' = "order" /\ i' = i + 1 /\ i < numLogs /\ Log(i - 1) < Log(i)
  <2>1. ~Accepted' /\ spans' = <<>> /\ ropen' /\ file' \in File
    BY <1>0, <1>3, <1>7 DEF Accepted
  <2>2. OrderChecked(i + 1)
    <3> SUFFICES ASSUME NEW j \in Logs, NEW k \in Logs, j < k, k < i + 1
                 PROVE  Log(j) < Log(k)
      BY DEF OrderChecked
    <3>1. j \in Nat /\ k \in Nat /\ Log(j) \in Nat /\ Log(k) \in Nat /\ Log(i - 1) \in Nat
      BY <1>3, <1>5, <1>7, FileFacts
    <3>2. CASE k < i
      BY <1>1, <3>2 DEF OrderChecked
    <3>3. CASE k = i /\ j = i - 1
      BY <1>7, <3>3
    <3>4. CASE k = i /\ j < i - 1
      <4>1. Log(j) < Log(i - 1)
        BY <1>1, <1>5, <1>7, <3>4 DEF OrderChecked
      <4> QED
        BY <1>7, <3>1, <3>4, <4>1
    <3> QED
      BY <1>1, <3>1, <3>2, <3>3, <3>4
  <2>3. OrderChecked(i)' /\ i' >= 1
    BY <1>0, <1>1, <1>7, <2>2, CheckedStays
  <2>4. NamesInv' /\ OrderInv' /\ SectionsInv' /\ SpansInv' /\ OpenInv'
    BY <1>4, <1>7, <2>1, <2>3 DEF NamesInv, OrderInv, SectionsInv, SpansInv, OpenInv
  <2>5. LookupInv' /\ LookupExact' /\ WellFormedAccepted'
    BY <1>7 DEF LookupInv, LookupExact, WellFormedAccepted
  <2> QED
    BY <1>2, <2>1, <2>4, <2>5 DEF IndexInv
<1>8. CASE pc' = "sections" /\ i' = 0 /\ i >= numLogs
  <2>1. ~Accepted' /\ ropen' /\ file' \in File
    BY <1>0, <1>3, <1>8 DEF Accepted
  <2>2. OrderChecked(numLogs)'
    <3>1. OrderChecked(numLogs)
      BY <1>1, <1>3, <1>8, FileFacts, SMTT(20) DEF OrderChecked
    <3> QED
      BY <1>0, <3>1, CheckedStays, FileStays
  <2>3. i' <= numLogs' /\ SectionsChecked(i)' /\ SpansOf(i)'
    <3>1. 0 <= numLogs /\ SectionsChecked(0) /\ SpansOf(0)
      BY <1>3, FileFacts, SMTT(20) DEF SectionsChecked, SpansOf
    <3> QED
      BY <1>0, <1>8, <3>1, CheckedStays, FileStays
  <2>4. NamesInv' /\ OrderInv' /\ SectionsInv' /\ SpansInv' /\ OpenInv'
    BY <1>4, <1>8, <2>1, <2>2, <2>3 DEF NamesInv, OrderInv, SectionsInv, SpansInv, OpenInv
  <2>5. LookupInv' /\ LookupExact' /\ WellFormedAccepted'
    BY <1>8 DEF LookupInv, LookupExact, WellFormedAccepted
  <2> QED
    BY <1>2, <2>1, <2>4, <2>5 DEF IndexInv
<1> QED
  BY <1>0, <1>6, <1>7, <1>8

\* A section that the format allows passes the tests.
LEMMA GoodSectionPasses ==
  ASSUME file \in File, WellFormed, NEW k \in Logs
  PROVE  SectionOK(k)
<1>1. Offset(k) >= tablesEnd /\ InFile(k)
  BY DEF WellFormed
<1> QED
  BY <1>1, SpanOfInFile DEF SectionOK, InFile

\* The loop over the sections: each is tested, and kept if it is not empty.
LEMMA CheckSection_IndexInv ==
  ASSUME IndexInv, CheckSection
  PROVE  IndexInv'
<1>0. /\ UNCHANGED <<readerVars, searchVars>> /\ UNCHANGED <<file, ropen>>
      /\ pc = "sections" /\ i < numLogs
      /\ \/ /\ pc' = pc /\ i' = i + 1 /\ SectionOK(i)
            /\ spans' = IF sectionLen(i) > 0 THEN Append(spans, Span(i)) ELSE spans
         \/ pc' = "rejected" /\ i' = i /\ ~SectionOK(i) /\ spans' = spans
  BY DEF CheckSection, Reject, Advance, readerVars
<1>1. /\ i \in Nat /\ spans \in Seq(SpanType) /\ SectionsChecked(i) /\ SpansOf(i)
      /\ NamesChecked(numFilenames) /\ OrderChecked(numLogs) /\ ropen /\ file \in File
  BY <1>0 DEF IndexInv, IndexTypeOK, SectionsInv, SpansInv, NamesInv, OrderInv, OpenInv
<1>2. i \in Logs /\ i + 1 <= numLogs
  BY <1>0, <1>1, FileFacts DEF Logs
<1>3. spans' \in Seq(SpanType)
  BY <1>0, <1>1, <1>2, SpanTyped, SMTT(20)
<1>4. IndexTypeOK'
  <2>1. pc' \in PC /\ i' \in Nat
    BY <1>0, <1>1 DEF PC
  <2> QED
    BY <1>0, <1>3, <2>1 DEF IndexInv, IndexTypeOK, readerVars, searchVars
<1>5. CASE pc' = "rejected" /\ ~SectionOK(i)
  <2>1. ~WellFormed
    BY <1>1, <1>2, <1>5, GoodSectionPasses
  <2> QED
    BY <1>0, <1>4, <1>5, <2>1, Ends_IndexInv
<1>6. CASE /\ pc' = "sections" /\ i' = i + 1 /\ SectionOK(i)
           /\ spans' = IF sectionLen(i) > 0 THEN Append(spans, Span(i)) ELSE spans
  <2>1. ~Accepted' /\ ropen' /\ file' \in File /\ i' <= numLogs'
    BY <1>0, <1>1, <1>2, <1>6, FileStays DEF Accepted
  <2>2. NamesChecked(numFilenames)' /\ OrderChecked(numLogs)'
    BY <1>0, <1>1, FileStays DEF NamesChecked, OrderChecked
  <2>3. SectionsChecked(i)'
    <3>1. \A k \in Logs : k < i + 1 => SectionOK(k)
      <4>1. \A k \in Logs : k < i + 1 => k < i \/ k = i
        BY <1>1, FileFacts, SMTT(20)
      <4> QED
        BY <1>1, <1>6, <4>1 DEF SectionsChecked
    <3> QED
      BY <1>0, <1>6, <3>1, FileStays DEF SectionsChecked
  <2>4. SpansOf(i)'
    <3>0. Span(i).log = i /\ (\A k \in Logs : k \in Nat /\ sectionLen(k) \in Nat)
      BY <1>1, FileFacts DEF Span
    <3>1. CASE sectionLen(i) > 0
      <4>1. /\ spans' = Append(spans, Span(i)) /\ Len(spans) \in Nat /\ Len(spans') = Len(spans) + 1
            /\ \A m \in 1..Len(spans) : spans'[m] = spans[m]
            /\ spans'[Len(spans) + 1] = Span(i)
        BY <1>1, <1>2, <1>6, <3>1, SpanTyped
      <4>2. \A m \in 1..Len(spans') : m \in 1..Len(spans) \/ m = Len(spans) + 1
        BY <4>1
      <4>3. \A m \in 1..Len(spans') : /\ spans'[m].log \in Logs /\ spans'[m].log < i + 1
                                      /\ sectionLen(spans'[m].log) > 0
                                      /\ spans'[m] = Span(spans'[m].log)
        <5> SUFFICES ASSUME NEW m \in 1..Len(spans')
                     PROVE  /\ spans'[m].log \in Logs /\ spans'[m].log < i + 1
                            /\ sectionLen(spans'[m].log) > 0
                            /\ spans'[m] = Span(spans'[m].log)
          OBVIOUS
        <5>1. CASE m \in 1..Len(spans)
          <6>1. spans'[m] = spans[m]
            BY <4>1, <5>1
          <6>2. /\ spans[m].log \in Logs /\ spans[m].log < i
                /\ sectionLen(spans[m].log) > 0
                /\ spans[m] = Span(spans[m].log)
            BY <1>1, <5>1 DEF SpansOf
          <6>3. spans[m].log < i + 1
            BY <1>1, <3>0, <6>2
          <6> QED
            BY <6>1, <6>2, <6>3
        <5>2. CASE m = Len(spans) + 1
          BY <1>1, <1>2, <3>0, <3>1, <4>1, <5>2
        <5> QED
          BY <4>2, <5>1, <5>2
      <4>4. \A m, n \in 1..Len(spans') : spans'[m].log = spans'[n].log => m = n
        <5>1. \A m \in 1..Len(spans) : spans'[m].log # i
          <6>1. \A m \in 1..Len(spans) : spans[m].log < i /\ spans[m].log \in Logs
            BY <1>1 DEF SpansOf
          <6> QED
            BY <1>1, <3>0, <4>1, <6>1
        <5>2. \A m, n \in 1..Len(spans) : spans'[m].log = spans'[n].log => m = n
          BY <1>1, <4>1 DEF SpansOf
        <5> QED
          BY <3>0, <4>1, <4>2, <5>1, <5>2
      <4>5. \A k \in Logs : k < i + 1 /\ sectionLen(k) > 0 => \E m \in 1..Len(spans') : spans'[m].log = k
        <5>1. Len(spans) + 1 \in 1..Len(spans') /\ \A m \in 1..Len(spans) : m \in 1..Len(spans')
          BY <4>1
        <5>2. \A k \in Logs : k < i + 1 => k < i \/ k = i
          BY <1>1, <3>0
        <5>3. \A k \in Logs : k < i /\ sectionLen(k) > 0 => \E m \in 1..Len(spans) : spans'[m].log = k
          BY <1>1, <4>1 DEF SpansOf
        <5>4. spans'[Len(spans) + 1].log = i
          BY <3>0, <4>1
        <5> QED
          BY <5>1, <5>2, <5>3, <5>4
      <4> QED
        BY <1>0, <1>6, <4>3, <4>4, <4>5, FileStays DEF SpansOf
    <3>2. CASE ~(sectionLen(i) > 0)
      <4>1. SpansOf(i + 1)
        <5>1. \A k \in Logs : k < i + 1 => k < i \/ k = i
          BY <1>1, <3>0
        <5>2. \A k \in Logs : k < i => k < i + 1
          BY <1>1, <3>0
        <5> QED
          BY <1>1, <3>2, <5>1, <5>2 DEF SpansOf
      <4> QED
        BY <1>0, <1>6, <3>2, <4>1, CheckedStays
    <3> QED
      BY <3>1, <3>2
  <2>5. NamesInv' /\ OrderInv' /\ SectionsInv' /\ SpansInv' /\ OpenInv'
    BY <1>6, <2>1, <2>2, <2>3, <2>4 DEF NamesInv, OrderInv, SectionsInv, SpansInv, OpenInv
  <2>6. LookupInv' /\ LookupExact' /\ WellFormedAccepted'
    BY <1>6 DEF LookupInv, LookupExact, WellFormedAccepted
  <2> QED
    BY <1>4, <2>1, <2>5, <2>6 DEF IndexInv
<1> QED
  BY <1>0, <1>5, <1>6

\* An injection of 1..n into itself reaches everything: sorting loses no span.
LEMMA InjectionIsOnto ==
  ASSUME NEW n \in Nat, NEW f \in [1..n -> 1..n],
         \A a, b \in 1..n : f[a] = f[b] => a = b
  PROVE  \A t \in 1..n : \E a \in 1..n : f[a] = t
<1>1. f \in Injection(1..n, 1..n)
  BY DEF Injection, IsInjective
<1>2. IsFiniteSet(1..n)
  BY FS_Interval
<1>3. f \in Surjection(1..n, 1..n)
  BY <1>1, <1>2, FS_Injection
<1> QED
  BY <1>3 DEF Surjection

\* slices.SortFunc permutes the spans.
LEMMA SortSpans_IndexInv ==
  ASSUME IndexInv, SortSpans
  PROVE  IndexInv'
<1>0. /\ UNCHANGED <<readerVars, searchVars>> /\ UNCHANGED <<file, ropen>>
      /\ pc = "sections" /\ i = numLogs /\ pc' = "overlap" /\ i' = 1 /\ InOrder(spans')
  BY DEF SortSpans, Loop, readerVars
<1>1. /\ spans \in Seq(SpanType) /\ SectionsChecked(numLogs) /\ SpansOf(numLogs)
      /\ NamesChecked(numFilenames) /\ OrderChecked(numLogs) /\ ropen /\ file \in File
  BY <1>0 DEF IndexInv, IndexTypeOK, SectionsInv, SpansInv, NamesInv, OrderInv, OpenInv
<1>2. PICK order \in [1..Len(spans) -> 1..Len(spans)] :
          /\ \A m, n \in 1..Len(spans) : order[m] = order[n] => m = n
          /\ spans' = [n \in 1..Len(spans) |-> spans[order[n]]]
  BY DEF SortSpans
<1> DEFINE N == Len(spans)
<1>3. N \in Nat /\ \A m \in 1..N : spans[m] \in SpanType
  BY <1>1
<1>4. /\ \A m \in 1..N : spans'[m] = spans[order[m]] /\ order[m] \in 1..N
      /\ Len(spans') = N /\ spans' \in Seq(SpanType)
  <2> HIDE DEF N
  <2>1. spans' = [n \in 1..N |-> spans[order[n]]] /\ order \in [1..N -> 1..N]
    BY <1>2 DEF N
  <2> QED
    BY <1>3, <2>1, SMTT(20)
<1>5. \A t \in 1..N : \E m \in 1..N : order[m] = t
  BY <1>2, <1>3, InjectionIsOnto
<1>6. IndexTypeOK'
  <2>1. pc' \in PC /\ i' \in Nat
    BY <1>0 DEF PC
  <2> QED
    BY <1>0, <1>4, <2>1 DEF IndexInv, IndexTypeOK, readerVars, searchVars
<1>7. SpansOf(numLogs)'
  <2> HIDE DEF N
  <2>0. \A m \in 1..N : /\ spans[m].log \in Logs /\ spans[m].log < numLogs
                        /\ sectionLen(spans[m].log) > 0
                        /\ spans[m] = Span(spans[m].log)
    BY <1>1 DEF SpansOf, N
  <2>1. \A m \in 1..N : /\ spans'[m].log \in Logs /\ spans'[m].log < numLogs
                        /\ sectionLen(spans'[m].log) > 0
                        /\ spans'[m] = Span(spans'[m].log)
    BY <1>4, <2>0
  <2>2. \A m, n \in 1..N : spans'[m].log = spans'[n].log => m = n
    <3>1. \A m, n \in 1..N : spans[m].log = spans[n].log => m = n
      BY <1>1 DEF SpansOf, N
    <3>2. \A m, n \in 1..N : order[m] = order[n] => m = n
      BY <1>2 DEF N
    <3> SUFFICES ASSUME NEW m \in 1..N, NEW n \in 1..N, spans'[m].log = spans'[n].log
                 PROVE  m = n
      OBVIOUS
    <3>3. /\ order[m] \in 1..N /\ order[n] \in 1..N
          /\ spans'[m] = spans[order[m]] /\ spans'[n] = spans[order[n]]
      BY <1>4
    <3>4. order[m] = order[n]
      BY <3>1, <3>3
    <3> QED
      BY <3>2, <3>4
  <2>3. \A k \in Logs : k < numLogs /\ sectionLen(k) > 0 => \E m \in 1..N : spans'[m].log = k
    <3>1. \A k \in Logs : k < numLogs /\ sectionLen(k) > 0 => \E t \in 1..N : spans[t].log = k
      BY <1>1 DEF SpansOf, N
    <3> SUFFICES ASSUME NEW k \in Logs, k < numLogs, sectionLen(k) > 0
                 PROVE  \E m \in 1..N : spans'[m].log = k
      OBVIOUS
    <3>2. PICK t \in 1..N : spans[t].log = k
      BY <3>1
    <3>3. PICK m \in 1..N : order[m] = t
      BY <1>5
    <3>4. spans'[m] = spans[t]
      BY <1>4, <3>3
    <3> QED
      BY <3>2, <3>4
  <2> QED
    BY <1>0, <1>4, <2>1, <2>2, <2>3, FileStays DEF SpansOf
<1>8. /\ NamesChecked(numFilenames)' /\ OrderChecked(numLogs)' /\ SectionsChecked(numLogs)'
  BY <1>0, <1>1, FileStays DEF NamesChecked, OrderChecked, SectionsChecked
<1>9. ApartUpTo(i)'
  <2>1. \A m \in 1..(N - 1) : ~(m < 1)
    BY <1>3
  <2> QED
    BY <1>0, <1>4, <2>1 DEF ApartUpTo
<1>10. NamesInv' /\ OrderInv' /\ SectionsInv' /\ OpenInv'
  <2>1. ~Accepted'
    BY <1>0 DEF Accepted
  <2> QED
    BY <1>0, <1>1, <1>8, <2>1 DEF NamesInv, OrderInv, SectionsInv, OpenInv
<1>11. SpansInv'
  <2>1. ~Accepted' /\ i' >= 1
    BY <1>0 DEF Accepted
  <2>2. InOrder(spans)'
    BY <1>0 DEF InOrder
  <2> QED
    BY <1>0, <1>7, <1>9, <2>1, <2>2 DEF SpansInv
<1>12. LookupInv' /\ LookupExact' /\ WellFormedAccepted'
  BY <1>0 DEF LookupInv, LookupExact, WellFormedAccepted
<1> QED
  BY <1>0, <1>1, <1>6, <1>10, <1>11, <1>12 DEF IndexInv

\* The loop over the sorted spans: neighbours that overlap are two sections
\* that share a place in the file.
LEMMA CheckOverlap_IndexInv ==
  ASSUME IndexInv, CheckOverlap
  PROVE  IndexInv'
<1>0. /\ UNCHANGED <<readerVars, spans, searchVars>> /\ UNCHANGED <<file, spans, ropen>>
      /\ pc = "overlap"
      /\ \/ pc' = pc /\ i' = i + 1 /\ i < Len(spans) /\ spans[i + 1].start >= spans[i].end
         \/ pc' = "rejected" /\ i' = i /\ i < Len(spans) /\ spans[i + 1].start < spans[i].end
         \/ pc' = "ready" /\ i' = 0 /\ i >= Len(spans)
  BY DEF CheckOverlap, Loop, Reject, Advance, readerVars
<1>1. /\ i \in Nat /\ i >= 1 /\ spans \in Seq(SpanType) /\ ropen /\ file \in File
      /\ SectionsChecked(numLogs) /\ NamesChecked(numFilenames) /\ OrderChecked(numLogs)
      /\ SpansOf(numLogs) /\ InOrder(spans) /\ ApartUpTo(i)
  BY <1>0 DEF IndexInv, IndexTypeOK, SectionsInv, SpansInv, NamesInv, OrderInv, OpenInv
<1>2. IndexTypeOK'
  <2>1. pc' \in PC /\ i' \in Nat
    BY <1>0, <1>1 DEF PC
  <2> QED
    BY <1>0, <2>1, ValidateTyped
<1>3. /\ NamesChecked(numFilenames)' /\ OrderChecked(numLogs)' /\ SectionsChecked(numLogs)'
      /\ SpansOf(numLogs)' /\ InOrder(spans)'
  BY <1>0, <1>1, FileStays, CheckedStays
<1>4. /\ Len(spans) \in Nat
      /\ \A m \in 1..Len(spans) : spans[m].start \in Int /\ spans[m].end \in Int
  <2>1. Len(spans) \in Nat /\ \A m \in 1..Len(spans) : spans[m] \in SpanType
    BY <1>1
  <2>2. Limit \in Nat
    BY IndexAssumption
  <2> QED
    BY <2>1, <2>2 DEF SpanType
<1>5. CASE pc' = "rejected" /\ i < Len(spans) /\ spans[i + 1].start < spans[i].end
  <2>1. SUFFICES ASSUME WellFormed PROVE FALSE
    BY <1>0, <1>2, <1>5, Ends_IndexInv
  <2>2. i \in 1..Len(spans) /\ i + 1 \in 1..Len(spans) /\ i < i + 1 /\ i # i + 1
    BY <1>1, <1>4, <1>5
  <2>3. PICK j \in Logs : j = spans[i].log /\ sectionLen(j) > 0 /\ spans[i] = Span(j)
    BY <1>1, <2>2 DEF SpansOf
  <2>4. PICK k \in Logs : k = spans[i + 1].log /\ sectionLen(k) > 0 /\ spans[i + 1] = Span(k)
    BY <1>1, <2>2 DEF SpansOf
  <2>5. j # k
    BY <1>1, <2>2, <2>3, <2>4 DEF SpansOf
  <2>6. InFile(j) /\ InFile(k) /\ DisjointSections(j, k)
    BY <2>1, <2>5 DEF WellFormed
  <2>7. /\ spans[i].start = Offset(j) /\ spans[i].end = SectionEnd(j)
        /\ spans[i + 1].start = Offset(k) /\ spans[i + 1].end = SectionEnd(k)
        /\ Offset(j) \in Nat /\ Offset(k) \in Nat /\ SectionEnd(j) \in Nat /\ SectionEnd(k) \in Nat
        /\ SectionEnd(k) = Offset(k) + sectionLen(k)
    BY <1>1, <2>3, <2>4, <2>6, SpanOfInFile
  <2>8. Offset(j) <= Offset(k)
    BY <1>1, <2>2, <2>7 DEF InOrder
  <2>9. SectionEnd(j) <= Offset(k) \/ SectionEnd(k) <= Offset(j)
    BY <2>3, <2>4, <2>6 DEF DisjointSections
  <2>10. sectionLen(k) \in Nat /\ sectionLen(k) > 0
    BY <1>1, <2>4, FileFacts, SMTT(20)
  <2>11. Offset(k) < SectionEnd(j)
    BY <1>5, <2>7
  <2> QED
    BY <2>7, <2>8, <2>9, <2>10, <2>11
<1>6. CASE pc' = "overlap" /\ i' = i + 1 /\ i < Len(spans) /\ spans[i + 1].start >= spans[i].end
  <2>1. ~Accepted' /\ ropen' /\ file' \in File
    BY <1>0, <1>1, <1>6 DEF Accepted
  <2>2. ApartUpTo(i)' /\ i' >= 1
    <3>1. \A m \in 1..(Len(spans) - 1) : m < i + 1 => m < i \/ m = i
      BY <1>1, <1>4
    <3>2. i \in 1..Len(spans) /\ i + 1 \in 1..Len(spans)
      BY <1>1, <1>4, <1>6
    <3>3. spans[i].end <= spans[i + 1].start
      BY <1>4, <1>6, <3>2
    <3>4. ApartUpTo(i + 1)
      BY <1>1, <3>1, <3>3 DEF ApartUpTo
    <3> QED
      BY <1>0, <1>1, <1>6, <3>4, CheckedStays
  <2>3. NamesInv' /\ OrderInv' /\ SectionsInv' /\ SpansInv' /\ OpenInv'
    BY <1>3, <1>6, <2>1, <2>2 DEF NamesInv, OrderInv, SectionsInv, SpansInv, OpenInv
  <2>4. LookupInv' /\ LookupExact' /\ WellFormedAccepted'
    BY <1>6 DEF LookupInv, LookupExact, WellFormedAccepted
  <2> QED
    BY <1>2, <2>1, <2>3, <2>4 DEF IndexInv
<1>7. CASE pc' = "ready" /\ i >= Len(spans)
  <2>1. Accepted' /\ file' \in File
    BY <1>0, <1>1, <1>7 DEF Accepted
  <2>2. ApartUpTo(Len(spans))'
    <3>1. \A m \in 1..(Len(spans) - 1) : m < i
      BY <1>1, <1>4, <1>7
    <3>2. ApartUpTo(Len(spans))
      BY <1>1, <3>1 DEF ApartUpTo
    <3> QED
      BY <1>0, <3>2, CheckedStays
  <2>3. NamesInv' /\ OrderInv' /\ SectionsInv' /\ SpansInv' /\ OpenInv'
    BY <1>3, <1>7, <2>1, <2>2 DEF NamesInv, OrderInv, SectionsInv, SpansInv, OpenInv
  <2>4. LookupInv' /\ LookupExact' /\ WellFormedAccepted'
    BY <1>7 DEF LookupInv, LookupExact, WellFormedAccepted
  <2> QED
    BY <1>2, <2>1, <2>3, <2>4 DEF IndexInv
<1> QED
  BY <1>0, <1>5, <1>6, <1>7

-----------------------------------------------------------------------------
(* Lookup and Close *)

\* A new Lookup has excluded no log yet.
LEMMA Lookup_IndexInv ==
  ASSUME IndexInv, NEW log \in LogId, NEW ts \in Timestamp, Lookup(log, ts)
  PROVE  IndexInv'
<1>0. /\ UNCHANGED <<closer, ropen, at>> /\ UNCHANGED <<file, spans>> /\ Accepted /\ Accepted'
      /\ pc' = "search" /\ i' = 0 /\ lo' = 0 /\ hi' = numLogs /\ names' = <<>>
      /\ query' = [log |-> log, ts |-> ts]
  BY DEF Lookup, Loop, Idle, Accepted, readerVars
<1>1. file \in File /\ numLogs \in Nat /\ log \in Nat /\ ts \in Nat
  BY FileFacts, IndexAssumption DEF IndexInv
<1>2. IndexTypeOK'
  BY <1>0, <1>1 DEF IndexInv, IndexTypeOK, PC
<1>3. pc' \in PC
  BY <1>0 DEF PC
<1>4. /\ file' \in File /\ NamesInv' /\ OrderInv' /\ SectionsInv' /\ SpansInv'
      /\ OpenInv' /\ WellFormedAccepted'
  BY <1>0, <1>3, AcceptedStays
<1>5. \A k \in Logs : 0 <= k /\ k < numLogs
  BY <1>1 DEF Logs
<1>6. LookupInv' /\ LookupExact'
  BY <1>0, <1>1, <1>5, FileStays DEF LookupInv, LookupExact
<1> QED
  BY <1>2, <1>4, <1>6 DEF IndexInv

\* One round of findLog: the half it drops holds no entry of the log, because
\* the directory ascends.
LEMMA Search_IndexInv ==
  ASSUME IndexInv, Search
  PROVE  IndexInv'
<1>0. /\ UNCHANGED <<closer, ropen, i, query, names>> /\ UNCHANGED <<file, spans>>
      /\ pc = "search" /\ lo < hi
      /\ \/ Log(mid0) < query.log /\ lo' = mid0 + 1 /\ pc' = "search" /\ hi' = hi /\ at' = at
         \/ Log(mid0) > query.log /\ hi' = mid0 /\ pc' = "search" /\ lo' = lo /\ at' = at
         \/ Log(mid0) = query.log /\ at' = mid0 /\ pc' = "read" /\ lo' = lo /\ hi' = hi
  BY DEF Search, LoAbove, HiAt, readerVars
<1>1. /\ file \in File /\ lo \in Nat /\ hi \in Nat /\ at \in Nat /\ query.log \in Nat
      /\ lo <= numLogs /\ hi <= numLogs /\ i = 0 /\ names = <<>>
      /\ \A k \in Logs : Log(k) = query.log => lo <= k /\ k < hi
  BY <1>0 DEF IndexInv, IndexTypeOK, LookupInv
<1>2. Accepted /\ Accepted' /\ pc' \in PC
  BY <1>0 DEF Accepted, PC
<1>3. mid0 \in Nat /\ lo <= mid0 /\ mid0 < hi
  BY <1>0, <1>1 DEF mid0
<1>4. mid0 \in Logs /\ Log(mid0) \in Nat /\ \A k \in Logs : k \in Nat /\ Log(k) \in Nat /\ k < numLogs
  BY <1>1, <1>3, FileFacts DEF Logs
<1>5. OrderChecked(numLogs)
  BY <1>2 DEF IndexInv, OrderInv
<1>6. IndexTypeOK'
  <2>1. lo' \in Nat /\ hi' \in Nat /\ at' \in Nat
    BY <1>0, <1>1, <1>3
  <2> QED
    BY <1>0, <1>2, <2>1 DEF IndexInv, IndexTypeOK
<1>7. /\ file' \in File /\ NamesInv' /\ OrderInv' /\ SectionsInv' /\ SpansInv'
      /\ OpenInv' /\ WellFormedAccepted'
  BY <1>0, <1>2, AcceptedStays
<1>8. LookupInv'
  <2>1. CASE Log(mid0) < query.log /\ lo' = mid0 + 1 /\ pc' = "search" /\ hi' = hi
    <3>1. \A k \in Logs : Log(k) = query.log => lo' <= k /\ k < hi'
      BY <1>1, <1>3, <1>4, <1>5, <2>1 DEF OrderChecked
    <3>2. lo' <= numLogs
      BY <1>1, <1>3, <2>1, FileFacts
    <3> QED
      BY <1>0, <1>1, <2>1, <3>1, <3>2, FileStays DEF LookupInv
  <2>2. CASE Log(mid0) > query.log /\ hi' = mid0 /\ pc' = "search" /\ lo' = lo
    <3>1. \A k \in Logs : Log(k) = query.log => lo' <= k /\ k < hi'
      BY <1>1, <1>3, <1>4, <1>5, <2>2 DEF OrderChecked
    <3>2. hi' <= numLogs
      BY <1>1, <1>3, <2>2, FileFacts
    <3> QED
      BY <1>0, <1>1, <2>2, <3>1, <3>2, FileStays DEF LookupInv
  <2>3. CASE Log(mid0) = query.log /\ at' = mid0 /\ pc' = "read"
    <3>1. at' \in Logs' /\ Log(at)' = query'.log
      BY <1>0, <1>4, <2>3 DEF Logs, Log, numLogs
    <3> QED
      BY <1>0, <1>1, <2>3, <3>1 DEF LookupInv
  <2> QED
    BY <1>0, <2>1, <2>2, <2>3
<1>9. LookupExact'
  BY <1>0 DEF LookupExact
<1> QED
  BY <1>6, <1>7, <1>8, <1>9 DEF IndexInv

\* A step of Lookup that only moves on keeps everything but the promise itself.
LEMMA LookupMoves ==
  ASSUME IndexInv, Accepted, pc' \in {"search", "read", "scan", "found", "failed"},
         UNCHANGED <<readerVars, i, spans, searchVars>>
  PROVE  /\ file' \in File /\ IndexTypeOK' /\ NamesInv' /\ OrderInv' /\ SectionsInv' /\ SpansInv'
         /\ OpenInv' /\ WellFormedAccepted'
<1>1. UNCHANGED <<file, spans>> /\ Accepted' /\ pc' \in PC
  BY DEF readerVars, Accepted, PC
<1>2. IndexTypeOK'
  BY <1>1 DEF IndexInv, IndexTypeOK, readerVars, searchVars
<1> QED
  BY <1>1, <1>2, AcceptedStays

\* findLog returning without a log: none is left between lo and hi.
LEMMA NotIndexed_IndexInv ==
  ASSUME IndexInv, NotIndexed
  PROVE  IndexInv'
<1>0. /\ UNCHANGED <<readerVars, i, spans, searchVars>> /\ UNCHANGED <<file, names, query>>
      /\ pc = "search" /\ lo >= hi /\ pc' = "found" /\ Accepted
  BY DEF NotIndexed, readerVars, searchVars, Accepted
<1>1. /\ file' \in File /\ IndexTypeOK' /\ NamesInv' /\ OrderInv' /\ SectionsInv' /\ SpansInv'
      /\ OpenInv' /\ WellFormedAccepted'
  BY <1>0, LookupMoves
<1>2. /\ lo \in Nat /\ hi \in Nat /\ names = <<>> /\ file \in File
      /\ \A k \in Logs : Log(k) = query.log => lo <= k /\ k < hi
  BY <1>0 DEF IndexInv, IndexTypeOK, LookupInv
<1>3. \A k \in Logs : Log(k) # query.log
  BY <1>0, <1>2, FileFacts, SMTT(20)
<1>4. LookupExact'
  BY <1>0, <1>2, <1>3, FileStays DEF LookupExact
<1>5. LookupInv'
  BY <1>0 DEF LookupInv
<1> QED
  BY <1>1, <1>4, <1>5 DEF IndexInv

\* The entries of the section are read, all of them or none.
LEMMA ReadEntries_IndexInv ==
  ASSUME IndexInv, ReadEntries
  PROVE  IndexInv'
<1>0. /\ UNCHANGED <<readerVars, i, spans, searchVars>> /\ UNCHANGED <<file, names, query, at, i>>
      /\ pc = "read" /\ Accepted
      /\ \/ pc' = "scan" /\ Readable(Signed(Offset(at)), sectionLen(at))
         \/ pc' = "failed"
  BY DEF ReadEntries, readerVars, searchVars, Accepted
<1>1. /\ file' \in File /\ IndexTypeOK' /\ NamesInv' /\ OrderInv' /\ SectionsInv' /\ SpansInv'
      /\ OpenInv' /\ WellFormedAccepted'
  BY <1>0, LookupMoves
<1>2. /\ file \in File /\ at \in Logs /\ Log(at) = query.log /\ i = 0 /\ names = <<>>
      /\ Count(at) \in Nat
  BY <1>0, FileFacts DEF IndexInv, LookupInv
<1>3. LookupExact'
  BY <1>0 DEF LookupExact
<1>4. CASE pc' = "scan" /\ Readable(Signed(Offset(at)), sectionLen(at))
  <2>1. Count(at) = 0 \/ /\ Signed(Offset(at)) >= 0
                         /\ Signed(Offset(at)) + sectionLen(at) <= file.size
    BY <1>2, <1>4, FileFacts DEF Readable
  <2>2. NamesBelow(at, i, query.ts)'
    <3>1. names' = <<>> /\ i' = 0 /\ Len(names') = 0
      BY <1>0, <1>2
    <3>2. 1..0 = {} /\ 0..(0 - 1) = {} /\ <<>> \in [{} -> {}]
      OBVIOUS
    <3>3. 1..Len(names') = {} /\ 0..(i' - 1) = {}
      BY <3>1, <3>2
    <3> QED
      BY <3>2, <3>3 DEF NamesBelow
  <2>3. /\ at' \in Logs' /\ Log(at)' = query'.log /\ i' <= Count(at)'
        /\ (Count(at) = 0)' \/ /\ (Signed(Offset(at)) >= 0)'
                               /\ (Signed(Offset(at)) + sectionLen(at) <= file.size)'
    BY <1>0, <1>2, <2>1 DEF Logs, numLogs, Log, Count, Offset, sectionLen, Signed
  <2>4. \A n \in 0..(i' - 1) : FALSE
    BY <1>0, <1>2
  <2>5. LookupInv'
    BY <1>4, <2>2, <2>3, <2>4 DEF LookupInv
  <2> QED
    BY <1>1, <1>3, <2>5 DEF IndexInv
<1>5. CASE pc' = "failed"
  <2>1. LookupInv'
    BY <1>5 DEF LookupInv
  <2> QED
    BY <1>1, <1>3, <2>1 DEF IndexInv
<1> QED
  BY <1>0, <1>4, <1>5

\* The loop over the entries is done: what it found is what Lookup promises,
\* and no other directory entry is for the same log.
LEMMA LookupReturns_IndexInv ==
  ASSUME IndexInv, LookupReturns
  PROVE  IndexInv'
<1>0. /\ UNCHANGED <<readerVars, i, spans, searchVars>> /\ UNCHANGED <<file, names, query, at, i>>
      /\ pc = "scan" /\ i = Count(at) /\ pc' = "found" /\ Accepted
  BY DEF LookupReturns, readerVars, searchVars, Accepted
<1>1. /\ file' \in File /\ IndexTypeOK' /\ NamesInv' /\ OrderInv' /\ SectionsInv' /\ SpansInv'
      /\ OpenInv' /\ WellFormedAccepted'
  BY <1>0, LookupMoves
<1>2. /\ file \in File /\ at \in Logs /\ Log(at) = query.log
      /\ NamesBelow(at, Count(at), query.ts)
      /\ \A n \in 0..(Count(at) - 1) : Entry(at, n).filter < numFilenames
  BY <1>0 DEF IndexInv, LookupInv
<1>3. \A k \in Logs : Log(k) = query.log => k = at
  <2>1. OrderChecked(numLogs)
    BY <1>0 DEF IndexInv, OrderInv
  <2>2. \A k \in Logs : k \in Nat /\ k < numLogs /\ Log(k) \in Nat
    BY <1>2, FileFacts DEF Logs
  <2> QED
    BY <1>2, <2>1, <2>2 DEF OrderChecked
<1>4. NamesOfCovering(at, query.ts)
  BY <1>2 DEF NamesBelow, NamesOfCovering
<1>5. LookupExact'
  <2>1. /\ \A k \in Logs : Log(k) = query.log =>
              /\ NamesOfCovering(k, query.ts)
              /\ \A n \in 0..(Count(k) - 1) : Entry(k, n).filter < numFilenames
        /\ \E k \in Logs : Log(k) = query.log
    BY <1>2, <1>3, <1>4
  <2>2. \A k, ts : NamesOfCovering(k, ts)' <=> NamesOfCovering(k, ts)
    BY <1>0, FileStays, SMTT(20) DEF NamesOfCovering
  <2> QED
    BY <1>0, <2>1, <2>2, FileStays DEF LookupExact
<1>6. LookupInv'
  BY <1>0 DEF LookupInv
<1> QED
  BY <1>1, <1>5, <1>6 DEF IndexInv

\* Close releases the reader of an index no Lookup is using.
LEMMA Close_IndexInv ==
  ASSUME IndexInv, Close
  PROVE  IndexInv'
<1>0. /\ UNCHANGED <<pc, i, lo, hi, at>> /\ UNCHANGED <<file, spans>> /\ UNCHANGED <<names, query>>
      /\ pc \in {"ready", "found", "failed"} /\ closer' = FALSE /\ ropen' = FALSE
  BY DEF Close, Idle, searchVars
<1>1. Accepted /\ Accepted' /\ pc' \in PC
  BY <1>0 DEF Accepted, PC
<1>2. IndexTypeOK'
  BY <1>0, <1>1 DEF IndexInv, IndexTypeOK
<1>3. /\ file' \in File /\ NamesInv' /\ OrderInv' /\ SectionsInv' /\ SpansInv'
      /\ OpenInv' /\ WellFormedAccepted'
  BY <1>0, <1>1, AcceptedStays
<1>4. LookupInv'
  BY <1>0 DEF LookupInv
<1>5. LookupExact'
  <2>1. \A k, ts : NamesOfCovering(k, ts)' <=> NamesOfCovering(k, ts)
    BY <1>0, FileStays, SMTT(20) DEF NamesOfCovering
  <2> QED
    BY <1>0, <2>1, FileStays DEF IndexInv, LookupExact
<1> QED
  BY <1>2, <1>3, <1>4, <1>5 DEF IndexInv

\* Entry n of fewer than c ends where or before the section of c entries does.
LEMMA EntryFits ==
  ASSUME NEW e \in Nat \ {0}, NEW c \in Nat, NEW n \in Nat, n < c
  PROVE  n * e \in Nat /\ n * e + e <= c * e
OBVIOUS

\* The entry the loop is at lies in the section that was read.
LEMMA EntryTyped ==
  ASSUME file \in File, NEW k \in Logs, NEW n \in Nat, n < Count(k),
         Count(k) = 0 \/ /\ Signed(Offset(k)) >= 0
                         /\ Signed(Offset(k)) + sectionLen(k) <= file.size
  PROVE  Entry(k, n) \in EntryData
<1>1. /\ Count(k) \in Nat /\ file.size \in 0..(Limit - 1) /\ Limit \in Nat
      /\ Signed(Offset(k)) \in Int /\ Signed(Offset(k)) >= 0
      /\ Signed(Offset(k)) + sectionLen(k) <= file.size
  BY FileFacts, SignedWord
<1>2. n * entrySize \in Nat /\ n * entrySize + entrySize <= Count(k) * entrySize
  BY <1>1, EntryFits, IndexAssumption
<1>3. Signed(Offset(k)) + n * entrySize \in 0..(Limit - 1)
  BY <1>1, <1>2, IndexAssumption, SMTT(20) DEF sectionLen
<1>4. file.entryAt \in [0..(Limit - 1) -> EntryData]
  BY IndexAssumption
<1> QED
  BY <1>3, <1>4 DEF Entry

\* One round of the loop over the entries: a covering entry adds its filter at
\* the end of what was found, another one adds nothing.
LEMMA NamesGrow ==
  ASSUME NEW k, NEW b \in Nat, NEW ts, names \in Seq(Seq(STRING)), NamesBelow(k, b, ts),
         names' = IF ts \in Entry(k, b).min..Entry(k, b).max
                  THEN Append(names, Filename(Entry(k, b).filter)) ELSE names,
         Filename(Entry(k, b).filter) \in Seq(STRING), UNCHANGED file
  PROVE  NamesBelow(k, b + 1, ts)'
<1> DEFINE L == Len(names)
           hit(n) == ts \in Entry(k, n).min..Entry(k, n).max
<1>1. PICK pos \in [1..L -> 0..(b - 1)] :
        /\ \A m, n \in 1..L : m < n => pos[m] < pos[n]
        /\ \A n \in 0..(b - 1) : hit(n) <=> \E m \in 1..L : pos[m] = n
        /\ \A m \in 1..L : names[m] = Filename(Entry(k, pos[m]).filter)
  BY DEF NamesBelow
<1>2. L \in Nat /\ (\A n \in 0..((b + 1) - 1) : n \in 0..(b - 1) \/ n = b) /\ b \in 0..((b + 1) - 1)
  OBVIOUS
<1>3. \A m \in 1..L : pos[m] \in 0..((b + 1) - 1) /\ pos[m] < b /\ pos[m] # b
  <2> HIDE DEF L
  <2>1. \A m \in 1..L : pos[m] \in 0..(b - 1)
    OBVIOUS
  <2> QED
    BY <2>1
<1> SUFFICES \E q \in [1..Len(names') -> 0..((b + 1) - 1)] :
               /\ \A m, n \in 1..Len(names') : m < n => q[m] < q[n]
               /\ \A n \in 0..((b + 1) - 1) : hit(n) <=> \E m \in 1..Len(names') : q[m] = n
               /\ \A m \in 1..Len(names') : names'[m] = Filename(Entry(k, q[m]).filter)
  <2> SUFFICES ASSUME NEW q \in [1..Len(names') -> 0..((b + 1) - 1)],
                      \A m, n \in 1..Len(names') : m < n => q[m] < q[n],
                      \A n \in 0..((b + 1) - 1) : hit(n) <=> \E m \in 1..Len(names') : q[m] = n,
                      \A m \in 1..Len(names') : names'[m] = Filename(Entry(k, q[m]).filter)
               PROVE  NamesBelow(k, b + 1, ts)'
    OBVIOUS
  <2>1. \A n : Entry(k, n)' = Entry(k, n)
    BY FileStays
  <2>2. \A m \in 1..Len(names') : names'[m] = (Filename(Entry(k, q[m]).filter))'
    BY <2>1, FileStays
  <2>3. \A n \in 0..((b + 1) - 1) :
          (ts \in Entry(k, n).min..Entry(k, n).max)' <=> \E m \in 1..Len(names') : q[m] = n
    BY <2>1
  <2> QED
    BY <2>2, <2>3 DEF NamesBelow
<1>4. CASE ~hit(b)
  <2>1. names' = names
    BY <1>4
  <2>2. pos \in [1..L -> 0..((b + 1) - 1)]
    BY <1>1, <1>3
  <2>3. \A n \in 0..((b + 1) - 1) : hit(n) <=> \E m \in 1..L : pos[m] = n
    BY <1>1, <1>2, <1>3, <1>4
  <2> QED
    BY <1>1, <2>1, <2>2, <2>3, ZenonT(30)
<1>5. CASE hit(b)
  <2> DEFINE q == [m \in 1..(L + 1) |-> IF m = L + 1 THEN b ELSE pos[m]]
  <2>1. /\ names' = Append(names, Filename(Entry(k, b).filter)) /\ Len(names') = L + 1
        /\ \A m \in 1..L : names'[m] = names[m]
        /\ names'[L + 1] = Filename(Entry(k, b).filter)
    BY <1>5
  <2>2. \A m \in 1..(L + 1) : m \in 1..L \/ m = L + 1
    BY <1>2
  <2>3. (\A m \in 1..L : q[m] = pos[m] /\ m \in 1..(L + 1)) /\ q[L + 1] = b /\ L + 1 \in 1..(L + 1)
    BY <1>2
  <2>4. q \in [1..(L + 1) -> 0..((b + 1) - 1)]
    BY <1>2, <1>3, <2>2
  <2> HIDE DEF q
  <2>5. \A m, n \in 1..(L + 1) : m < n => q[m] < q[n]
    <3> SUFFICES ASSUME NEW m \in 1..(L + 1), NEW n \in 1..(L + 1), m < n
                 PROVE  q[m] < q[n]
      OBVIOUS
    <3>1. m \in 1..L
      BY <1>2, <2>2
    <3>2. CASE n \in 1..L
      BY <1>1, <2>3, <3>1, <3>2
    <3>3. CASE n = L + 1
      BY <1>3, <2>3, <3>1, <3>3
    <3> QED
      BY <2>2, <3>2, <3>3
  <2>6. \A n \in 0..((b + 1) - 1) : hit(n) <=> \E m \in 1..(L + 1) : q[m] = n
    <3> SUFFICES ASSUME NEW n \in 0..((b + 1) - 1)
                 PROVE  hit(n) <=> \E m \in 1..(L + 1) : q[m] = n
      OBVIOUS
    <3>1. CASE n = b
      BY <1>5, <2>3, <3>1
    <3>2. CASE n \in 0..(b - 1) /\ n # b
      <4>1. hit(n) <=> \E m \in 1..L : pos[m] = n
        BY <1>1, <3>2
      <4>2. (\E m \in 1..L : pos[m] = n) <=> \E m \in 1..(L + 1) : q[m] = n
        BY <2>2, <2>3, <3>2
      <4> QED
        BY <4>1, <4>2
    <3> QED
      BY <1>2, <3>1, <3>2
  <2>7. \A m \in 1..(L + 1) : names'[m] = Filename(Entry(k, q[m]).filter)
    BY <1>1, <2>1, <2>2, <2>3
  <2>8. q \in [1..Len(names') -> 0..((b + 1) - 1)]
    BY <2>1, <2>4
  <2> HIDE DEF hit, L
  <2> WITNESS q \in [1..Len(names') -> 0..((b + 1) - 1)]
  <2>9. \A m, n \in 1..Len(names') : m < n => q[m] < q[n]
    BY <2>1, <2>5
  <2>10. \A n \in 0..((b + 1) - 1) : hit(n) <=> \E m \in 1..Len(names') : q[m] = n
    BY <2>1, <2>6
  <2>11. \A m \in 1..Len(names') : names'[m] = Filename(Entry(k, q[m]).filter)
    BY <2>1, <2>7
  <2> QED
    BY <2>9, <2>10, <2>11
<1> QED
  BY <1>4, <1>5

\* A round of the loop over the entries keeps the invariant.
LEMMA ScanEntry_IndexInv ==
  ASSUME IndexInv, ScanEntry
  PROVE  IndexInv'
<1>0. /\ UNCHANGED <<closer, ropen, lo, hi, at, query>> /\ UNCHANGED <<file, spans>>
      /\ pc = "scan" /\ Accepted /\ i < Count(at)
      /\ \/ pc' = "failed" /\ i' = i /\ names' = names
         \/ /\ pc' = "scan" /\ i' = i + 1 /\ Entry(at, i).filter < numFilenames
            /\ names' = IF Covers(Entry(at, i), query.ts)
                        THEN Append(names, Filename(Entry(at, i).filter)) ELSE names
  BY DEF ScanEntry, Advance, readerVars, Accepted
<1>1. /\ file \in File /\ i \in Nat /\ names \in Seq(Seq(STRING)) /\ query.ts \in Nat
      /\ at \in Logs /\ Log(at) = query.log /\ NamesBelow(at, i, query.ts)
      /\ Count(at) = 0 \/ /\ Signed(Offset(at)) >= 0
                          /\ Signed(Offset(at)) + sectionLen(at) <= file.size
      /\ \A n \in 0..(i - 1) : Entry(at, n).filter < numFilenames
  BY <1>0 DEF IndexInv, IndexTypeOK, LookupInv
<1>2. Accepted' /\ pc' \in PC
  BY <1>0 DEF Accepted, PC
<1>3. /\ file' \in File /\ NamesInv' /\ OrderInv' /\ SectionsInv' /\ SpansInv'
      /\ OpenInv' /\ WellFormedAccepted'
  BY <1>0, <1>2, AcceptedStays
<1>4. LookupExact'
  BY <1>0 DEF LookupExact
<1>5. CASE pc' = "failed" /\ i' = i /\ names' = names
  <2>1. IndexTypeOK'
    BY <1>0, <1>2, <1>5 DEF IndexInv, IndexTypeOK
  <2>2. LookupInv'
    BY <1>5 DEF LookupInv
  <2> QED
    BY <1>3, <1>4, <2>1, <2>2 DEF IndexInv
<1>6. CASE /\ pc' = "scan" /\ i' = i + 1 /\ Entry(at, i).filter < numFilenames
           /\ names' = IF Covers(Entry(at, i), query.ts)
                       THEN Append(names, Filename(Entry(at, i).filter)) ELSE names
  <2>1. Entry(at, i) \in EntryData
    BY <1>0, <1>1, EntryTyped
  <2>2. Filename(Entry(at, i).filter) \in Seq(STRING)
    <3>1. Entry(at, i).filter \in 0..(numFilenames - 1)
      BY <1>1, <1>6, <2>1, FileFacts DEF EntryData
    <3> QED
      BY <1>1, <3>1, FilenameTyped
  <2>3. Covers(Entry(at, i), query.ts) <=> query.ts \in Entry(at, i).min..Entry(at, i).max
    BY <1>1, <2>1 DEF EntryData, Covers
  <2>4. IndexTypeOK'
    <3>1. Append(names, Filename(Entry(at, i).filter)) \in Seq(Seq(STRING))
      BY <1>1, <2>2
    <3>2. names' \in Seq(Seq(STRING)) /\ i' \in Nat
      <4>1. names' \in Seq(Seq(STRING))
        BY <1>1, <1>6, <3>1, Zenon
      <4> QED
        BY <1>1, <1>6, <4>1
    <3> QED
      BY <1>0, <1>2, <3>2 DEF IndexInv, IndexTypeOK
  <2>5. PICK k, b, ts : k = at /\ b = i /\ ts = query.ts
    OBVIOUS
  <2>6. NamesBelow(k, b + 1, ts)'
    <3>1. names' = IF ts \in Entry(k, b).min..Entry(k, b).max
                   THEN Append(names, Filename(Entry(k, b).filter)) ELSE names
      BY <1>6, <2>3, <2>5
    <3> QED
      BY <1>0, <1>1, <2>2, <2>5, <3>1, NamesGrow
  <2>7. k = at' /\ b + 1 = i' /\ ts = query'.ts
    BY <1>0, <1>6, <2>5
  <2>8. i' <= Count(k)'
    <3>1. i + 1 <= Count(k)
      BY <1>0, <1>1, <2>5, FileFacts
    <3> QED
      BY <1>0, <1>6, <3>1, FileStays
  <2>9. \A n \in 0..(i' - 1) : (Entry(k, n).filter)' < numFilenames'
    <3>1. \A n \in 0..(i' - 1) : n \in 0..(i - 1) \/ n = i
      BY <1>1, <1>6
    <3> QED
      BY <1>0, <1>1, <1>6, <2>5, <3>1, FileStays
  <2>10. /\ at' \in Logs' /\ Log(at)' = query'.log
         /\ (Count(at) = 0)' \/ /\ (Signed(Offset(at)) >= 0)'
                                /\ (Signed(Offset(at)) + sectionLen(at) <= file.size)'
    BY <1>0, <1>1 DEF Logs, numLogs, Log, Count, Offset, sectionLen, Signed
  <2>11. LookupInv'
    <3>1. NamesBelow(at, i, query.ts)'
      BY <2>6, <2>7 DEF NamesBelow
    <3>2. (i <= Count(at))' /\ (\A n \in 0..(i - 1) : Entry(at, n).filter < numFilenames)'
      BY <2>7, <2>8, <2>9 DEF Count, Entry, Offset, Signed
    <3> QED
      BY <1>6, <2>10, <3>1, <3>2 DEF LookupInv
  <2> QED
    BY <1>3, <1>4, <2>4, <2>11 DEF IndexInv
<1> QED
  BY <1>0, <1>5, <1>6

\* Steps that change nothing.
LEMMA Stutter_IndexInv ==
  ASSUME IndexInv, UNCHANGED vars
  PROVE  IndexInv'
<1>0. UNCHANGED <<closer, ropen, pc, i, lo, hi, at, query, names>> /\ UNCHANGED <<file, spans>>
  BY DEF vars, readerVars, searchVars
<1>1. IndexTypeOK' /\ file' \in File /\ OpenInv' /\ (Accepted' <=> Accepted)
  BY <1>0 DEF IndexInv, IndexTypeOK, OpenInv, Accepted
<1>2. NamesInv' /\ OrderInv' /\ SectionsInv' /\ SpansInv'
  BY <1>0, <1>1, CheckedStays, FileStays
  DEF IndexInv, NamesInv, OrderInv, SectionsInv, SpansInv
<1>3. LookupInv'
  <2>1. CASE pc = "scan"
    <3>1. PICK k, b, ts : k = at /\ b = i /\ ts = query.ts
      OBVIOUS
    <3>2. NamesBelow(k, b, ts)
      BY <2>1, <3>1 DEF IndexInv, LookupInv
    <3>3. NamesBelow(k, b, ts)'
      BY <1>0, <3>2, FileStays DEF NamesBelow
    <3>4. k = at' /\ b = i' /\ ts = query'.ts
      BY <1>0, <3>1
    <3>5. NamesBelow(at, i, query.ts)'
      BY <3>3, <3>4 DEF NamesBelow
    <3> QED
      BY <1>0, <2>1, <3>5 DEF IndexInv, LookupInv, Logs, numLogs, numFilenames, Log, Count,
                              Offset, sectionLen, Signed, Entry
  <2>2. CASE pc # "scan"
    BY <1>0, <2>2 DEF IndexInv, LookupInv, Logs, numLogs, Log
  <2> QED
    BY <2>1, <2>2
<1>4. WellFormedAccepted'
  BY <1>0, WellFormedStays DEF IndexInv, WellFormedAccepted
<1>5. LookupExact'
  <2>1. \A k, ts : NamesOfCovering(k, ts)' <=> NamesOfCovering(k, ts)
    BY <1>0, FileStays, SMTT(20) DEF NamesOfCovering
  <2> QED
    BY <1>0, <2>1, FileStays DEF IndexInv, LookupExact
<1> QED
  BY <1>1, <1>2, <1>3, <1>4, <1>5 DEF IndexInv

-----------------------------------------------------------------------------
(* What the Index promises *)

\* The invariant holds in every state of every behaviour of the Index.
THEOREM Index_IndexInv == Spec => []IndexInv
<1>1. IndexInv /\ [Next]_vars => IndexInv'
  BY ReadHeader_IndexInv, ReadTables_IndexInv, CheckFilename_IndexInv, CheckOrder_IndexInv,
     CheckSection_IndexInv, SortSpans_IndexInv, CheckOverlap_IndexInv, Lookup_IndexInv,
     Search_IndexInv, NotIndexed_IndexInv, ReadEntries_IndexInv, ScanEntry_IndexInv,
     LookupReturns_IndexInv, Close_IndexInv, Stutter_IndexInv DEF Next, Step
<1> QED
  BY Init_IndexInv, <1>1, PTL DEF Spec

\* Every variable of the Index keeps its type.
THEOREM Index_TypeOK == Spec => []IndexTypeOK
<1>1. IndexInv => IndexTypeOK
  BY DEF IndexInv
<1> QED
  BY Index_IndexInv, <1>1, PTL

\* An accepted index has safe filenames, ascending log ids, and sections apart
\* from the tables and from each other.  Neighbouring spans are apart and their
\* starts ascend, so any two are.
THEOREM Index_AcceptedIsWellFormed == Spec => []AcceptedIsWellFormed
<1>1. IndexInv => AcceptedIsWellFormed
  <2> SUFFICES ASSUME IndexInv, Accepted
               PROVE  /\ \A k \in 0..(numFilenames - 1) : SafeName(Filename(k))
                      /\ \A j, k \in Logs : j < k => Log(j) < Log(k)
                      /\ \A k \in Logs : InFile(k) => Offset(k) >= tablesEnd
                      /\ \A j, k \in Logs :
                            j # k /\ InFile(j) /\ InFile(k) => DisjointSections(j, k)
    BY DEF AcceptedIsWellFormed
  <2>1. /\ file \in File /\ spans \in Seq(SpanType)
        /\ SectionsChecked(numLogs) /\ NamesChecked(numFilenames) /\ OrderChecked(numLogs)
        /\ SpansOf(numLogs) /\ InOrder(spans) /\ ApartUpTo(Len(spans))
    BY DEF IndexInv, IndexTypeOK, SectionsInv, SpansInv, NamesInv, OrderInv
  <2>2. \A k \in 0..(numFilenames - 1) : SafeName(Filename(k))
    BY <2>1, ValidName DEF NamesChecked
  <2>3. \A k \in Logs : k < numLogs
    BY <2>1, FileFacts DEF Logs
  <2>4. \A j, k \in Logs : j < k => Log(j) < Log(k)
    BY <2>1, <2>3 DEF OrderChecked
  <2>5. \A k \in Logs : InFile(k) => Offset(k) >= tablesEnd
    BY <2>1, <2>3, SpanOfInFile DEF SectionsChecked, SectionOK
  <2>6. /\ Len(spans) \in Nat
        /\ \A m \in 1..Len(spans) : spans[m].start \in Int /\ spans[m].end \in Int
    <3>1. Len(spans) \in Nat /\ \A m \in 1..Len(spans) : spans[m] \in SpanType
      BY <2>1
    <3>2. Limit \in Nat
      BY IndexAssumption
    <3> QED
      BY <3>1, <3>2 DEF SpanType
  <2>7. \A m, n \in 1..Len(spans) : m < n => spans[m].end <= spans[n].start
    <3> SUFFICES ASSUME NEW m \in 1..Len(spans), NEW n \in 1..Len(spans), m < n
                 PROVE  spans[m].end <= spans[n].start
      OBVIOUS
    <3>1. m \in 1..(Len(spans) - 1) /\ m < Len(spans) /\ m + 1 \in 1..Len(spans)
      BY <2>6
    <3>2. spans[m].end <= spans[m + 1].start
      BY <2>1, <3>1 DEF ApartUpTo
    <3>3. CASE m + 1 = n
      BY <3>2, <3>3
    <3>4. CASE m + 1 < n
      <4>1. spans[m + 1].start <= spans[n].start
        BY <2>1, <3>1, <3>4 DEF InOrder
      <4> QED
        BY <2>6, <3>1, <3>2, <4>1
    <3> QED
      BY <2>6, <3>3, <3>4
  <2>8. ASSUME NEW j \in Logs, NEW k \in Logs, j # k, InFile(j), InFile(k),
               sectionLen(j) > 0, sectionLen(k) > 0
        PROVE  SectionEnd(j) <= Offset(k) \/ SectionEnd(k) <= Offset(j)
    <3>1. PICK m \in 1..Len(spans) : spans[m].log = j
      BY <2>1, <2>3, <2>8 DEF SpansOf
    <3>2. PICK n \in 1..Len(spans) : spans[n].log = k
      BY <2>1, <2>3, <2>8 DEF SpansOf
    <3>3. /\ spans[m].start = Offset(j) /\ spans[m].end = SectionEnd(j)
          /\ spans[n].start = Offset(k) /\ spans[n].end = SectionEnd(k)
      <4>1. spans[m] = Span(j) /\ spans[n] = Span(k)
        BY <2>1, <3>1, <3>2 DEF SpansOf
      <4> QED
        BY <2>1, <2>8, <4>1, SpanOfInFile
    <3>4. m < n \/ n < m
      BY <2>6, <2>8, <3>1, <3>2
    <3> QED
      BY <2>7, <3>3, <3>4
  <2>9. \A j, k \in Logs : j # k /\ InFile(j) /\ InFile(k) => DisjointSections(j, k)
    BY <2>8 DEF DisjointSections
  <2> QED
    BY <2>2, <2>4, <2>5, <2>9
<1> QED
  BY Index_IndexInv, <1>1, PTL

\* No file that keeps to the format is rejected.
THEOREM Index_WellFormedAccepted == Spec => []WellFormedAccepted
<1>1. IndexInv => WellFormedAccepted
  BY DEF IndexInv
<1> QED
  BY Index_IndexInv, <1>1, PTL

\* Lookup returns the covering filters of the log, in entry order, and no others.
THEOREM Index_LookupExact == Spec => []LookupExact
<1>1. IndexInv => LookupExact
  BY DEF IndexInv
<1> QED
  BY Index_IndexInv, <1>1, PTL

-----------------------------------------------------------------------------
(* Lists in order *)

\* A finite set of numbers can be listed in order: the place of a number is
\* how many are smaller.
LEMMA SortedExists ==
  ASSUME NEW S \in SUBSET Nat, IsFiniteSet(S)
  PROVE  /\ Cardinality(S) \in Nat
         /\ \E ids \in [1..Cardinality(S) -> S] :
               \A j, k \in 1..Cardinality(S) : j < k => ids[j] < ids[k]
<1>1. PICK n \in Nat : n = Cardinality(S)
  BY FS_CardinalityType
<1> DEFINE Under(x) == {y \in S : y < x}
           pos == [x \in S |-> Cardinality(Under(x)) + 1]
<1>2. ASSUME NEW x \in S
      PROVE  /\ Under(x) \in SUBSET S /\ x \notin Under(x) /\ IsFiniteSet(Under(x))
             /\ Cardinality(Under(x)) \in Nat /\ Cardinality(Under(x)) < n
  <2>1. Under(x) \in SUBSET S /\ x \notin Under(x)
    OBVIOUS
  <2> HIDE DEF Under
  <2>2. /\ IsFiniteSet(Under(x)) /\ Cardinality(Under(x)) <= Cardinality(S)
        /\ Cardinality(S) = Cardinality(Under(x)) => S = Under(x)
    BY <2>1, FS_Subset
  <2>3. Cardinality(Under(x)) \in Nat
    BY <2>2, FS_CardinalityType
  <2> QED
    BY <1>1, <2>1, <2>2, <2>3
<1>3. ASSUME NEW x \in S, NEW y \in S, x < y
      PROVE  Cardinality(Under(x)) < Cardinality(Under(y))
  <2>0. \A w \in S : w < x => w < y
    BY <1>3
  <2>1. Under(x) \in SUBSET Under(y) /\ x \in Under(y) /\ x \notin Under(x)
    <3>1. Under(x) \in SUBSET Under(y)
      BY <2>0
    <3>2. x \in Under(y)
      BY <1>3
    <3>3. x \notin Under(x)
      BY <1>2
    <3> QED
      BY <3>1, <3>2, <3>3
  <2>2. IsFiniteSet(Under(y)) /\ Cardinality(Under(x)) \in Nat /\ Cardinality(Under(y)) \in Nat
    BY <1>2
  <2> HIDE DEF Under
  <2>3. /\ Cardinality(Under(x)) <= Cardinality(Under(y))
        /\ Cardinality(Under(y)) = Cardinality(Under(x)) => Under(y) = Under(x)
    BY <2>1, <2>2, FS_Subset
  <2> QED
    BY <2>1, <2>2, <2>3
<1>4. \A x \in S : pos[x] = Cardinality(Under(x)) + 1
  OBVIOUS
<1>5. \A x \in S : Cardinality(Under(x)) \in Nat /\ Cardinality(Under(x)) < n
  BY <1>2
<1>6. \A x, y \in S : x < y => Cardinality(Under(x)) < Cardinality(Under(y))
  BY <1>3
<1>7. pos \in [S -> 1..n]
  <2>1. ASSUME NEW x \in S PROVE Cardinality(Under(x)) + 1 \in 1..n
    <3>1. PICK u \in Nat : u = Cardinality(Under(x)) /\ u < n
      BY <1>5
    <3> QED
      BY <3>1
  <2> QED
    BY <2>1
<1> HIDE DEF pos, Under
<1>8. ASSUME NEW x \in S, NEW y \in S, x < y PROVE pos[x] < pos[y]
  BY <1>4, <1>5, <1>6, <1>8
<1>9. \A x, y \in S : pos[x] = pos[y] => x = y
  <2>1. ASSUME NEW x \in S, NEW y \in S, pos[x] = pos[y], x # y PROVE FALSE
    <3>1. x < y \/ y < x
      BY <2>1
    <3>2. pos[x] < pos[y] \/ pos[y] < pos[x]
      BY <1>8, <3>1
    <3>3. pos[x] \in Nat
      BY <1>7
    <3> QED
      BY <2>1, <3>2, <3>3
  <2> QED
    BY <2>1
<1>10. \A l \in 1..n : \E x \in S : pos[x] = l
  <2>1. pos \in Injection(S, 1..n)
    BY <1>7, <1>9 DEF Injection, IsInjective
  <2>2. IsFiniteSet(1..n) /\ Cardinality(1..n) = n
    BY FS_Interval
  <2>3. pos \in Surjection(S, 1..n)
    BY <1>1, <2>1, <2>2, FS_Injection
  <2> QED
    BY <2>3 DEF Surjection
<1> DEFINE ids == [l \in 1..n |-> CHOOSE x \in S : pos[x] = l]
<1>11. \A l \in 1..n : ids[l] \in S /\ pos[ids[l]] = l
  BY <1>10
<1>12. ids \in [1..n -> S]
  BY <1>11
<1> HIDE DEF ids
<1>13. ASSUME NEW j \in 1..n, NEW k \in 1..n, j < k PROVE ids[j] < ids[k]
  <2>1. ids[j] \in S /\ ids[k] \in S /\ pos[ids[j]] = j /\ pos[ids[k]] = k
    BY <1>11
  <2>2. PICK x \in S, y \in S : x = ids[j] /\ y = ids[k]
    BY <2>1
  <2>3. ~(y < x)
    <3>1. y < x => pos[y] < pos[x]
      BY <1>8
    <3>2. ~(k < j)
      BY <1>13
    <3> QED
      BY <2>1, <2>2, <3>1, <3>2
  <2>4. x # y
    BY <1>13, <2>1, <2>2
  <2>5. x \in Nat /\ y \in Nat
    OBVIOUS
  <2> QED
    BY <2>2, <2>3, <2>4, <2>5
<1> QED
  BY <1>1, <1>12, <1>13

-----------------------------------------------------------------------------
(* What Bytes writes *)

Interval == [LogId : Nat, MinTimestamp : Nat, MaxTimestamp : Nat]

\* The entries of an index of these filters.
EntryFor(filters) == [filter : 0..(Len(filters) - 1), min : Nat, max : Nat]

\* The entry for interval m of filter n, if it is one of the log.
Cell(filters, id, n, m) ==
    LET c == filters[n].Coverage[m]
    IN  IF c.LogId = id
        THEN <<[filter |-> Wrapped(n - 1), min |-> c.MinTimestamp, max |-> c.MaxTimestamp]>>
        ELSE <<>>
Cells(filters, id, n) == [m \in 1..Len(filters[n].Coverage) |-> Cell(filters, id, n, m)]

\* byLog, by its cells.
LEMMA byLogIs ==
  ASSUME NEW filters, NEW id
  PROVE  byLog(filters, id) =
           SX!FlattenSeq([n \in 1..Len(filters) |-> SX!FlattenSeq(Cells(filters, id, n))])
  BY DEF byLog, Cells, Cell

\* What the assumption says of the filters.
LEMMA FiltersTyped ==
  ASSUME NEW filters \in Encodable
  PROVE  /\ Len(filters) \in Nat /\ Len(filters) < 2 ^ CountWidth
         /\ \A n \in 1..Len(filters) :
               /\ filters[n].Filename \in Seq(STRING) /\ Len(filters[n].Filename) <= filenameSize
               /\ validateFilterFilename(filters[n].Filename)
               /\ filters[n].Coverage \in Seq(Interval)
<1>1. filters \in Filters /\ ~Panics(filters)
  BY DEF Encodable
<1>2. filters \in Seq([Filename : {name \in Seq(STRING) : validateFilterFilename(name)},
                       Coverage : Seq(Interval)])
  BY <1>1, EncoderAssumption DEF Interval
<1>3. Len(filters) \in Nat
  BY <1>2
<1>4. \A n \in 1..Len(filters) : /\ filters[n].Filename \in Seq(STRING)
                                 /\ validateFilterFilename(filters[n].Filename)
                                 /\ filters[n].Coverage \in Seq(Interval)
  <2>1. PICK Q, R : /\ Q = {name \in Seq(STRING) : validateFilterFilename(name)}
                    /\ R = [Filename : Q, Coverage : Seq(Interval)]
    OBVIOUS
  <2>2. filters \in Seq(R)
    BY <1>2, <2>1
  <2>3. ASSUME NEW n \in 1..Len(filters)
        PROVE  filters[n].Filename \in Q /\ filters[n].Coverage \in Seq(Interval)
    <3>1. filters[n] \in R
      BY <2>2
    <3> QED
      BY <2>1, <3>1
  <2> QED
    BY <2>1, <2>3
<1>5. Len(filters) < 2 ^ CountWidth
  BY <1>1, <1>3, EncoderAssumption DEF Panics
<1>6. \A n \in 1..Len(filters) : Len(filters[n].Filename) <= filenameSize
  <2>1. ASSUME NEW n \in 1..Len(filters) PROVE Len(filters[n].Filename) <= filenameSize
    <3>1. ~(Len(filters[n].Filename) > filenameSize)
      BY <1>1 DEF Panics
    <3>2. Len(filters[n].Filename) \in Nat
      BY <1>4
    <3> QED
      BY <3>1, <3>2, IndexAssumption
  <2> QED
    BY <2>1
<1> QED
  BY <1>3, <1>4, <1>5, <1>6

\* Counts that fit are kept.
LEMMA WrapFits ==
  ASSUME NEW n \in Nat, n < 2 ^ CountWidth
  PROVE  Wrapped(n) = n
<1>1. PICK L \in Nat \ {0} : L = 2 ^ CountWidth
  BY EncoderAssumption
<1>2. n \in 0..(L - 1)
  BY <1>1
<1>3. n % L = n
  BY <1>2, ModOnce
<1> QED
  BY <1>1, <1>3 DEF Wrapped

\* Each of them is an entry, with the number of its filter uncut.
LEMMA CellTyped ==
  ASSUME NEW filters \in Encodable, NEW id, NEW n \in 1..Len(filters),
         NEW m \in 1..Len(filters[n].Coverage)
  PROVE  /\ filters[n].Coverage[m] \in Interval /\ Wrapped(n - 1) = n - 1
         /\ [filter |-> n - 1, min |-> filters[n].Coverage[m].MinTimestamp,
             max |-> filters[n].Coverage[m].MaxTimestamp] \in EntryFor(filters)
         /\ Cell(filters, id, n, m) \in Seq(EntryFor(filters))
<1>1. filters[n].Coverage \in Seq(Interval)
  BY FiltersTyped
<1>2. PICK c \in Interval : c = filters[n].Coverage[m]
  BY <1>1
<1>3. Len(filters) \in Nat /\ Len(filters) < 2 ^ CountWidth
  BY FiltersTyped
<1>4. PICK L \in Nat : L = 2 ^ CountWidth
  BY EncoderAssumption
<1>5. n - 1 \in Nat /\ n - 1 < L /\ n - 1 \in 0..(Len(filters) - 1)
  BY <1>3, <1>4
<1>6. Wrapped(n - 1) = n - 1
  BY <1>4, <1>5, WrapFits
<1>7. PICK e : e = [filter |-> n - 1, min |-> c.MinTimestamp, max |-> c.MaxTimestamp]
  OBVIOUS
<1>8. e \in EntryFor(filters)
  BY <1>2, <1>5, <1>7 DEF EntryFor, Interval
<1>9. Cell(filters, id, n, m) = IF c.LogId = id THEN <<e>> ELSE <<>>
  BY <1>2, <1>6, <1>7 DEF Cell
<1>10. <<e>> \in Seq(EntryFor(filters)) /\ <<>> \in Seq(EntryFor(filters))
  BY <1>8
<1> QED
  BY <1>2, <1>6, <1>7, <1>8, <1>9, <1>10

\* The entries of a log.
LEMMA byLogTyped ==
  ASSUME NEW filters \in Encodable, NEW id
  PROVE  /\ byLog(filters, id) \in Seq(EntryFor(filters))
         /\ \A n \in 1..Len(filters) : Cells(filters, id, n) \in Seq(Seq(EntryFor(filters)))
         /\ [n \in 1..Len(filters) |-> SX!FlattenSeq(Cells(filters, id, n))]
              \in Seq(Seq(EntryFor(filters)))
<1>1. PICK E : E = EntryFor(filters)
  OBVIOUS
<1>2. Len(filters) \in Nat
  BY FiltersTyped
<1>3. ASSUME NEW n \in 1..Len(filters) PROVE Cells(filters, id, n) \in Seq(Seq(E))
  <2>1. filters[n].Coverage \in Seq(Interval)
    BY FiltersTyped
  <2>2. Len(filters[n].Coverage) \in Nat
    BY <2>1
  <2>3. \A m \in 1..Len(filters[n].Coverage) : Cell(filters, id, n, m) \in Seq(E)
    BY <1>1, CellTyped
  <2> QED
    BY <2>2, <2>3 DEF Cells
<1>4. ASSUME NEW n \in 1..Len(filters) PROVE SX!FlattenSeq(Cells(filters, id, n)) \in Seq(E)
  BY <1>3, FlattenType
<1>5. [n \in 1..Len(filters) |-> SX!FlattenSeq(Cells(filters, id, n))] \in Seq(Seq(E))
  BY <1>2, <1>4
<1>6. byLog(filters, id) \in Seq(E)
  BY <1>5, FlattenType, byLogIs
<1> QED
  BY <1>1, <1>3, <1>5, <1>6

\* The logs of the directory, in order.
LEMMA logIdsSorted ==
  ASSUME NEW filters \in Encodable
  PROVE  /\ logIds(filters) \in Seq(Nat) /\ Len(logIds(filters)) \in Nat
         /\ \A j, k \in 1..Len(logIds(filters)) : j < k => logIds(filters)[j] < logIds(filters)[k]
         /\ \A id \in LogsOf(filters) : \E k \in 1..Len(logIds(filters)) : logIds(filters)[k] = id
<1> DEFINE S == LogsOf(filters)
           T(n) == {c.LogId : c \in SX!ToSet(filters[n].Coverage)}
<1>1. Len(filters) \in Nat /\ \A n \in 1..Len(filters) : filters[n].Coverage \in Seq(Interval)
  BY FiltersTyped
<1>2. ASSUME NEW n \in 1..Len(filters) PROVE T(n) \in SUBSET Nat /\ IsFiniteSet(T(n))
  <2>1. PICK q \in Seq(Interval) : q = filters[n].Coverage
    BY <1>1
  <2>2. Len(q) \in Nat /\ DOMAIN q = 1..Len(q) /\ \A m \in 1..Len(q) : q[m] \in Interval
    OBVIOUS
  <2>3. T(n) = {q[m].LogId : m \in 1..Len(q)}
    BY <2>1, <2>2 DEF SX!ToSet
  <2>4. T(n) \in SUBSET Nat
    BY <2>2, <2>3 DEF Interval
  <2> DEFINE f == [m \in 1..Len(q) |-> q[m].LogId]
  <2>5. f \in Surjection(1..Len(q), T(n))
    BY <2>3 DEF Surjection
  <2>6. IsFiniteSet(1..Len(q))
    BY <2>2, FS_Interval
  <2> HIDE DEF f, T
  <2>7. IsFiniteSet(T(n))
    BY <2>5, <2>6, FS_Surjection
  <2> QED
    BY <2>4, <2>7
<1> HIDE DEF T
<1> DEFINE U == {T(n) : n \in 1..Len(filters)}
           h == [n \in 1..Len(filters) |-> T(n)]
<1>3. S = UNION U
  BY DEF LogsOf, T
<1>4. IsFiniteSet(U)
  <2>1. h \in Surjection(1..Len(filters), U)
    BY DEF Surjection
  <2>2. IsFiniteSet(1..Len(filters))
    BY <1>1, FS_Interval
  <2> HIDE DEF h, U
  <2> QED
    BY <2>1, <2>2, FS_Surjection
<1>5. \A V \in U : IsFiniteSet(V) /\ V \in SUBSET Nat
  BY <1>2
<1>6. S \in SUBSET Nat
  BY <1>3, <1>5
<1> HIDE DEF U, S
<1>7. IsFiniteSet(S)
  BY <1>3, <1>4, <1>5, FS_UNION
<1>8. PICK n \in Nat : n = Cardinality(S)
  BY <1>7, FS_CardinalityType
<1>9. \E ids \in [1..n -> S] : \A j, k \in 1..n : j < k => ids[j] < ids[k]
  BY <1>6, <1>7, <1>8, SortedExists
<1> DEFINE ids == CHOOSE ids \in [1..n -> S] : \A j, k \in 1..n : j < k => ids[j] < ids[k]
<1>10. logIds(filters) = ids
  BY <1>8 DEF logIds, S
<1>11. ids \in [1..n -> S] /\ \A j, k \in 1..n : j < k => ids[j] < ids[k]
  BY <1>9
<1> HIDE DEF ids
<1>12. ids \in Seq(Nat) /\ Len(ids) = n
  <2>1. ids = [k \in 1..n |-> ids[k]]
    BY <1>11
  <2>2. \A k \in 1..n : ids[k] \in Nat
    BY <1>6, <1>11
  <2>3. [k \in 1..n |-> ids[k]] \in Seq(Nat) /\ Len([k \in 1..n |-> ids[k]]) = n
    BY <2>2
  <2> QED
    BY <2>1, <2>3
<1>13. \A id \in S : \E k \in 1..n : ids[k] = id
  <2>1. ASSUME NEW j \in 1..n, NEW k \in 1..n, ids[j] = ids[k] PROVE j = k
    <3>1. ids[j] \in Nat /\ ids[k] \in Nat
      BY <1>6, <1>11
    <3> QED
      BY <1>11, <2>1, <3>1
  <2>2. ids \in Injection(1..n, S)
    BY <1>11, <2>1 DEF Injection, IsInjective
  <2>3. Cardinality(1..n) = n
    BY FS_Interval
  <2>4. ids \in Surjection(1..n, S)
    BY <1>7, <1>8, <2>2, <2>3, FS_Injection
  <2> QED
    BY <2>4 DEF Surjection
<1> QED
  BY <1>10, <1>11, <1>12, <1>13 DEF S

\* What the loop of Lookup adds for an entry.
Pick(filters, ts) ==
    [e \in EntryFor(filters) |-> IF Covers(e, ts) THEN <<filters[e.filter + 1].Filename>> ELSE <<>>]

\* Each entry gives a list of names.
LEMMA PickMaps ==
  ASSUME NEW filters \in Encodable, NEW ts
  PROVE  Maps(Pick(filters, ts), EntryFor(filters), Seq(STRING))
<1>1. ASSUME NEW e \in EntryFor(filters) PROVE Pick(filters, ts)[e] \in Seq(Seq(STRING))
  <2>1. e.filter \in 0..(Len(filters) - 1) /\ Len(filters) \in Nat
    BY FiltersTyped DEF EntryFor
  <2>2. e.filter + 1 \in 1..Len(filters)
    BY <2>1
  <2>3. filters[e.filter + 1].Filename \in Seq(STRING)
    BY <2>2, FiltersTyped
  <2>4. <<filters[e.filter + 1].Filename>> \in Seq(Seq(STRING)) /\ <<>> \in Seq(Seq(STRING))
    BY <2>3
  <2> QED
    BY <2>4 DEF Pick
<1> QED
  BY <1>1 DEF Maps

\* The filters that cover are those of the entries of the log that do.
LEMMA CoveringIs ==
  ASSUME NEW filters \in Encodable, NEW id, NEW ts \in Nat
  PROVE  Covering(filters, id, ts) = MapFlat(Pick(filters, ts), byLog(filters, id))
<1> DEFINE g == Pick(filters, ts)
           give(n, m) == LET c == filters[n].Coverage[m]
                         IN  IF c.LogId = id /\ ts \in c.MinTimestamp..c.MaxTimestamp
                             THEN <<filters[n].Filename>>
                             ELSE <<>>
           gives(n) == [m \in 1..Len(filters[n].Coverage) |-> give(n, m)]
<1>1. PICK E, N : E = EntryFor(filters) /\ N = Seq(STRING)
  OBVIOUS
<1>2. Maps(g, E, N)
  BY <1>1, PickMaps
<1>3. Covering(filters, id, ts) = SX!FlattenSeq([n \in 1..Len(filters) |-> SX!FlattenSeq(gives(n))])
  BY DEF Covering
<1>4. ASSUME NEW n \in 1..Len(filters), NEW m \in 1..Len(filters[n].Coverage)
      PROVE  MapFlat(g, Cell(filters, id, n, m)) = give(n, m)
  <2>1. PICK c \in Interval : c = filters[n].Coverage[m]
    BY CellTyped
  <2>2. PICK e : e = [filter |-> n - 1, min |-> c.MinTimestamp, max |-> c.MaxTimestamp]
    OBVIOUS
  <2>3. e \in EntryFor(filters)
    BY <2>1, <2>2, CellTyped
  <2>4. Cell(filters, id, n, m) = IF c.LogId = id THEN <<e>> ELSE <<>>
    BY <2>1, <2>2, CellTyped DEF Cell
  <2>5. MapFlat(g, <<>>) = <<>> /\ MapFlat(g, <<e>>) = g[e]
    BY <1>1, <1>2, <2>3, MapFlatSmall
  <2>6. Covers(e, ts) <=> ts \in c.MinTimestamp..c.MaxTimestamp
    BY <2>1, <2>2 DEF Covers, Interval
  <2>7. e.filter + 1 = n
    BY <2>2
  <2>8. g[e] = IF Covers(e, ts) THEN <<filters[n].Filename>> ELSE <<>>
    BY <2>3, <2>7 DEF Pick
  <2> HIDE DEF g
  <2> QED
    BY <2>1, <2>4, <2>5, <2>6, <2>8
<1> HIDE DEF g, give
<1>5. ASSUME NEW n \in 1..Len(filters)
      PROVE  MapFlat(g, SX!FlattenSeq(Cells(filters, id, n))) = SX!FlattenSeq(gives(n))
  <2>1. PICK ss \in Seq(Seq(E)) : ss = Cells(filters, id, n)
    BY <1>1, byLogTyped
  <2>2. MapFlat(g, SX!FlattenSeq(ss)) = SX!FlattenSeq([m \in 1..Len(ss) |-> MapFlat(g, ss[m])])
    BY <1>2, MapFlatFlatten
  <2>3. filters[n].Coverage \in Seq(Interval)
    BY FiltersTyped
  <2>4. Len(filters[n].Coverage) \in Nat
    BY <2>3
  <2>5. Len(ss) = Len(filters[n].Coverage)
    BY <2>1, <2>4 DEF Cells
  <2>6. \A m \in 1..Len(ss) : ss[m] = Cell(filters, id, n, m)
    BY <2>1, <2>5 DEF Cells
  <2>7. [m \in 1..Len(ss) |-> MapFlat(g, ss[m])] = gives(n)
    BY <1>4, <2>5, <2>6
  <2> QED
    BY <2>1, <2>2, <2>7
<1> HIDE DEF gives
<1>6. PICK tt \in Seq(Seq(E)) :
        tt = [n \in 1..Len(filters) |-> SX!FlattenSeq(Cells(filters, id, n))]
  BY <1>1, byLogTyped
<1>7. MapFlat(g, SX!FlattenSeq(tt)) = SX!FlattenSeq([n \in 1..Len(tt) |-> MapFlat(g, tt[n])])
  BY <1>2, MapFlatFlatten
<1>8. Len(tt) = Len(filters) /\ \A n \in 1..Len(tt) : tt[n] = SX!FlattenSeq(Cells(filters, id, n))
  BY <1>6, FiltersTyped
<1>9. [n \in 1..Len(tt) |-> MapFlat(g, tt[n])] = [n \in 1..Len(filters) |-> SX!FlattenSeq(gives(n))]
  BY <1>5, <1>8
<1>10. MapFlat(g, byLog(filters, id)) = Covering(filters, id, ts)
  BY <1>3, <1>6, <1>7, <1>9, byLogIs
<1> QED
  BY <1>10 DEF g

\* A log of no filter has no entries.
LEMMA NothingOfOthers ==
  ASSUME NEW filters \in Encodable, NEW id, id \notin LogsOf(filters), NEW ts \in Nat
  PROVE  Covering(filters, id, ts) = <<>>
<1>1. PICK E : E = EntryFor(filters)
  OBVIOUS
<1>2. Len(filters) \in Nat /\ \A n \in 1..Len(filters) : filters[n].Coverage \in Seq(Interval)
  BY FiltersTyped
<1>3. ASSUME NEW n \in 1..Len(filters), NEW m \in 1..Len(filters[n].Coverage)
      PROVE  Cell(filters, id, n, m) = <<>>
  <2>1. PICK q \in Seq(Interval) : q = filters[n].Coverage
    BY <1>2
  <2>2. m \in DOMAIN q
    BY <2>1
  <2>3. q[m].LogId \in {c.LogId : c \in SX!ToSet(filters[n].Coverage)}
    BY <2>1, <2>2 DEF SX!ToSet
  <2>4. q[m].LogId \in LogsOf(filters)
    BY <2>3 DEF LogsOf
  <2> QED
    BY <2>1, <2>4 DEF Cell
<1>4. ASSUME NEW n \in 1..Len(filters) PROVE SX!FlattenSeq(Cells(filters, id, n)) = <<>>
  <2>1. PICK ss \in Seq(Seq(E)) : ss = Cells(filters, id, n)
    BY <1>1, byLogTyped
  <2>2. Len(filters[n].Coverage) \in Nat
    <3>1. filters[n].Coverage \in Seq(Interval)
      BY <1>2
    <3> QED
      BY <3>1
  <2>3. Len(ss) = Len(filters[n].Coverage)
    BY <2>1, <2>2 DEF Cells
  <2>4. \A m \in 1..Len(ss) : ss[m] = <<>>
    BY <1>3, <2>1, <2>3 DEF Cells
  <2> QED
    BY <2>1, <2>4, FlattenEmpties
<1>5. PICK tt \in Seq(Seq(E)) :
        tt = [n \in 1..Len(filters) |-> SX!FlattenSeq(Cells(filters, id, n))]
  BY <1>1, byLogTyped
<1>6. Len(tt) = Len(filters) /\ \A n \in 1..Len(tt) : tt[n] = <<>>
  BY <1>2, <1>4, <1>5
<1>7. SX!FlattenSeq(tt) = <<>>
  BY <1>6, FlattenEmpties
<1>8. byLog(filters, id) = <<>>
  BY <1>5, <1>7, byLogIs
<1>9. MapFlat(Pick(filters, ts), <<>>) = <<>>
  BY PickMaps, MapFlatSmall
<1> QED
  BY <1>8, <1>9, CoveringIs

\* The name comes back from its slot.
LEMMA SlotName ==
  ASSUME NEW name \in Seq(STRING), Len(name) <= filenameSize, validateFilterFilename(name)
  PROVE  NameOf(Slot(name)) = name
<1> DEFINE s == Slot(name)
<1>0. PICK T : T = STRING \cup {"NUL"}
  OBVIOUS
<1>1. filenameSize \in Nat /\ Len(name) \in Nat /\ name \in Seq(T)
  BY <1>0, IndexAssumption
<1>2. /\ Len(s) = filenameSize /\ s \in Seq(T)
      /\ \A n \in 1..filenameSize : s[n] = IF n <= Len(name) THEN name[n] ELSE "NUL"
  <2>1. PICK l \in Nat : l = filenameSize
    BY <1>1
  <2> DEFINE cell(n) == IF n <= Len(name) THEN name[n] ELSE "NUL"
  <2>2. ASSUME NEW n \in 1..l PROVE cell(n) \in T
    <3>1. n <= Len(name) => n \in 1..Len(name)
      BY <1>1
    <3>2. n <= Len(name) => name[n] \in STRING
      BY <3>1
    <3>3. "NUL" \in T /\ \A x \in STRING : x \in T
      BY <1>0
    <3> QED
      BY <3>2, <3>3
  <2>3. s = [n \in 1..l |-> cell(n)]
    BY <2>1 DEF Slot
  <2> HIDE DEF cell, s
  <2>4. [n \in 1..l |-> cell(n)] \in Seq(T) /\ Len([n \in 1..l |-> cell(n)]) = l
    BY <2>2
  <2>5. \A n \in 1..l : s[n] = cell(n)
    BY <2>3
  <2> QED
    BY <2>1, <2>3, <2>4, <2>5 DEF cell
<1>3. \A n \in 1..Len(name) : name[n] # "NUL"
  BY DEF validateFilterFilename, Allowed
<1> HIDE DEF s
<1>4. Len(name) \in Ends(s)
  <2>1. Len(name) \in 0..Len(s)
    BY <1>1, <1>2
  <2>2. Len(name) # Len(s) => Len(name) + 1 \in 1..filenameSize /\ ~(Len(name) + 1 <= Len(name))
    BY <1>1, <1>2
  <2> QED
    BY <1>2, <2>1, <2>2 DEF Ends
<1>5. ASSUME NEW n \in Ends(s) PROVE Len(name) <= n
  <2>1. n \in 0..Len(s) /\ (n = Len(s) \/ s[n + 1] = "NUL")
    BY DEF Ends
  <2>2. ASSUME n < Len(name) PROVE FALSE
    <3>1. n # Len(s) /\ n + 1 \in 1..filenameSize /\ n + 1 <= Len(name) /\ n + 1 \in 1..Len(name)
      BY <1>1, <1>2, <2>1, <2>2
    <3> QED
      BY <1>2, <1>3, <2>1, <3>1
  <2> QED
    BY <1>1, <1>2, <2>1, <2>2
<1>6. (CHOOSE n \in Ends(s) : \A m \in Ends(s) : n <= m) = Len(name)
  <2>1. Ends(s) \subseteq Nat
    BY <1>1, <1>2 DEF Ends
  <2>2. ASSUME NEW n \in Ends(s), \A m \in Ends(s) : n <= m PROVE n = Len(name)
    BY <1>1, <1>4, <1>5, <2>1, <2>2
  <2> QED
    BY <1>4, <1>5, <2>2
<1>7. SubSeq(s, 1, Len(name)) = name
  <2>1. PICK t : t = SubSeq(s, 1, Len(name))
    OBVIOUS
  <2>2. t \in Seq(T) /\ Len(t) = Len(name) /\ \A n \in 1..Len(name) : t[n] = s[n]
    BY <1>1, <1>2, <2>1
  <2>3. \A n \in 1..Len(name) : t[n] = name[n]
    BY <1>1, <1>2, <2>2
  <2>4. t = name
    BY <2>2, <2>3
  <2> QED
    BY <2>1, <2>4
<1> QED
  BY <1>6, <1>7 DEF NameOf, s

\* The entries of all logs of the directory, log by log.
Sections(filters) == [j \in 1..Len(logIds(filters)) |-> byLog(filters, logIds(filters)[j])]

\* Each of them is a list of entries.
LEMMA SectionsTyped ==
  ASSUME NEW filters \in Encodable
  PROVE  /\ Sections(filters) \in Seq(Seq(EntryFor(filters)))
         /\ Len(Sections(filters)) = Len(logIds(filters))
         /\ \A k \in 1..Len(logIds(filters)) :
               /\ Sections(filters)[k] = byLog(filters, logIds(filters)[k])
               /\ Len(Sections(filters)[k]) \in Nat
<1>1. PICK l \in Nat : l = Len(logIds(filters))
  BY logIdsSorted
<1>2. PICK E : E = EntryFor(filters)
  OBVIOUS
<1>3. \A k \in 1..l : byLog(filters, logIds(filters)[k]) \in Seq(E)
  BY <1>2, byLogTyped
<1>4. Sections(filters) \in Seq(Seq(E)) /\ Len(Sections(filters)) = l
  BY <1>1, <1>3 DEF Sections
<1>5. \A k \in 1..l : Sections(filters)[k] = byLog(filters, logIds(filters)[k])
  BY <1>1 DEF Sections
<1>6. ASSUME NEW k \in 1..l PROVE Len(Sections(filters)[k]) \in Nat
  <2>1. Sections(filters)[k] \in Seq(E)
    BY <1>3, <1>5
  <2> QED
    BY <2>1
<1> QED
  BY <1>1, <1>2, <1>4, <1>5, <1>6

\* How many entries come before those of the k-th log.
Before(filters, k) == Len(EntriesOf(filters, k - 1))

\* They are the entries of the first k - 1 sections.
LEMMA BeforeIs ==
  ASSUME NEW filters \in Encodable, NEW k \in 1..(Len(logIds(filters)) + 1)
  PROVE  /\ EntriesOf(filters, k - 1) = SX!FlattenSeq(FirstOf(Sections(filters), k))
         /\ Before(filters, k) \in Nat
<1>1. PICK l \in Nat : l = Len(logIds(filters))
  BY logIdsSorted
<1>0. PICK E : E = EntryFor(filters)
  OBVIOUS
<1>2. PICK ss \in Seq(Seq(E)) : ss = Sections(filters)
  BY <1>0, SectionsTyped
<1>3. Len(ss) = l
  BY <1>1, <1>2, SectionsTyped
<1>4. FirstOf(ss, k) = [j \in 1..(k - 1) |-> byLog(filters, logIds(filters)[j])]
  <2>1. \A j \in 1..(k - 1) : j \in 1..l
    BY <1>1
  <2>2. \A j \in 1..(k - 1) : ss[j] = byLog(filters, logIds(filters)[j])
    BY <1>1, <1>2, <2>1, SectionsTyped
  <2> QED
    BY <2>2 DEF FirstOf
<1>5. PICK U : U = Seq(E)
  OBVIOUS
<1>6. ss \in Seq(U) /\ k \in 1..(Len(ss) + 1)
  BY <1>1, <1>3, <1>5
<1>7. FirstOf(ss, k) \in Seq(U)
  BY <1>6, FirstOfTyped
<1>8. SX!FlattenSeq(FirstOf(ss, k)) \in Seq(E)
  BY <1>5, <1>7, FlattenType
<1>9. EntriesOf(filters, k - 1) = SX!FlattenSeq(FirstOf(ss, k))
  BY <1>4 DEF EntriesOf
<1>10. Len(EntriesOf(filters, k - 1)) \in Nat
  BY <1>8, <1>9
<1> QED
  BY <1>2, <1>9, <1>10 DEF Before

\* The entries of a log end before those of every later log begin.
LEMMA SectionsApart ==
  ASSUME NEW filters \in Encodable, NEW k \in 1..Len(logIds(filters)),
         NEW j \in 1..(Len(logIds(filters)) + 1), k < j
  PROVE  /\ Before(filters, k) \in Nat /\ Before(filters, j) \in Nat
         /\ Len(byLog(filters, logIds(filters)[k])) \in Nat
         /\ Before(filters, k) + Len(byLog(filters, logIds(filters)[k])) <= Before(filters, j)
         /\ \A n \in 1..Len(byLog(filters, logIds(filters)[k])) :
               EntriesOf(filters, j - 1)[Before(filters, k) + n]
                 = byLog(filters, logIds(filters)[k])[n]
<1>1. PICK l \in Nat : l = Len(logIds(filters))
  BY logIdsSorted
<1>0. PICK E : E = EntryFor(filters)
  OBVIOUS
<1>2. PICK ss \in Seq(Seq(E)) : ss = Sections(filters)
  BY <1>0, SectionsTyped
<1>3. Len(ss) = l
  BY <1>1, <1>2, SectionsTyped
<1>4. k \in 1..(l + 1) /\ j \in 1..(l + 1) /\ k \in 1..(j - 1)
  BY <1>1
<1>5. PICK p \in Seq(Seq(E)) : p = FirstOf(ss, j) /\ Len(p) = j - 1
  <2>1. PICK U : U = Seq(E)
    OBVIOUS
  <2>2. ss \in Seq(U) /\ j \in 1..(Len(ss) + 1)
    BY <1>3, <1>4, <2>1
  <2>3. FirstOf(ss, j) \in Seq(U) /\ Len(FirstOf(ss, j)) = j - 1
    BY <2>2, FirstOfTyped
  <2> QED
    BY <2>1, <2>3
<1>6. k \in 1..Len(p)
  BY <1>4, <1>5
<1>7. FirstOf(p, k) = FirstOf(ss, k) /\ p[k] = ss[k]
  <2>1. \A m \in 1..(k - 1) : m \in 1..(j - 1)
    BY <1>1, <1>4
  <2>2. \A m \in 1..(j - 1) : p[m] = ss[m]
    BY <1>5 DEF FirstOf
  <2>3. \A m \in 1..(k - 1) : p[m] = ss[m]
    BY <2>1, <2>2
  <2> QED
    BY <1>4, <2>2, <2>3 DEF FirstOf
<1>8. ss[k] = byLog(filters, logIds(filters)[k])
  BY <1>2, SectionsTyped
<1>9. /\ EntriesOf(filters, k - 1) = SX!FlattenSeq(FirstOf(ss, k))
      /\ EntriesOf(filters, j - 1) = SX!FlattenSeq(p)
      /\ Before(filters, k) \in Nat /\ Before(filters, j) \in Nat
  BY <1>1, <1>2, <1>4, <1>5, BeforeIs
<1>10. Before(filters, k) = Len(SX!FlattenSeq(FirstOf(p, k)))
       /\ Before(filters, j) = Len(SX!FlattenSeq(p))
  BY <1>7, <1>9 DEF Before
<1>11. /\ Len(p[k]) \in Nat
       /\ Before(filters, k) + Len(p[k]) <= Before(filters, j)
       /\ \A n \in 1..Len(p[k]) : SX!FlattenSeq(p)[Before(filters, k) + n] = p[k][n]
  BY <1>6, <1>10, SegmentStands, ZenonT(30)
<1> QED
  BY <1>7, <1>8, <1>9, <1>11

-----------------------------------------------------------------------------
(* The file that Bytes writes *)

Encoded(filters) == filters \in Encodable /\ file = Bytes(filters)

\* A count that is cut does not grow.
LEMMA WrapBelow ==
  ASSUME NEW n \in Nat
  PROVE  Wrapped(n) \in Nat /\ Wrapped(n) <= n
<1>1. PICK L \in Nat \ {0} : L = 2 ^ CountWidth
  BY EncoderAssumption
<1>2. n % L \in 0..(L - 1)
  OBVIOUS
<1>3. CASE n < L
  BY <1>1, <1>3, WrapFits
<1>4. CASE n >= L
  BY <1>1, <1>2, <1>4 DEF Wrapped
<1> QED
  BY <1>1, <1>3, <1>4

\* What the reader of Index reads from it.
LEMMA FileIs ==
  ASSUME NEW filters, Encoded(filters)
  PROVE  /\ file \in File /\ file.magic
         /\ numFilenames = Len(filters) /\ numLogs = Len(logIds(filters))
         /\ tablesEnd = Tables(filters)
         /\ file.size = Tables(filters) + entrySize * Before(filters, Len(logIds(filters)) + 1)
         /\ \A k \in Logs : /\ k + 1 \in 1..Len(logIds(filters))
                            /\ Log(k) = logIds(filters)[k + 1]
                            /\ Offset(k) = Tables(filters) + entrySize * Before(filters, k + 1)
                            /\ Count(k) <= Len(byLog(filters, logIds(filters)[k + 1]))
                            /\ CountFits(filters, logIds(filters)[k + 1]) =>
                                  Count(k) = Len(byLog(filters, logIds(filters)[k + 1]))
         /\ \A k \in 0..(numFilenames - 1) : Filename(k) = filters[k + 1].Filename
<1>1. filters \in Encodable /\ file = Bytes(filters)
  BY DEF Encoded
<1>2. file \in File
  BY <1>1, EncoderAssumption DEF AllFiles
<1>3. PICK ids : ids = logIds(filters)
  OBVIOUS
<1>4. PICK l \in Nat : l = Len(ids)
  BY <1>1, <1>3, logIdsSorted
<1>5. PICK w \in Nat : w = Len(filters) /\ w < 2 ^ CountWidth
  BY <1>1, FiltersTyped
<1>6. Wrapped(w) = w
  BY <1>5, WrapFits
<1>7. /\ file.magic = TRUE
      /\ file.size = OffsetOf(filters, l + 1)
      /\ file.slots = [n \in 1..w |-> Slot(filters[n].Filename)]
      /\ file.dir = [k \in 1..l |-> [log |-> ids[k], off |-> OffsetOf(filters, k),
                                     count |-> Wrapped(Len(byLog(filters, ids[k])))]]
  BY <1>1, <1>3, <1>4, <1>5, <1>6 DEF Bytes
<1>8. numFilenames = w /\ numLogs = l
  BY <1>7 DEF numFilenames, numLogs
<1>9. tablesEnd = Tables(filters)
  <2>1. w * filenameSize = filenameSize * w /\ l * logDirEntrySize = logDirEntrySize * l
    BY IndexAssumption
  <2> QED
    BY <1>3, <1>4, <1>5, <1>8, <2>1, IndexAssumption DEF tablesEnd, Tables
<1>10. file.size = Tables(filters) + entrySize * Before(filters, l + 1)
  BY <1>7 DEF OffsetOf, Before
<1>11. ASSUME NEW k \in Logs
       PROVE  /\ k + 1 \in 1..l /\ Log(k) = ids[k + 1]
              /\ Offset(k) = Tables(filters) + entrySize * Before(filters, k + 1)
              /\ Count(k) <= Len(byLog(filters, ids[k + 1]))
              /\ CountFits(filters, ids[k + 1]) => Count(k) = Len(byLog(filters, ids[k + 1]))
  <2>1. k + 1 \in 1..l
    BY <1>8 DEF Logs
  <2>3. byLog(filters, ids[k + 1]) \in Seq(EntryFor(filters))
    BY <1>1, byLogTyped
  <2>4. Len(byLog(filters, ids[k + 1])) \in Nat
    BY <2>3
  <2>5. /\ Wrapped(Len(byLog(filters, ids[k + 1]))) <= Len(byLog(filters, ids[k + 1]))
        /\ CountFits(filters, ids[k + 1]) =>
              Wrapped(Len(byLog(filters, ids[k + 1]))) = Len(byLog(filters, ids[k + 1]))
    BY <2>4, WrapFits, WrapBelow DEF CountFits
  <2>6. file.dir[k + 1] = [log |-> ids[k + 1], off |-> OffsetOf(filters, k + 1),
                           count |-> Wrapped(Len(byLog(filters, ids[k + 1])))]
    BY <1>7, <2>1
  <2> QED
    BY <2>1, <2>5, <2>6 DEF Log, Offset, Count, OffsetOf, Before
<1>12. ASSUME NEW k \in 0..(w - 1) PROVE Filename(k) = filters[k + 1].Filename
  <2>1. k + 1 \in 1..w
    OBVIOUS
  <2>2. file.slots[k + 1] = Slot(filters[k + 1].Filename)
    BY <1>7, <2>1
  <2>3. /\ filters[k + 1].Filename \in Seq(STRING)
        /\ Len(filters[k + 1].Filename) <= filenameSize
        /\ validateFilterFilename(filters[k + 1].Filename)
    BY <1>1, <1>5, <2>1, FiltersTyped
  <2> QED
    BY <2>2, <2>3, SlotName DEF Filename
<1> QED
  BY <1>2, <1>3, <1>4, <1>5, <1>7, <1>8, <1>9, <1>10, <1>11, <1>12

\* Places that are entries apart.
LEMMA Scaled ==
  ASSUME NEW e \in Nat \ {0}, NEW a \in Nat, NEW c \in Nat
  PROVE  /\ e * a \in Nat /\ c * e \in Nat
         /\ e * a + c * e = (a + c) * e
         /\ \A b \in Nat : a + c <= b => e * a + c * e <= e * b
         /\ a <= c => a * e <= c * e
         /\ a * e = c * e => a = c
<1>1. e * a \in Nat /\ c * e \in Nat /\ e * a + c * e = (a + c) * e
  OBVIOUS
<1>2. ASSUME NEW b \in Nat, a + c <= b PROVE e * a + c * e <= e * b
  <2>1. PICK d \in Nat : b = a + c + d
    <3>1. b - a - c \in Nat /\ b = a + c + (b - a - c)
      BY <1>2
    <3> QED
      BY <3>1
  <2>2. e * b = e * a + c * e + e * d /\ e * d \in Nat
    BY <2>1
  <2> QED
    BY <1>1, <2>2
<1>3. ASSUME a <= c PROVE a * e <= c * e
  <2>1. PICK d \in Nat : c = a + d
    <3>1. c - a \in Nat /\ c = a + (c - a)
      BY <1>3
    <3> QED
      BY <3>1
  <2>2. c * e = a * e + d * e /\ d * e \in Nat /\ a * e \in Nat
    BY <2>1
  <2> QED
    BY <2>2
<1>4. ASSUME NEW x \in Nat, NEW y \in Nat, x < y PROVE x * e # y * e
  <2>1. PICK d \in Nat : y = x + 1 + d
    <3>1. y - x - 1 \in Nat /\ y = x + 1 + (y - x - 1)
      BY <1>4
    <3> QED
      BY <3>1
  <2>2. y * e = x * e + e + d * e /\ d * e \in Nat /\ x * e \in Nat
    BY <2>1
  <2> QED
    BY <2>2
<1>5. a * e = c * e => a = c
  <2>1. ASSUME a # c PROVE a * e # c * e
    <3>1. a < c \/ c < a
      BY <2>1
    <3> QED
      BY <1>4, <3>1
  <2> QED
    BY <2>1
<1> QED
  BY <1>1, <1>2, <1>3, <1>5

\* Where a section lies in the file: behind the tables, before every later
\* section and before the end of the file.
LEMMA SectionPlace ==
  ASSUME NEW filters, Encoded(filters), NEW k \in Logs
  PROVE  /\ Offset(k) \in Nat /\ SectionEnd(k) \in Nat /\ file.size \in Nat
         /\ Offset(k) >= tablesEnd /\ SectionEnd(k) <= file.size
         /\ file.size >= tablesEnd
         /\ \A j \in Logs : k < j => SectionEnd(k) <= Offset(j)
<1>1. PICK l \in Nat : l = Len(logIds(filters))
  BY logIdsSorted DEF Encoded
<1>2. PICK t \in Nat : t = Tables(filters) /\ t = tablesEnd
  BY FileIs, FileFacts
<1>3. PICK e \in Nat \ {0} : e = entrySize
  BY IndexAssumption
<1>4. filters \in Encodable
  BY DEF Encoded
<1>5. k \in Nat /\ k + 1 \in 1..l
  BY <1>1, FileIs, FileFacts
<1>6. PICK a \in Nat : a = Before(filters, k + 1)
  <2>1. k + 1 \in 1..(l + 1)
    BY <1>5
  <2> QED
    BY <1>1, <1>4, <2>1, BeforeIs
<1>7. PICK c \in Nat, d \in Nat : /\ c = Count(k) /\ d = Len(byLog(filters, logIds(filters)[k + 1]))
                                  /\ c <= d
  <2>1. byLog(filters, logIds(filters)[k + 1]) \in Seq(EntryFor(filters))
    BY <1>4, byLogTyped
  <2>2. Len(byLog(filters, logIds(filters)[k + 1])) \in Nat
    BY <2>1
  <2> QED
    BY <2>2, FileIs, FileFacts
<1>8. Offset(k) = t + e * a /\ SectionEnd(k) = t + (e * a + c * e)
  <2>1. Offset(k) = t + e * a
    BY <1>2, <1>3, <1>6, FileIs
  <2>2. e * a \in Nat /\ c * e \in Nat
    BY Scaled
  <2> QED
    BY <1>3, <1>7, <2>1, <2>2 DEF SectionEnd, sectionLen
<1>9. ASSUME NEW j \in 1..(l + 1), k + 1 < j
      PROVE  /\ Before(filters, j) \in Nat /\ e * Before(filters, j) \in Nat
             /\ SectionEnd(k) <= t + e * Before(filters, j)
  <2>1. PICK b \in Nat : b = Before(filters, j) /\ a + d <= b
    <3>1. PICK h \in 1..l : h = k + 1 /\ h < j
      BY <1>5, <1>9
    <3>2. /\ Before(filters, j) \in Nat
          /\ Before(filters, h) + Len(byLog(filters, logIds(filters)[h])) <= Before(filters, j)
      BY <1>1, <1>4, <3>1, SectionsApart
    <3> QED
      BY <1>6, <1>7, <3>1, <3>2
  <2>2. e * a + c * e <= e * b /\ e * a \in Nat /\ c * e \in Nat
    <3>1. a + c <= b
      BY <1>7, <2>1
    <3> QED
      BY <3>1, Scaled
  <2>3. e * b \in Nat
    BY <2>1, Scaled
  <2> QED
    BY <1>8, <2>1, <2>2, <2>3
<1>10. SectionEnd(k) <= file.size
  <2>1. l + 1 \in 1..(l + 1) /\ k + 1 < l + 1
    BY <1>5
  <2>2. file.size = t + e * Before(filters, l + 1)
    BY <1>1, <1>2, <1>3, FileIs
  <2> QED
    BY <1>9, <2>1, <2>2
<1>11. ASSUME NEW j \in Logs, k < j PROVE SectionEnd(k) <= Offset(j)
  <2>1. j \in Nat /\ j + 1 \in 1..l
    BY <1>1, FileIs, FileFacts
  <2>2. j + 1 \in 1..(l + 1) /\ k + 1 < j + 1
    BY <1>5, <1>11, <2>1
  <2>3. Offset(j) = t + e * Before(filters, j + 1)
    BY <1>2, <1>3, FileIs
  <2> QED
    BY <1>9, <2>2, <2>3
<1>12. /\ Offset(k) \in Nat /\ SectionEnd(k) \in Nat /\ Offset(k) >= t /\ SectionEnd(k) >= t
  <2>1. e * a \in Nat /\ c * e \in Nat
    BY Scaled
  <2> QED
    BY <1>8, <2>1
<1>13. file.size \in Nat
  BY FileIs, FileFacts
<1> QED
  BY <1>2, <1>10, <1>11, <1>12, <1>13

\* The file keeps to the format.
LEMMA EncodedWellFormed ==
  ASSUME NEW filters, Encoded(filters)
  PROVE  WellFormed
<1>1. file.magic /\ file \in File /\ filters \in Encodable
  BY FileIs DEF Encoded
<1>2. file.size >= tablesEnd /\ tablesEnd >= headerSize /\ tablesEnd \in Nat /\ file.size \in Nat
  <2>1. PICK t \in Nat : t = Tables(filters) /\ t = tablesEnd
    BY FileIs, FileFacts
  <2>2. PICK l \in Nat : l = Len(logIds(filters))
    BY <1>1, logIdsSorted
  <2>3. PICK b \in Nat : b = Before(filters, l + 1)
    <3>1. l + 1 \in 1..(l + 1)
      OBVIOUS
    <3> QED
      BY <1>1, <2>2, <3>1, BeforeIs
  <2>4. PICK e \in Nat \ {0} : e = entrySize
    BY IndexAssumption
  <2>5. e * b \in Nat
    BY Scaled
  <2>6. file.size = t + e * b
    BY <2>1, <2>2, <2>3, <2>4, FileIs
  <2>7. tablesEnd >= headerSize
    <3>1. PICK x \in Nat, y \in Nat : x = numFilenames * filenameSize /\ y = numLogs * logDirEntrySize
      <4>1. numFilenames \in Nat /\ numLogs \in Nat
        BY <1>1, FileFacts
      <4>2. \A u, v \in Nat : u * v \in Nat
        OBVIOUS
      <4> QED
        BY <4>1, <4>2, IndexAssumption
    <3> QED
      BY <3>1, IndexAssumption DEF tablesEnd
  <2> QED
    BY <2>1, <2>5, <2>6, <2>7
<1>3. file.size >= headerSize
  BY <1>2, IndexAssumption
<1>4. ASSUME NEW k \in 0..(numFilenames - 1)
      PROVE  /\ SafeName(Filename(k))
             /\ \A n \in 1..Len(Filename(k)) : Filename(k)[n] \in Allowed
  <2>1. numFilenames = Len(filters) /\ numFilenames \in Nat
    BY <1>1, FileIs, FileFacts
  <2>2. k + 1 \in 1..Len(filters)
    BY <2>1
  <2>3. Filename(k) = filters[k + 1].Filename
    BY FileIs
  <2>4. validateFilterFilename(Filename(k))
    BY <1>1, <2>2, <2>3, FiltersTyped
  <2>5. Filename(k) \in Seq(STRING)
    BY <1>1, FilenameTyped
  <2> QED
    BY <2>4, <2>5 DEF validateFilterFilename, SafeName, Allowed
<1>5. ASSUME NEW j \in Logs, NEW k \in Logs, j < k PROVE Log(j) < Log(k)
  <2>1. j \in Nat /\ k \in Nat /\ j + 1 \in 1..Len(logIds(filters)) /\ k + 1 \in 1..Len(logIds(filters))
    BY <1>1, FileIs, FileFacts
  <2>2. j + 1 < k + 1
    BY <1>5, <2>1
  <2>3. Log(j) = logIds(filters)[j + 1] /\ Log(k) = logIds(filters)[k + 1]
    BY FileIs
  <2> QED
    BY <1>1, <2>1, <2>2, <2>3, logIdsSorted
<1>6. \A k \in Logs : Offset(k) >= tablesEnd /\ InFile(k)
  BY SectionPlace DEF InFile
<1>7. ASSUME NEW j \in Logs, NEW k \in Logs, j # k PROVE DisjointSections(j, k)
  <2>1. j \in Nat /\ k \in Nat
    BY <1>1, FileFacts
  <2>2. j < k \/ k < j
    BY <1>7, <2>1
  <2> QED
    BY <2>2, SectionPlace DEF DisjointSections
<1> QED
  BY <1>1, <1>2, <1>3, <1>4, <1>5, <1>6, <1>7 DEF WellFormed

\* The reader finds the entries of a log where the writer put them.
LEMMA EntryIs ==
  ASSUME NEW filters, Encoded(filters), NEW k \in Logs, NEW n \in 0..(Count(k) - 1)
  PROVE  Entry(k, n) = byLog(filters, logIds(filters)[k + 1])[n + 1]
<1>1. filters \in Encodable /\ file = Bytes(filters) /\ file \in File
  BY FileIs DEF Encoded
<1>2. PICK l \in Nat : l = Len(logIds(filters))
  BY <1>1, logIdsSorted
<1>3. PICK t \in Nat : t = Tables(filters) /\ t = tablesEnd
  BY FileIs, FileFacts
<1>4. PICK e \in Nat \ {0} : e = entrySize
  BY IndexAssumption
<1>5. k \in Nat /\ k + 1 \in 1..l
  BY <1>2, FileIs, FileFacts
<1>6. PICK q : q = byLog(filters, logIds(filters)[k + 1])
  OBVIOUS
<1>7. PICK c \in Nat, d \in Nat : c = Count(k) /\ d = Len(q) /\ c <= d
  <2>1. q \in Seq(EntryFor(filters))
    BY <1>1, <1>6, byLogTyped
  <2>2. Len(q) \in Nat
    BY <2>1
  <2> QED
    BY <1>6, <2>2, FileIs, FileFacts
<1>8. n \in Nat /\ n + 1 \in 1..c /\ n <= c /\ n + 1 \in 1..d
  BY <1>7
<1> DEFINE a == Before(filters, k + 1)
           entries == EntriesOf(filters, l)
<1>9. /\ a \in Nat /\ Len(entries) \in Nat /\ a + d <= Len(entries)
      /\ entries[a + (n + 1)] = q[n + 1]
  <2>1. l + 1 \in 1..(l + 1) /\ k + 1 < l + 1 /\ l + 1 - 1 = l
    BY <1>5
  <2>2. Before(filters, l + 1) = Len(entries)
    BY <2>1 DEF Before
  <2>3. PICK j \in 1..(l + 1) : j = l + 1 /\ k + 1 < j /\ j - 1 = l
    BY <2>1
  <2>4. /\ a \in Nat /\ Before(filters, j) \in Nat /\ a + d <= Before(filters, j)
        /\ \A m \in 1..d : EntriesOf(filters, j - 1)[a + m] = q[m]
    <3>1. PICK h : h = k + 1
      OBVIOUS
    <3>2. h \in 1..Len(logIds(filters)) /\ j \in 1..(Len(logIds(filters)) + 1) /\ h < j
      BY <1>2, <1>5, <2>3, <3>1
    <3>3. q = byLog(filters, logIds(filters)[h]) /\ a = Before(filters, h)
      BY <1>6, <3>1
    <3> HIDE DEF a
    <3>4. /\ Before(filters, h) \in Nat /\ Before(filters, j) \in Nat
          /\ Before(filters, h) + Len(q) <= Before(filters, j)
          /\ \A m \in 1..Len(q) : EntriesOf(filters, j - 1)[Before(filters, h) + m] = q[m]
      BY <1>1, <3>2, <3>3, SectionsApart
    <3> QED
      BY <1>7, <3>3, <3>4
  <2>5. Before(filters, j) = Len(entries) /\ EntriesOf(filters, j - 1) = entries
    BY <2>2, <2>3
  <2> QED
    BY <1>8, <2>4, <2>5
<1>10. Offset(k) = t + e * a
  BY <1>3, <1>4, FileIs
<1> HIDE DEF a, entries
<1> DEFINE p == t + e * a + n * e
           x == a + n + 1
<1>11. /\ e * a \in Nat /\ n * e \in Nat /\ c * e \in Nat /\ n * e <= c * e
       /\ e * a + n * e = (a + n) * e
  BY <1>8, <1>9, Scaled
<1>12. Signed(Offset(k)) = Offset(k) /\ Offset(k) + c * e <= file.size /\ file.size \in 0..(Limit - 1)
  <2>1. InFile(k)
    BY SectionPlace DEF InFile
  <2>2. Span(k).start = Offset(k)
    BY <1>1, <2>1, SpanOfInFile
  <2>3. Offset(k) + c * e <= file.size
    BY <1>4, <1>7, <2>1 DEF InFile, SectionEnd, sectionLen
  <2> QED
    BY <1>1, <2>2, <2>3, FileFacts DEF Span
<1>13. p \in 0..(Limit - 1) /\ Signed(Offset(k)) + n * entrySize = p
  <2>1. PICK g \in Nat, h \in Nat, f \in Nat : g = e * a /\ h = n * e /\ f = c * e /\ h <= f
    BY <1>11
  <2>2. Offset(k) = t + g /\ t + g + f <= file.size /\ file.size \in Nat /\ Limit \in Nat
        /\ file.size <= Limit - 1
    BY <1>10, <1>12, <2>1, IndexAssumption
  <2>3. t + g + h \in 0..(Limit - 1)
    BY <2>1, <2>2
  <2>4. Signed(Offset(k)) + n * entrySize = t + g + h
    BY <1>4, <1>12, <2>1, <2>2
  <2> QED
    BY <2>1, <2>3, <2>4
<1>14. Entry(k, n) = EntryAt(filters, p)
  <2>1. file.entryAt = [r \in 0..(Limit - 1) |-> EntryAt(filters, r)]
    BY <1>1 DEF Bytes
  <2> HIDE DEF p
  <2> QED
    BY <1>13, <2>1 DEF Entry
<1>15. x \in 1..Len(entries) /\ p = t + (x - 1) * e
  <2>1. x \in 1..Len(entries) /\ x - 1 = a + n
    BY <1>8, <1>9
  <2> HIDE DEF x
  <2> QED
    BY <1>8, <1>9, <1>11, <2>1, SMTT(20)
<1>16. ASSUME NEW y \in 1..Len(entries), p = t + (y - 1) * e PROVE y = x
  <2>1. PICK u \in Nat, v \in Nat : u = y - 1 /\ v = x - 1
    <3>1. y - 1 \in Nat /\ x - 1 \in Nat
      BY <1>9, <1>15
    <3> QED
      BY <3>1
  <2> HIDE DEF x, p
  <2>2. u * e \in Nat /\ v * e \in Nat
    BY Scaled
  <2>3. t + u * e = t + v * e
    BY <1>15, <1>16, <2>1
  <2>4. u * e = v * e
    BY <2>2, <2>3
  <2>5. u = v
    BY <2>4, Scaled
  <2> QED
    BY <1>9, <1>15, <2>1, <2>5
<1> HIDE DEF p, x
<1>17. EntryAt(filters, p) = entries[x]
  <2>1. (CHOOSE y \in 1..Len(entries) : p = t + (y - 1) * e) = x
    BY <1>15, <1>16
  <2>2. \E y \in 1..Len(entries) : p = t + (y - 1) * e
    BY <1>15
  <2> QED
    BY <1>2, <1>3, <1>4, <2>1, <2>2 DEF EntryAt, entries
<1>18. a + (n + 1) = x
  BY <1>8, <1>9 DEF x
<1> QED
  BY <1>6, <1>9, <1>14, <1>17, <1>18

\* What the loop over the entries has found of an encoded file's filters, and
\* what it returns.
ServedInv ==
    \A filters \in src :
        /\ filters \in Encodable /\ file = Bytes(filters)
        /\ pc = "scan" =>
              names = MapFlat(Pick(filters, query.ts), FirstOf(byLog(filters, query.log), i + 1))
        /\ pc = "found" /\ CountFits(filters, query.log) =>
              names = Covering(filters, query.log, query.ts)

\* The reader starts as on any other file, and has found nothing.
LEMMA EncoderInit_Init ==
  EncoderInit => Init /\ ServedInv
<1> SUFFICES ASSUME EncoderInit PROVE Init /\ ServedInv
  OBVIOUS
<1>1. CallInit /\ pc = "header"
  BY DEF EncoderInit, CallInit
<1>2. CASE src = {} /\ file \in Given
  <2>1. file \in File
    BY <1>2, EncoderAssumption DEF AllFiles
  <2> QED
    BY <1>1, <1>2, <2>1 DEF Init, ServedInv
<1>3. CASE \E filters \in Encodable : src = {filters} /\ file = Bytes(filters)
  <2>1. PICK filters \in Encodable : src = {filters} /\ file = Bytes(filters)
    BY <1>3
  <2>2. file \in AllFiles
    BY <2>1 DEF AllFiles
  <2>3. file \in File
    BY <2>2, EncoderAssumption
  <2>4. pc # "scan" /\ pc # "found"
    BY <1>1
  <2>5. ServedInv
    BY <2>1, <2>4 DEF ServedInv
  <2> QED
    BY <1>1, <2>3, <2>5 DEF Init
<1> QED
  BY <1>2, <1>3 DEF EncoderInit

\* The log that findLog has found, and its entries.
LEMMA FoundLog ==
  ASSUME NEW filters, Encoded(filters), IndexInv, pc \in {"read", "scan"}
  PROVE  /\ at \in Logs /\ logIds(filters)[at + 1] = query.log
         /\ byLog(filters, query.log) \in Seq(EntryFor(filters))
         /\ Count(at) <= Len(byLog(filters, query.log)) /\ Count(at) \in Nat
         /\ CountFits(filters, query.log) => Count(at) = Len(byLog(filters, query.log))
         /\ \A n \in 0..(Count(at) - 1) : Entry(at, n) = byLog(filters, query.log)[n + 1]
         /\ i \in Nat /\ query.ts \in Nat
<1>1. at \in Logs /\ Log(at) = query.log /\ file \in File
  BY DEF IndexInv, LookupInv
<1>2. /\ logIds(filters)[at + 1] = query.log /\ Count(at) <= Len(byLog(filters, query.log))
      /\ CountFits(filters, query.log) => Count(at) = Len(byLog(filters, query.log))
  BY <1>1, FileIs
<1>3. byLog(filters, query.log) \in Seq(EntryFor(filters))
  BY byLogTyped DEF Encoded
<1>4. \A n \in 0..(Count(at) - 1) : Entry(at, n) = byLog(filters, query.log)[n + 1]
  BY <1>1, <1>2, EntryIs
<1>5. Count(at) \in Nat
  BY <1>1, FileFacts
<1>6. i \in Nat /\ query.ts \in Nat
  BY DEF IndexInv, IndexTypeOK
<1> QED
  BY <1>1, <1>2, <1>3, <1>4, <1>5, <1>6

\* Nothing is found before the first entry.
LEMMA ReadEntries_Served ==
  ASSUME NEW filters, Encoded(filters), IndexInv, ReadEntries, pc' = "scan"
  PROVE  (names = MapFlat(Pick(filters, query.ts), FirstOf(byLog(filters, query.log), i + 1)))'
<1>1. i = 0 /\ names = <<>> /\ UNCHANGED <<i, query, names>>
  BY DEF IndexInv, LookupInv, ReadEntries, searchVars
<1>2. FirstOf(byLog(filters, query.log), i + 1) = <<>>
  BY <1>1 DEF FirstOf
<1>3. MapFlat(Pick(filters, query.ts), <<>>) = <<>>
  BY PickMaps, MapFlatSmall DEF Encoded
<1>4. names = MapFlat(Pick(filters, query.ts), FirstOf(byLog(filters, query.log), i + 1))
  BY <1>1, <1>2, <1>3
<1>5. PICK F : F = FirstOf(byLog(filters, query.log), i + 1)
  OBVIOUS
<1> QED
  BY <1>1, <1>4

\* A log that the directory does not list is covered by no filter.
LEMMA NotIndexed_Served ==
  ASSUME NEW filters, Encoded(filters), IndexInv, NotIndexed
  PROVE  (names = Covering(filters, query.log, query.ts))'
<1>1. /\ names = <<>> /\ lo \in Nat /\ hi \in Nat /\ lo >= hi
      /\ \A k \in Logs : Log(k) = query.log => lo <= k /\ k < hi
      /\ query.ts \in Nat /\ UNCHANGED <<names, query>>
  BY DEF IndexInv, IndexTypeOK, LookupInv, NotIndexed, searchVars
<1>2. filters \in Encodable /\ numLogs = Len(logIds(filters)) /\ numLogs \in Nat /\ file \in File
  BY FileIs, FileFacts DEF Encoded
<1>3. query.log \notin LogsOf(filters)
  <2>1. ASSUME query.log \in LogsOf(filters) PROVE FALSE
    <3>1. PICK j \in 1..Len(logIds(filters)) : logIds(filters)[j] = query.log
      BY <1>2, <2>1, logIdsSorted
    <3>2. PICK k \in Logs : k + 1 = j
      <4>1. j - 1 \in Logs /\ j - 1 + 1 = j
        BY <1>2 DEF Logs
      <4> QED
        BY <4>1
    <3>3. Log(k) = query.log
      BY <3>1, <3>2, FileIs
    <3>4. lo <= k /\ k < hi /\ k \in Nat
      BY <1>1, <1>2, <3>3, FileFacts
    <3> QED
      BY <1>1, <3>4
  <2> QED
    BY <2>1
<1>4. names = Covering(filters, query.log, query.ts)
  BY <1>1, <1>2, <1>3, NothingOfOthers
<1> QED
  BY <1>1, <1>4

\* One round of the loop gives what one more entry does.
LEMMA ScanEntry_Served ==
  ASSUME NEW filters, Encoded(filters), IndexInv, ScanEntry, pc' = "scan",
         names = MapFlat(Pick(filters, query.ts), FirstOf(byLog(filters, query.log), i + 1))
  PROVE  (names = MapFlat(Pick(filters, query.ts), FirstOf(byLog(filters, query.log), i + 1)))'
<1>1. pc = "scan" /\ i < Count(at) /\ UNCHANGED <<query, at>>
  BY DEF ScanEntry
<1>2. /\ at \in Logs /\ byLog(filters, query.log) \in Seq(EntryFor(filters))
      /\ Count(at) <= Len(byLog(filters, query.log)) /\ Count(at) \in Nat
      /\ \A n \in 0..(Count(at) - 1) : Entry(at, n) = byLog(filters, query.log)[n + 1]
      /\ i \in Nat /\ query.ts \in Nat
  BY <1>1, FoundLog
<1>3. PICK S : S = EntryFor(filters)
  OBVIOUS
<1>4. PICK q \in Seq(S) : q = byLog(filters, query.log)
  BY <1>2, <1>3
<1>5. i \in 0..(Count(at) - 1) /\ i + 1 \in 1..Len(q) /\ i + 1 \in 1..(Len(q) + 1)
      /\ i + 2 \in 1..(Len(q) + 1)
  BY <1>1, <1>2, <1>4
<1>6. PICK e \in S : e = q[i + 1] /\ e = Entry(at, i)
  BY <1>2, <1>4, <1>5
<1>7. PICK g : g = Pick(filters, query.ts)
  OBVIOUS
<1>8. Maps(g, S, Seq(STRING))
  BY <1>3, <1>7, PickMaps DEF Encoded
<1>9. PICK f \in Seq(S) : f = FirstOf(q, i + 1) /\ Len(f) = i + 1 - 1
  BY <1>5, FirstOfTyped
<1>10. FirstOf(q, i + 2) = Append(f, e)
  <2>1. FirstOf(q, i + 2) \in Seq(S) /\ Len(FirstOf(q, i + 2)) = i + 2 - 1
    BY <1>5, FirstOfTyped
  <2>2. PICK h \in Seq(S) : h = FirstOf(q, i + 2)
    BY <2>1
  <2>3. Len(h) = i + 1 /\ Len(f) = i
    BY <1>2, <1>9, <2>1, <2>2
  <2>4. \A m \in 1..(i + 1) : h[m] = q[m]
    BY <1>2, <2>2 DEF FirstOf
  <2>5. \A m \in 1..i : f[m] = q[m]
    BY <1>2, <1>9 DEF FirstOf
  <2>6. \A m \in 1..i : m \in 1..(i + 1)
    BY <1>2
  <2>7. \A m \in 1..Len(f) : h[m] = f[m]
    BY <2>3, <2>4, <2>5, <2>6
  <2>8. h[Len(f) + 1] = e
    <3>1. i + 1 \in 1..(i + 1)
      BY <1>2
    <3>2. h[i + 1] = e
      BY <1>6, <2>4, <3>1
    <3> QED
      BY <2>3, <3>2
  <2>9. h = Append(f, e)
    BY <1>2, <2>3, <2>7, <2>8, AppendIs
  <2> QED
    BY <2>2, <2>9
<1>11. MapFlat(g, FirstOf(q, i + 2)) = MapFlat(g, f) \o g[e]
  BY <1>8, <1>10, MapFlatAppend, ZenonT(30)
<1>12. names = MapFlat(g, f)
  BY <1>4, <1>7, <1>9
<1>13. g[e] = IF Covers(e, query.ts) THEN <<filters[e.filter + 1].Filename>> ELSE <<>>
  BY <1>3, <1>7 DEF Pick
<1>14. /\ e.filter < numFilenames /\ i' = i + 1
       /\ names' = IF Covers(e, query.ts) THEN Append(names, Filename(e.filter)) ELSE names
  BY <1>1, <1>6 DEF ScanEntry, Advance
<1>15. Filename(e.filter) = filters[e.filter + 1].Filename
  <2>1. e.filter \in 0..(Len(filters) - 1)
    BY <1>3 DEF EntryFor
  <2> QED
    BY <2>1, FileIs
<1>16. names \in Seq(Seq(STRING)) /\ Filename(e.filter) \in Seq(STRING)
  <2>1. names \in Seq(Seq(STRING))
    BY DEF IndexInv, IndexTypeOK
  <2>2. e.filter \in 0..(numFilenames - 1) /\ file \in File
    BY <1>3, FileIs DEF EntryFor
  <2> QED
    BY <2>1, <2>2, FilenameTyped
<1>17. names' = names \o g[e]
  <2>1. PICK N : N = Seq(STRING)
    OBVIOUS
  <2>2. PICK x \in N : x = Filename(e.filter)
    BY <1>16, <2>1
  <2>3. names \in Seq(N)
    BY <1>16, <2>1
  <2>4. Append(names, x) = names \o <<x>> /\ names \o <<>> = names
    BY <2>3
  <2>5. CASE Covers(e, query.ts)
    BY <1>13, <1>14, <1>15, <2>2, <2>4, <2>5
  <2>6. CASE ~Covers(e, query.ts)
    BY <1>13, <1>14, <2>4, <2>6
  <2> QED
    BY <2>5, <2>6
<1>18. names' = MapFlat(g, FirstOf(q, i + 2))
  BY <1>11, <1>12, <1>17
<1>19. i' + 1 = i + 2 /\ query' = query
  BY <1>1, <1>2, <1>14
<1> QED
  BY <1>4, <1>7, <1>18, <1>19

\* After the last round, that is what all filters give, if the count told all.
LEMMA LookupReturns_Served ==
  ASSUME NEW filters, Encoded(filters), IndexInv, LookupReturns, CountFits(filters, query.log),
         names = MapFlat(Pick(filters, query.ts), FirstOf(byLog(filters, query.log), i + 1))
  PROVE  (names = Covering(filters, query.log, query.ts))'
<1>1. pc = "scan" /\ i = Count(at) /\ UNCHANGED <<query, names>>
  BY DEF LookupReturns, searchVars
<1>2. /\ byLog(filters, query.log) \in Seq(EntryFor(filters))
      /\ i = Len(byLog(filters, query.log)) /\ i \in Nat /\ query.ts \in Nat
  BY <1>1, FoundLog
<1>3. PICK S : S = EntryFor(filters)
  OBVIOUS
<1>4. PICK q \in Seq(S) : q = byLog(filters, query.log) /\ i = Len(q)
  BY <1>2, <1>3
<1>5. FirstOf(q, i + 1) = q
  <2>1. PICK n \in 1..(Len(q) + 1) : n = i + 1 /\ n - 1 = Len(q)
    BY <1>2, <1>4
  <2>2. FirstOf(q, n) \in Seq(S) /\ Len(FirstOf(q, n)) = n - 1
    BY FirstOfTyped
  <2>3. PICK h \in Seq(S) : h = FirstOf(q, n) /\ Len(h) = Len(q)
    BY <2>1, <2>2
  <2>4. \A m \in 1..Len(q) : h[m] = q[m]
    BY <2>1, <2>3 DEF FirstOf
  <2>5. h = q
    BY <2>3, <2>4
  <2> QED
    BY <2>1, <2>3, <2>5
<1>6. names = Covering(filters, query.log, query.ts)
  BY <1>2, <1>4, <1>5, CoveringIs DEF Encoded
<1> QED
  BY <1>1, <1>6

\* Every step keeps the invariant.
LEMMA Next_ServedInv ==
  ASSUME IndexInv, ServedInv, [EncoderNext]_<<vars, src>>
  PROVE  ServedInv'
<1>1. UNCHANGED <<src, file>>
  BY DEF EncoderNext, Next, Step, vars, readerVars, ReadHeader, ReadTables, CheckFilename,
         CheckOrder, CheckSection, SortSpans, CheckOverlap, Search, NotIndexed, ReadEntries,
         ScanEntry, LookupReturns, Lookup, Close
<1>2. SUFFICES ASSUME NEW filters \in src
               PROVE  /\ (pc = "scan" => names = MapFlat(Pick(filters, query.ts),
                                            FirstOf(byLog(filters, query.log), i + 1)))'
                      /\ (pc = "found" /\ CountFits(filters, query.log) =>
                            names = Covering(filters, query.log, query.ts))'
  BY <1>1 DEF ServedInv
<1>3. /\ Encoded(filters)
      /\ pc = "scan" => names = MapFlat(Pick(filters, query.ts),
                                        FirstOf(byLog(filters, query.log), i + 1))
      /\ pc = "found" /\ CountFits(filters, query.log) =>
            names = Covering(filters, query.log, query.ts)
  BY <1>2 DEF ServedInv, Encoded
<1>4. CASE ReadEntries
  <2>1. pc' # "found"
    BY <1>4 DEF ReadEntries
  <2> QED
    BY <1>3, <1>4, <2>1, ReadEntries_Served
<1>5. CASE NotIndexed
  <2>1. pc' # "scan"
    BY <1>5 DEF NotIndexed
  <2> QED
    BY <1>3, <1>5, <2>1, NotIndexed_Served
<1>6. CASE ScanEntry
  <2>1. pc = "scan" /\ pc' # "found"
    BY <1>6 DEF ScanEntry, Advance
  <2> QED
    BY <1>3, <1>6, <2>1, ScanEntry_Served
<1>7. CASE LookupReturns
  <2>1. pc = "scan" /\ pc' # "scan" /\ query' = query
    BY <1>7 DEF LookupReturns, searchVars
  <2>2. CASE CountFits(filters, query.log)
    BY <1>3, <1>7, <2>1, <2>2, LookupReturns_Served
  <2>3. CASE ~CountFits(filters, query.log)
    <3>1. ~CountFits(filters, query'.log)
      BY <2>1, <2>3
    <3> QED
      BY <2>1, <3>1
  <2> QED
    BY <2>2, <2>3
<1>8. CASE UNCHANGED <<pc, i, query, names>>
  BY <1>3, <1>8
<1>9. CASE pc' # "scan" /\ pc' # "found"
  BY <1>9
<1>10. \/ ReadEntries \/ NotIndexed \/ ScanEntry \/ LookupReturns
       \/ UNCHANGED <<pc, i, query, names>> \/ (pc' # "scan" /\ pc' # "found")
  <2>1. ASSUME Step PROVE <1>10!:
    BY <2>1 DEF Step, ReadHeader, ReadTables, CheckFilename,
         CheckOrder, CheckSection, SortSpans, CheckOverlap, Search, Loop, Advance, Reject, ReadFails
  <2>2. ASSUME NEW log \in LogId, NEW ts \in Timestamp, Lookup(log, ts)
        PROVE  pc' # "scan" /\ pc' # "found"
    BY <2>2 DEF Lookup, Loop
  <2>3. ASSUME Close PROVE UNCHANGED <<pc, i, query, names>>
    BY <2>3 DEF Close, searchVars
  <2>4. ASSUME UNCHANGED <<vars, src>> PROVE UNCHANGED <<pc, i, query, names>>
    BY <2>4 DEF vars, searchVars
  <2> QED
    BY <2>1, <2>2, <2>3, <2>4 DEF EncoderNext, Next
<1> QED
  BY <1>4, <1>5, <1>6, <1>7, <1>8, <1>9, <1>10

\* The reader of an encoded file is the reader of Index.
LEMMA EncoderRefines == EncoderSpec => Spec
<1>1. EncoderInit => Init
  BY EncoderInit_Init
<1>2. [EncoderNext]_<<vars, src>> => [Next]_vars
  BY DEF EncoderNext
<1> QED
  BY <1>1, <1>2, PTL DEF EncoderSpec, Spec

(***************************************************************************)
(* Bytes and the reader agree for every list of filters that Bytes takes:  *)
(* the file is accepted, and Lookup gives for every log and timestamp the  *)
(* filters that cover, the earlier filter first, unless this log, whatever *)
(* the others, has more entries than its count can tell.                   *)
(***************************************************************************)
THEOREM Index_EncodedIsServed == EncoderSpec => []EncodedIsServed
<1>1. EncoderSpec => []IndexInv
  BY EncoderRefines, Index_IndexInv, PTL
<1>2. EncoderInit => ServedInv
  BY EncoderInit_Init
<1>3. IndexInv /\ ServedInv /\ [EncoderNext]_<<vars, src>> => ServedInv'
  BY Next_ServedInv
<1>4. IndexInv /\ ServedInv => EncodedIsServed
  <2> SUFFICES ASSUME IndexInv, ServedInv, NEW filters \in src
               PROVE  /\ pc # "rejected"
                      /\ pc = "found" /\ CountFits(filters, query.log) =>
                            names = Covering(filters, query.log, query.ts)
    BY DEF EncodedIsServed
  <2>1. /\ Encoded(filters)
        /\ pc = "found" /\ CountFits(filters, query.log) =>
              names = Covering(filters, query.log, query.ts)
    BY DEF ServedInv, Encoded
  <2>2. WellFormed
    BY <2>1, EncodedWellFormed
  <2>3. pc # "rejected"
    BY <2>2 DEF IndexInv, WellFormedAccepted
  <2> QED
    BY <2>1, <2>3
<1> QED
  BY <1>1, <1>2, <1>3, <1>4, PTL DEF EncoderSpec
=============================================================================
