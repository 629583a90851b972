--------------------------- MODULE ReencodeProofs ----------------------------
(***************************************************************************)
(* A copy made by crlite-reencode is right for any sequence of source      *)
(* caches, any number of runs, failures anywhere and updates at any time.  *)
(* None of the three properties is inductive: they need what a run under   *)
(* way has written so far (EntriesWritten, IndexWritten), and that what it *)
(* writes is no older than the manifest it read, which is no older than    *)
(* the manifest an earlier run left (Recent).                              *)
(***************************************************************************)
EXTENDS Reencode, TLAPS

PC == {"ended", "manifest", "index", "copy", "entry", "open", "write",
       "manifest out", "done"}

ManifestFile == [filename : Filename, hash : Nat \X {"V3", "V4"}]

Manifest == [generated_at : Nat, files : Seq(ManifestFile)]

ReencodeTypeOK ==
    /\ src \in 0..Len(Cache)
    /\ dest \in [DOMAIN dest -> [whole : BOOLEAN, asOf : 0..src]]
    /\ destManifest \in SUBSET Manifest
    /\ pc \in PC
    /\ n \in Nat
    /\ manifest \in Manifest
    /\ read \in 0..src

\* The run holds the manifest of an update of the source, with new hashes.
Holding == pc \notin {"ended", "manifest"}

\* The manifest held is the one of the update it is dated with.
Held ==
    Holding =>
        /\ manifest.generated_at \in 1..src
        /\ Len(manifest.files) = Len(Cache[manifest.generated_at].manifest)
        /\ \A k \in 1..Len(manifest.files) :
              manifest.files[k].filename = Cache[manifest.generated_at].manifest[k]

\* File f of the copy is whole and no older than the manifest held.
Good(f) == Whole(f) /\ dest[f].asOf >= manifest.generated_at

\* What the run has written: the entries before n, and the index.
EntriesWritten ==
    Holding => \A k \in 1..(n - 1) :
        /\ Good(manifest.files[k].filename)
        /\ manifest.files[k].hash =
              Hash(dest[manifest.files[k].filename].asOf, manifest.files[k].filename, "V4")

IndexWritten ==
    pc \in {"entry", "open", "write", "manifest out", "done"} => Good("index.bin")

\* Where the run is, and what it is about to write.
Position ==
    /\ pc = "manifest" => src > 0
    /\ pc \in {"manifest", "index", "copy"} => n = 1
    /\ Holding => n \in 1..(Len(manifest.files) + 1)
    /\ pc \in {"copy", "open", "write"} => read >= manifest.generated_at
    /\ pc \in {"open", "write"} =>
          n <= Len(manifest.files) /\ Entry \in DOMAIN Cache[read].files
    /\ pc \in {"manifest out", "done"} => n = Len(manifest.files) + 1
    /\ pc = "done" => destManifest = {manifest}

\* What the manifest in the copy says of it, and how old it may be.
Recent ==
    \A m \in destManifest :
        /\ m.generated_at <= src
        /\ Holding => m.generated_at <= manifest.generated_at
        /\ "index.bin" \in DOMAIN dest /\ dest["index.bin"].asOf >= m.generated_at
        /\ \A k \in 1..Len(m.files) :
              /\ m.files[k].filename \in DOMAIN dest
              /\ dest[m.files[k].filename].asOf >= m.generated_at

\* The inductive invariant.
CopyInv ==
    /\ ReencodeTypeOK
    /\ Held
    /\ EntriesWritten
    /\ IndexWritten
    /\ Position
    /\ Recent

-----------------------------------------------------------------------------
(* Facts the steps share *)

\* Nothing was copied and no run is under way.
LEMMA Init_CopyInv == Init => CopyInv
<1> SUFFICES ASSUME Init PROVE CopyInv
  OBVIOUS
<1>1. ReencodeTypeOK
  BY ReencodeAssumption DEF Init, ReencodeTypeOK, PC, Manifest, NoManifest
<1> QED
  BY <1>1 DEF Init, CopyInv, Held, EntriesWritten, IndexWritten, Position, Recent, Holding

\* The types the steps use.
LEMMA TypeFacts ==
  ASSUME CopyInv
  PROVE  /\ src \in Nat /\ src <= Len(Cache) /\ read \in 0..src /\ n \in Nat
         /\ manifest \in Manifest
         /\ manifest.generated_at \in Nat /\ Len(manifest.files) \in Nat
         /\ \A k \in 1..Len(manifest.files) : manifest.files[k] \in ManifestFile
         /\ \A k \in 1..Len(manifest.files) : manifest.files[k].filename \in Filename
<1>1. src \in Nat /\ src <= Len(Cache) /\ read \in 0..src
  BY ReencodeAssumption DEF CopyInv, ReencodeTypeOK
<1>2. n \in Nat /\ manifest \in Manifest
  BY DEF CopyInv, ReencodeTypeOK
<1>3. manifest.generated_at \in Nat /\ manifest.files \in Seq(ManifestFile)
  BY <1>2 DEF Manifest
<1>4. \A k \in 1..Len(manifest.files) : manifest.files[k] \in ManifestFile
  BY <1>3
<1>5. \A k \in 1..Len(manifest.files) : manifest.files[k].filename \in Filename
  BY <1>4 DEF ManifestFile
<1> QED
  BY <1>1, <1>2, <1>3, <1>4, <1>5

\* A manifest of the source is typed, lists what the source's manifest lists,
\* and is dated with the source.
LEMMA SourceManifestType ==
  ASSUME NEW g \in 1..Len(Cache)
  PROVE  /\ SourceManifest(g) \in Manifest
         /\ SourceManifest(g).generated_at = g
         /\ Len(SourceManifest(g).files) = Len(Cache[g].manifest)
         /\ \A k \in 1..Len(Cache[g].manifest) :
               SourceManifest(g).files[k].filename = Cache[g].manifest[k]
<1> DEFINE N == Len(Cache[g].manifest)
           fs == [k \in 1..N |-> [filename |-> Cache[g].manifest[k], hash |-> <<g, "V3">>]]
<1>1. Cache[g].manifest \in Seq(Filename) /\ N \in Nat /\ g \in Nat
  BY ReencodeAssumption
<1>2. \A k \in 1..N : fs[k] \in ManifestFile
  BY <1>1 DEF ManifestFile
<1>3. fs \in Seq(ManifestFile) /\ Len(fs) = N
  <2> HIDE DEF N
  <2> QED
    BY <1>1, <1>2
<1>4. SourceManifest(g) = [generated_at |-> g, files |-> fs]
  BY DEF SourceManifest
<1> QED
  BY <1>1, <1>3, <1>4 DEF Manifest

\* Put creates or replaces one file and leaves the others alone.
LEMMA PutOne ==
  ASSUME ReencodeTypeOK, NEW f, NEW whole \in BOOLEAN,
         read' \in 0..src, Put(f, whole)
  PROVE  /\ dest' \in [DOMAIN dest' -> [whole : BOOLEAN, asOf : 0..src]]
         /\ DOMAIN dest' = DOMAIN dest \cup {f}
         /\ dest'[f] = [whole |-> whole, asOf |-> read']
         /\ \A x \in DOMAIN dest : x # f => dest'[x] = dest[x]
BY DEF Put, ReencodeTypeOK

\* A run that writes a file whose source is no older than the manifest it
\* holds never makes the manifest in the copy overstate its date.
LEMMA PutRecent ==
  ASSUME CopyInv, Holding, NEW f, NEW whole \in BOOLEAN,
         read' \in 0..src, read' >= manifest.generated_at, Put(f, whole),
         UNCHANGED <<src, destManifest>>,
         Holding', manifest'.generated_at = manifest.generated_at
  PROVE  Recent'
<1> USE DEF CopyInv
<1>1. /\ DOMAIN dest' = DOMAIN dest \cup {f}
      /\ dest'[f] = [whole |-> whole, asOf |-> read']
      /\ \A x \in DOMAIN dest : x # f => dest'[x] = dest[x]
  BY PutOne, Zenon
<1>2. /\ manifest.generated_at \in Nat /\ src \in Nat /\ read' \in Nat
      /\ destManifest \in SUBSET Manifest
      /\ \A x \in DOMAIN dest : dest[x].asOf \in Nat
  BY ReencodeAssumption DEF ReencodeTypeOK, Manifest
<1> SUFFICES ASSUME NEW m \in destManifest
             PROVE  /\ m.generated_at <= src
                    /\ m.generated_at <= manifest.generated_at
                    /\ "index.bin" \in DOMAIN dest' /\ dest'["index.bin"].asOf >= m.generated_at
                    /\ \A k \in 1..Len(m.files) :
                          /\ m.files[k].filename \in DOMAIN dest'
                          /\ dest'[m.files[k].filename].asOf >= m.generated_at
  BY DEF Recent
<1>3. /\ m.generated_at \in Nat
      /\ m.generated_at <= src
      /\ m.generated_at <= manifest.generated_at
      /\ "index.bin" \in DOMAIN dest /\ dest["index.bin"].asOf >= m.generated_at
      /\ \A k \in 1..Len(m.files) :
            /\ m.files[k].filename \in DOMAIN dest
            /\ dest[m.files[k].filename].asOf >= m.generated_at
  BY <1>2 DEF Recent, Manifest
<1>4. \A x \in DOMAIN dest : dest[x].asOf >= m.generated_at => dest'[x].asOf >= m.generated_at
  BY <1>1, <1>2, <1>3
<1> QED
  BY <1>1, <1>3, <1>4
-----------------------------------------------------------------------------
(* Every step keeps the invariant *)

\* A step that writes no file and leaves the source alone keeps the types of
\* what it does not write and the dates of what is there.
LEMMA QuietStep ==
  ASSUME CopyInv, UNCHANGED <<src, dest, destManifest>>,
         pc' \in PC, n' \in Nat, manifest' \in Manifest, read' \in 0..src,
         Holding' => IF Holding THEN manifest'.generated_at = manifest.generated_at
                                ELSE manifest'.generated_at = src
  PROVE  ReencodeTypeOK' /\ Recent'
<1> USE DEF CopyInv
<1>1. ReencodeTypeOK'
  BY DEF ReencodeTypeOK
<1>2. Recent'
  BY DEF Recent
<1> QED
  BY <1>1, <1>2

\* Starting a run, or failing to, forgets the last run's manifest.
LEMMA Start_CopyInv ==
  ASSUME CopyInv, Start
  PROVE  CopyInv'
<1>1. NoManifest \in Manifest /\ src \in Nat
  BY ReencodeAssumption DEF CopyInv, ReencodeTypeOK, NoManifest, Manifest
<1>2. ReencodeTypeOK' /\ Recent'
  BY <1>1, QuietStep DEF Start, PC, Holding
<1>3. ~Holding' /\ n' = 1 /\ (pc' = "manifest" => src' > 0) /\ pc' \in {"ended", "manifest"}
  BY <1>1 DEF Start, Holding
<1>4. Held' /\ EntriesWritten' /\ IndexWritten' /\ Position'
  BY <1>3 DEF Held, EntriesWritten, IndexWritten, Position
<1> QED
  BY <1>2, <1>4 DEF CopyInv

\* The manifest read is the source's, no older than the one in the copy.
LEMMA ReadManifest_CopyInv ==
  ASSUME CopyInv, ReadManifest
  PROVE  CopyInv'
<1>1. src \in 1..Len(Cache) /\ n = 1 /\ read \in 0..src
  BY ReencodeAssumption DEF CopyInv, ReencodeTypeOK, Position, ReadManifest
<1>2. /\ manifest' \in Manifest
      /\ manifest'.generated_at = src
      /\ Len(manifest'.files) = Len(Cache[src].manifest)
      /\ \A k \in 1..Len(manifest'.files) :
            manifest'.files[k].filename = Cache[src].manifest[k]
  BY <1>1, SourceManifestType DEF ReadManifest
<1>3. ReencodeTypeOK' /\ Recent'
  BY <1>1, <1>2, QuietStep DEF ReadManifest, PC, Holding
<1>4. pc' = "index" /\ n' = 1 /\ src' = src
  BY <1>1 DEF ReadManifest
<1>5. Held'
  BY <1>1, <1>2, <1>4, ReencodeAssumption DEF Held
<1>6. EntriesWritten' /\ IndexWritten'
  BY <1>4 DEF EntriesWritten, IndexWritten
<1>7. Position'
  <2>1. Len(manifest'.files) \in Nat
    BY <1>2 DEF Manifest
  <2> QED
    BY <1>4, <2>1 DEF Position
<1> QED
  BY <1>3, <1>5, <1>6, <1>7 DEF CopyInv

\* Both halves of copying index.bin.  No entry is written yet.
LEMMA IndexCopy_CopyInv ==
  ASSUME CopyInv, OpenIndexCopy \/ CopyIndex
  PROVE  CopyInv'
<1>0. /\ \/ pc = "index" /\ pc' = "copy" /\ read' = src
         \/ pc = "copy" /\ pc' = "entry" /\ read' = read
      /\ UNCHANGED <<src, destManifest, n, manifest>>
  BY Zenon DEF OpenIndexCopy, CopyIndex
<1>1. Holding /\ Holding' /\ n = 1 /\ n' = 1
  <2>1. Holding /\ Holding'
    BY <1>0 DEF Holding
  <2> QED
    BY <1>0, <2>1 DEF CopyInv, Position
<1>2. manifest.generated_at \in 1..src /\ Held'
  BY <1>0, <1>1 DEF CopyInv, Held
<1>3. read' \in 0..src /\ read' >= manifest.generated_at
  <2>1. CASE read' = src
    BY <1>2, <2>1, TypeFacts
  <2>2. CASE pc = "copy" /\ read' = read
    BY <2>2, TypeFacts DEF CopyInv, Position
  <2> QED
    BY <1>0, <2>1, <2>2
<1>4. PICK w \in BOOLEAN : Put("index.bin", w) /\ (pc' = "entry" => w)
  BY Zenon DEF OpenIndexCopy, CopyIndex
<1>5. /\ dest' \in [DOMAIN dest' -> [whole : BOOLEAN, asOf : 0..src]]
      /\ DOMAIN dest' = DOMAIN dest \cup {"index.bin"}
      /\ dest'["index.bin"] = [whole |-> w, asOf |-> read']
  BY <1>3, <1>4, PutOne, Zenon DEF CopyInv
<1>6. ReencodeTypeOK'
  BY <1>0, <1>1, <1>3, <1>5 DEF CopyInv, ReencodeTypeOK, PC
<1>7. Recent'
  BY <1>0, <1>1, <1>3, <1>4, PutRecent
<1>8. EntriesWritten'
  BY <1>1 DEF EntriesWritten
<1>9. IndexWritten'
  <2>1. CASE pc' = "entry"
    <3>1. dest'["index.bin"] = [whole |-> TRUE, asOf |-> read']
      BY <1>4, <1>5, <2>1
    <3>2. Good("index.bin")'
      BY <1>0, <1>3, <1>5, <3>1 DEF Good, Whole
    <3> QED
      BY <3>2 DEF IndexWritten
  <2> QED
    BY <1>0, <2>1 DEF IndexWritten
<1>10. Position'
  <2>1. n' \in 1..(Len(manifest'.files) + 1) /\ read' >= manifest'.generated_at
    BY <1>0, <1>1, <1>3, TypeFacts
  <2>2. pc' \in {"copy", "entry"}
    BY <1>0
  <2> QED
    BY <1>1, <2>1, <2>2 DEF Position
<1> QED
  BY <1>2, <1>6, <1>7, <1>8, <1>9, <1>10 DEF CopyInv

\* Reading a filter remembers which update it was read at.
LEMMA ReadFilter_CopyInv ==
  ASSUME CopyInv, ReadFilter
  PROVE  CopyInv'
<1>1. /\ Holding /\ Holding' /\ src \in Nat /\ manifest \in Manifest /\ n \in Nat
      /\ pc = "entry" /\ pc' = "open" /\ read' = src
      /\ UNCHANGED <<src, dest, destManifest, n, manifest>>
      /\ n <= Len(manifest.files) /\ Entry \in DOMAIN Cache[src].files
  BY ReencodeAssumption
  DEF ReadFilter, Holding, CopyInv, ReencodeTypeOK, MoreEntries, Decodable
<1>2. manifest.generated_at \in 1..src /\ Held'
  BY <1>1 DEF CopyInv, Held
<1>3. ReencodeTypeOK' /\ Recent'
  BY <1>1, QuietStep DEF PC
<1>4. EntriesWritten' /\ IndexWritten'
  BY <1>1 DEF CopyInv, EntriesWritten, IndexWritten, Good, Whole
<1>5. Position'
  BY <1>1, <1>2 DEF CopyInv, Position, Entry
<1> QED
  BY <1>2, <1>3, <1>4, <1>5 DEF CopyInv

\* A run that ends without success leaves what is there.
LEMMA End_CopyInv ==
  ASSUME CopyInv, FilterFails \/ Fails
  PROVE  CopyInv'
<1>1. ReencodeTypeOK' /\ Recent'
  BY QuietStep DEF FilterFails, Fails, PC, Holding, CopyInv, ReencodeTypeOK
<1>2. pc' = "ended" /\ ~Holding'
  BY DEF FilterFails, Fails, Holding
<1>3. Held' /\ EntriesWritten' /\ IndexWritten' /\ Position'
  BY <1>2 DEF Held, EntriesWritten, IndexWritten, Position
<1> QED
  BY <1>1, <1>3 DEF CopyInv

\* The file being written is not one the entries before it describe, nor the
\* index: a manifest lists a file once.
LEMMA EntryIsNew ==
  ASSUME CopyInv, Holding, n <= Len(manifest.files)
  PROVE  /\ n \in 1..Len(manifest.files)
         /\ Entry \in Filename /\ Entry # "index.bin"
         /\ \A k \in 1..(n - 1) : /\ manifest.files[k].filename # Entry
                                  /\ k \in 1..Len(manifest.files)
<1>1. manifest.generated_at \in 1..Len(Cache)
  BY TypeFacts, ReencodeAssumption DEF CopyInv, Held
<1>2. n \in 1..(Len(manifest.files) + 1)
  BY DEF CopyInv, Position
<1>3. n \in 1..Len(manifest.files) /\ \A k \in 1..(n - 1) : k \in 1..Len(manifest.files) /\ k # n
  BY <1>2, TypeFacts
<1>4. Entry \in Filename
  BY <1>3, TypeFacts DEF Entry
<1>5. \A k \in 1..(n - 1) : manifest.files[k].filename # Entry
  BY <1>1, <1>3, DistinctFiles DEF CopyInv, Held, Entry
<1> QED
  BY <1>3, <1>4, <1>5, DistinctFiles

\* fs::write truncating the file of the entry: everything else stays.
LEMMA OpenFilter_CopyInv ==
  ASSUME CopyInv, OpenFilter
  PROVE  CopyInv'
<1>0. /\ pc = "open" /\ pc' = "write" /\ read' = read /\ Put(Entry, FALSE)
      /\ UNCHANGED <<src, destManifest, n, manifest>>
  BY Zenon DEF OpenFilter
<1>1. /\ Holding /\ Holding' /\ n <= Len(manifest.files)
      /\ Entry \in DOMAIN Cache[read].files /\ read >= manifest.generated_at
  BY <1>0 DEF Holding, CopyInv, Position
<1>2. /\ dest' \in [DOMAIN dest' -> [whole : BOOLEAN, asOf : 0..src]]
      /\ DOMAIN dest' = DOMAIN dest \cup {Entry}
      /\ \A x \in DOMAIN dest : x # Entry => dest'[x] = dest[x]
  BY <1>0, TypeFacts, PutOne, Zenon DEF CopyInv
<1>3. \A f \in Filename \cup {"index.bin"} : f # Entry /\ Good(f) => Good(f)' /\ dest'[f] = dest[f]
  BY <1>0, <1>2 DEF Good, Whole
<1>4. ReencodeTypeOK'
  BY <1>0, <1>2 DEF CopyInv, ReencodeTypeOK, PC
<1>5. Recent'
  BY <1>0, <1>1, TypeFacts, PutRecent, Zenon
<1>6. Held'
  BY <1>0, <1>1 DEF CopyInv, Held
<1>7. EntriesWritten'
  <2> SUFFICES ASSUME NEW k \in 1..(n - 1), NEW f, f = manifest.files[k].filename
               PROVE  Good(f)' /\ manifest.files[k].hash = Hash(dest'[f].asOf, f, "V4")
    BY <1>0 DEF EntriesWritten, Hash, Good, Whole
  <2>1. f \in Filename /\ f # Entry
    BY <1>1, TypeFacts, EntryIsNew
  <2>2. Good(f) /\ manifest.files[k].hash = Hash(dest[f].asOf, f, "V4")
    BY <1>1 DEF CopyInv, EntriesWritten
  <2> QED
    BY <1>3, <2>1, <2>2
<1>8. IndexWritten'
  BY <1>0, <1>1, <1>3, EntryIsNew DEF CopyInv, IndexWritten
<1>9. Position'
  BY <1>0, <1>1 DEF CopyInv, Position, Holding, Entry
<1> QED
  BY <1>4, <1>5, <1>6, <1>7, <1>8, <1>9 DEF CopyInv

\* The filter is written and its entry gets the hash of what was written.
LEMMA WriteFilter_CopyInv ==
  ASSUME CopyInv, WriteFilter
  PROVE  CopyInv'
<1>0. /\ pc = "write" /\ pc' = "entry" /\ read' = read /\ Put(Entry, TRUE)
      /\ manifest' = [manifest EXCEPT !.files[n].hash = NewHash]
      /\ n' = n + 1
      /\ UNCHANGED <<src, destManifest>>
  BY Zenon DEF WriteFilter
<1>1. /\ Holding /\ Holding' /\ n <= Len(manifest.files)
      /\ Entry \in DOMAIN Cache[read].files /\ read >= manifest.generated_at
  BY <1>0 DEF Holding, CopyInv, Position
<1>2. /\ dest' \in [DOMAIN dest' -> [whole : BOOLEAN, asOf : 0..src]]
      /\ DOMAIN dest' = DOMAIN dest \cup {Entry}
      /\ dest'[Entry] = [whole |-> TRUE, asOf |-> read]
      /\ \A x \in DOMAIN dest : x # Entry => dest'[x] = dest[x]
  BY <1>0, TypeFacts, PutOne, Zenon DEF CopyInv
<1>3. NewHash \in Nat \X {"V3", "V4"} /\ n \in 1..Len(manifest.files)
  <2>1. read \in 1..Len(Cache) /\ n \in 1..Len(manifest.files)
    BY <1>1, TypeFacts, EntryIsNew, ReencodeAssumption DEF CopyInv, Held
  <2> QED
    BY <1>1, <2>1, ReencodeAssumption DEF NewHash, Hash
<1>4. /\ manifest' \in Manifest
      /\ manifest'.generated_at = manifest.generated_at
      /\ Len(manifest'.files) = Len(manifest.files)
      /\ \A k \in 1..Len(manifest.files) : manifest'.files[k].filename = manifest.files[k].filename
      /\ \A k \in 1..Len(manifest.files) : k # n => manifest'.files[k] = manifest.files[k]
      /\ manifest'.files[n].hash = NewHash
  <2> DEFINE fs == [manifest.files EXCEPT ![n] = [manifest.files[n] EXCEPT !.hash = NewHash]]
  <2>1. manifest' = [manifest EXCEPT !.files = fs] /\ manifest \in Manifest
    BY <1>0, TypeFacts
  <2>2. manifest.files \in Seq(ManifestFile) /\ manifest.files[n] \in ManifestFile
    BY <1>3, TypeFacts DEF Manifest
  <2>3. /\ [manifest.files[n] EXCEPT !.hash = NewHash] \in ManifestFile
        /\ [manifest.files[n] EXCEPT !.hash = NewHash].hash = NewHash
        /\ [manifest.files[n] EXCEPT !.hash = NewHash].filename = manifest.files[n].filename
    BY <1>3, <2>2 DEF ManifestFile
  <2>4. /\ fs \in Seq(ManifestFile) /\ Len(fs) = Len(manifest.files)
        /\ \A k \in 1..Len(manifest.files) : k # n => fs[k] = manifest.files[k]
        /\ fs[n] = [manifest.files[n] EXCEPT !.hash = NewHash]
    BY <1>3, <2>2, <2>3
  <2> HIDE DEF fs
  <2>5. manifest'.files = fs /\ manifest'.generated_at = manifest.generated_at /\ manifest' \in Manifest
    BY <2>1, <2>4 DEF Manifest
  <2>6. \A k \in 1..Len(manifest.files) : fs[k].filename = manifest.files[k].filename
    BY <2>3, <2>4
  <2> QED
    BY <2>3, <2>4, <2>5, <2>6
<1>5. \A f \in Filename \cup {"index.bin"} : f # Entry /\ Good(f) => Good(f)' /\ dest'[f] = dest[f]
  BY <1>2, <1>4 DEF Good, Whole
<1>6. ReencodeTypeOK'
  BY <1>0, <1>2, <1>4, TypeFacts DEF CopyInv, ReencodeTypeOK, PC
<1>7. Recent'
  BY <1>0, <1>1, <1>4, TypeFacts, PutRecent, Zenon
<1>8. Held'
  BY <1>0, <1>1, <1>4 DEF CopyInv, Held
<1>9. EntriesWritten'
  <2> SUFFICES ASSUME NEW k \in 1..((n + 1) - 1), NEW f, f = manifest.files[k].filename
               PROVE  Good(f)' /\ manifest'.files[k].hash = Hash(dest'[f].asOf, f, "V4")
    <3>1. \A k \in 1..((n + 1) - 1) : manifest'.files[k].filename = manifest.files[k].filename
      BY <1>3, <1>4, TypeFacts
    <3> QED
      BY <1>0, <3>1 DEF EntriesWritten, Hash, Good, Whole
  <2>1. CASE k = n
    <3>1. f = Entry
      BY <2>1 DEF Entry
    <3>2. f \in DOMAIN dest' /\ dest'[f] = [whole |-> TRUE, asOf |-> read]
      BY <1>2, <3>1
    <3>3. Good(f)'
      BY <1>1, <1>4, <3>2 DEF Good, Whole
    <3>4. manifest'.files[k].hash = Hash(read, f, "V4")
      BY <1>4, <2>1, <3>1 DEF NewHash
    <3> QED
      BY <3>2, <3>3, <3>4
  <2>2. CASE k \in 1..(n - 1)
    <3>1. f \in Filename /\ f # Entry /\ k # n /\ k \in 1..Len(manifest.files)
      BY <1>1, <2>2, TypeFacts, EntryIsNew
    <3>2. Good(f) /\ manifest.files[k].hash = Hash(dest[f].asOf, f, "V4")
      BY <1>1, <2>2 DEF CopyInv, EntriesWritten
    <3>3. Good(f)' /\ dest'[f] = dest[f] /\ manifest'.files[k] = manifest.files[k]
      BY <1>4, <1>5, <3>1, <3>2
    <3> QED
      BY <3>2, <3>3
  <2> QED
    BY <1>3, <2>1, <2>2, TypeFacts
<1>10. IndexWritten'
  BY <1>0, <1>1, <1>5, EntryIsNew DEF CopyInv, IndexWritten
<1>11. Position'
  <2>1. n' \in 1..(Len(manifest'.files) + 1)
    BY <1>0, <1>3, <1>4, TypeFacts
  <2> QED
    BY <1>0, <2>1 DEF Position
<1> QED
  BY <1>6, <1>7, <1>8, <1>9, <1>10, <1>11 DEF CopyInv

\* Truncating the old manifest: from here on the copy claims nothing.
LEMMA OpenManifest_CopyInv ==
  ASSUME CopyInv, OpenManifest
  PROVE  CopyInv'
<1>1. /\ pc = "entry" /\ pc' = "manifest out" /\ destManifest' = {} /\ Holding /\ Holding'
      /\ ~(n <= Len(manifest.files))
      /\ UNCHANGED <<src, dest, n, manifest, read>>
  BY DEF OpenManifest, MoreEntries, Holding
<1>2. ReencodeTypeOK'
  BY <1>1 DEF CopyInv, ReencodeTypeOK, PC
<1>3. Recent' /\ Held'
  BY <1>1 DEF CopyInv, Recent, Held
<1>4. EntriesWritten' /\ IndexWritten'
  BY <1>1 DEF CopyInv, EntriesWritten, IndexWritten, Good, Whole
<1>5. Position'
  <2>1. n \in 1..(Len(manifest.files) + 1)
    BY <1>1 DEF CopyInv, Position
  <2>2. n = Len(manifest.files) + 1
    <3> DEFINE L == Len(manifest.files)
    <3>1. L \in Nat /\ n \in 1..(L + 1) /\ ~(n <= L)
      BY <1>1, <2>1, TypeFacts
    <3> HIDE DEF L
    <3>2. n = L + 1
      BY <3>1
    <3> QED
      BY <3>2 DEF L
  <2> QED
    BY <1>1, <2>1, <2>2 DEF Position
<1> QED
  BY <1>2, <1>3, <1>4, <1>5 DEF CopyInv

\* The new manifest is written: it lists files that are all there.
LEMMA WriteManifest_CopyInv ==
  ASSUME CopyInv, WriteManifest
  PROVE  CopyInv'
<1>1. /\ pc = "manifest out" /\ pc' = "done" /\ Holding /\ Holding'
      /\ UNCHANGED <<src, dest, n, manifest, read>>
  BY DEF WriteManifest, Holding
<1>2. destManifest' = {manifest}
  <2>1. [manifest EXCEPT !.generated_at = manifest.generated_at] = manifest
    BY TypeFacts DEF Manifest
  <2> QED
    BY <2>1 DEF WriteManifest, GeneratedAt
<1>3. ReencodeTypeOK'
  BY <1>1, <1>2, TypeFacts DEF CopyInv, ReencodeTypeOK, PC
<1>4. n = Len(manifest.files) + 1
  BY <1>1 DEF CopyInv, Position
<1>5. Recent'
  <2>1. Good("index.bin")
    BY <1>1 DEF CopyInv, IndexWritten
  <2>2. manifest.generated_at <= src
    <3>1. manifest.generated_at \in 1..src
      BY <1>1 DEF CopyInv, Held
    <3> QED
      BY <3>1, TypeFacts
  <2>3. \A k \in 1..Len(manifest.files) : k \in 1..(n - 1)
    BY <1>4, TypeFacts
  <2>4. \A k \in 1..Len(manifest.files) : Good(manifest.files[k].filename)
    BY <1>1, <2>3 DEF CopyInv, EntriesWritten
  <2>5. manifest.generated_at <= manifest.generated_at
    BY TypeFacts
  <2> QED
    BY <1>1, <1>2, <2>1, <2>2, <2>4, <2>5 DEF Recent, Good, Whole
<1>6. Held'
  BY <1>1 DEF CopyInv, Held
<1>7. EntriesWritten' /\ IndexWritten'
  BY <1>1 DEF CopyInv, EntriesWritten, IndexWritten, Good, Whole
<1>8. Position'
  BY <1>1, <1>2, <1>4 DEF CopyInv, Position
<1> QED
  BY <1>3, <1>5, <1>6, <1>7, <1>8 DEF CopyInv

\* The source moves on: everything there is older than it, or as old.
LEMMA Fetch_CopyInv ==
  ASSUME CopyInv, Fetch
  PROVE  CopyInv'
<1>1. /\ src' = src + 1 /\ src' \in 0..Len(Cache)
      /\ UNCHANGED <<dest, destManifest, pc, n, manifest, read>>
  BY TypeFacts, ReencodeAssumption DEF Fetch
<1>2. ReencodeTypeOK'
  <2>1. \A i \in 0..src : i \in 0..src'
    BY <1>1, TypeFacts
  <2>2. dest' \in [DOMAIN dest' -> [whole : BOOLEAN, asOf : 0..src']]
    BY <1>1, <2>1 DEF CopyInv, ReencodeTypeOK
  <2> QED
    BY <1>1, <2>1, <2>2 DEF CopyInv, ReencodeTypeOK
<1>3. Held'
  BY <1>1, TypeFacts, SMTT(20) DEF CopyInv, Held, Holding
<1>4. EntriesWritten' /\ IndexWritten'
  BY <1>1 DEF CopyInv, EntriesWritten, IndexWritten, Good, Whole, Holding
<1>5. Position'
  <2>1. src > 0 => src' > 0
    BY <1>1, TypeFacts
  <2>2. Entry' = Entry /\ Holding' = Holding
    BY <1>1 DEF Entry, Holding
  <2> QED
    BY <1>1, <2>1, <2>2 DEF CopyInv, Position
<1>6. Recent'
  <2>1. \A m \in destManifest : m.generated_at \in Nat
    BY DEF CopyInv, ReencodeTypeOK, Manifest
  <2> QED
    BY <1>1, <2>1, TypeFacts DEF CopyInv, Recent, Holding
<1> QED
  BY <1>2, <1>3, <1>4, <1>5, <1>6 DEF CopyInv

\* Steps that change nothing.
LEMMA Stutter_CopyInv ==
  ASSUME CopyInv, UNCHANGED vars
  PROVE  CopyInv'
<1> USE DEF vars
<1>1. ReencodeTypeOK' /\ Held' /\ EntriesWritten' /\ IndexWritten'
  BY DEF CopyInv, ReencodeTypeOK, Held, EntriesWritten, IndexWritten, Good, Whole, Holding
<1>2. Position' /\ Recent'
  BY DEF CopyInv, Position, Recent, Holding, Entry
<1> QED
  BY <1>1, <1>2 DEF CopyInv

\* The invariant holds in every state of every behaviour of the tool.
THEOREM Reencode_CopyInv == Spec => []CopyInv
<1>1. CopyInv /\ [Next]_vars => CopyInv'
  BY Start_CopyInv, ReadManifest_CopyInv, IndexCopy_CopyInv, ReadFilter_CopyInv,
     End_CopyInv, OpenFilter_CopyInv, WriteFilter_CopyInv, OpenManifest_CopyInv,
     WriteManifest_CopyInv, Fetch_CopyInv, Stutter_CopyInv DEF Next
<1> QED
  BY Init_CopyInv, <1>1, PTL DEF Spec

-----------------------------------------------------------------------------
(* What the copy promises *)

\* A run that succeeded describes every file it lists with the file's hash.
THEOREM Reencode_HashesMatch == Spec => []HashesMatch
<1>1. CopyInv => HashesMatch
  <2> SUFFICES ASSUME CopyInv, pc = "done" PROVE HashesMatch
    BY DEF HashesMatch
  <2>1. destManifest = {manifest} /\ n = Len(manifest.files) + 1 /\ Holding
    BY DEF CopyInv, Position, Holding
  <2>2. \A k \in 1..Len(manifest.files) : k \in 1..(n - 1)
    BY <2>1, TypeFacts
  <2> QED
    BY <2>1, <2>2 DEF CopyInv, EntriesWritten, HashesMatch, Good
<1> QED
  BY Reencode_CopyInv, <1>1, PTL

\* The copy's index leads to whole filters, the source's own if it stood still.
THEOREM Reencode_CopyIsServed == Spec => []CopyIsServed
<1>1. CopyInv => CopyIsServed
  <2> DEFINE g == manifest.generated_at
  <2> SUFFICES ASSUME CopyInv, pc = "done",
                      Cache[g].names \subseteq {Cache[g].manifest[k] : k \in 1..Len(Cache[g].manifest)}
               PROVE  /\ Whole("index.bin")
                      /\ g = src => dest["index.bin"].asOf = src
                      /\ dest["index.bin"].asOf = g => \A f \in Named :
                            Whole(f) /\ (g = src => Cache[dest[f].asOf].files[f] = Cache[src].files[f])
    BY DEF CopyIsServed
  <2>1. n = Len(manifest.files) + 1 /\ Holding
    BY DEF CopyInv, Position, Holding
  <2>2. Good("index.bin")
    BY DEF CopyInv, IndexWritten
  <2>3. \A x \in DOMAIN dest : dest[x].asOf \in 0..src
    BY DEF CopyInv, ReencodeTypeOK
  <2>4. \A f : Good(f) /\ g = src => dest[f].asOf = src
    BY <2>3, TypeFacts DEF Good, Whole
  <2>5. ASSUME dest["index.bin"].asOf = g, NEW f \in Named
        PROVE  Good(f)
    <3>1. f \in Cache[g].names
      BY <2>2, <2>5 DEF Named, Good
    <3>2. PICK k \in 1..Len(Cache[g].manifest) : f = Cache[g].manifest[k]
      BY <3>1
    <3>3. k \in 1..Len(manifest.files) /\ f = manifest.files[k].filename
      BY <2>1, <3>2 DEF CopyInv, Held
    <3>4. k \in 1..(n - 1)
      BY <2>1, <3>3, TypeFacts
    <3> QED
      BY <2>1, <3>3, <3>4 DEF CopyInv, EntriesWritten
  <2> QED
    BY <2>2, <2>4, <2>5 DEF Good
<1> QED
  BY Reencode_CopyInv, <1>1, PTL

\* The date of the copy is never later than what it holds, at any moment.
THEOREM Reencode_FreshnessNotOverstated == Spec => []FreshnessNotOverstated
<1>1. CopyInv => FreshnessNotOverstated
  BY DEF CopyInv, Recent, FreshnessNotOverstated, LoadManifest
<1> QED
  BY Reencode_CopyInv, <1>1, PTL
=============================================================================
