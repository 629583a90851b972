------------------------------ MODULE Reencode -------------------------------
(***************************************************************************)
(* tools/crlite-reencode: a copy of a cache directory with its filters in  *)
(* V4 format.  index.bin is copied, each filter of the manifest is         *)
(* re-encoded, and the manifest is written last.  Meanwhile `upki fetch`   *)
(* may update the source.  A run may fail between any two writes or in the *)
(* middle of one (fs::write and fs::copy truncate the file and then fill   *)
(* it), and the tool may be run again over what is there.                  *)
(*                                                                         *)
(* The source goes through the caches of Cache, one for each update; what  *)
(* was read from it is known by the number of the update it was read at.   *)
(***************************************************************************)
EXTENDS Naturals, Sequences

CONSTANTS
    Filename,       \* names of filter files
    Cache           \* Cache[g]: manifest, the names the index leads to, and
                    \* the version of each file that is there; 0: undecodable

ASSUME ReencodeAssumption ==
    /\ Len(Cache) \in Nat
    /\ \A g \in 1..Len(Cache) :
        /\ Cache[g].manifest \in Seq(Filename)
        /\ Cache[g].names \subseteq Filename
        /\ DOMAIN Cache[g].files \subseteq Filename
        /\ \A f \in DOMAIN Cache[g].files : Cache[g].files[f] \in Nat

\* What the tool relies on and does not check: all files of a cache have names
\* of their own.  An entry whose file a later entry overwrites with another
\* version would keep the wrong hash.
ASSUME DistinctFiles ==
    /\ "index.bin" \notin Filename
    /\ \A g \in 1..Len(Cache) : \A j, k \in 1..Len(Cache[g].manifest) :
          Cache[g].manifest[j] = Cache[g].manifest[k] => j = k

VARIABLES
    src,            \* which cache the source is; 0 before the first fetch
    dest,           \* index.bin and filters of the copy: whole or not, and the
                    \* source they come from
    destManifest,   \* the copy's manifest.json: none, or its contents
    pc,             \* the next step of the run
    n,              \* the manifest entry it is at
    manifest,       \* the manifest it holds
    read            \* the source of the bytes about to be written

vars == <<src, dest, destManifest, pc, n, manifest, read>>

NoManifest == [generated_at |-> 0, files |-> <<>>]

Hash(g, f, encoding) == <<Cache[g].files[f], encoding>>

\* A manifest as read from the source: the hashes are those of its V3 files.
SourceManifest(g) ==
    [generated_at |-> g,
     files |-> [k \in 1..Len(Cache[g].manifest) |->
                   [filename |-> Cache[g].manifest[k], hash |-> <<g, "V3">>]]]

Init ==
    /\ src = 0
    /\ dest = <<>>
    /\ destManifest = {}
    /\ pc = "ended"
    /\ n = 0
    /\ manifest = NoManifest
    /\ read = 0

\* LoadManifest on the copy: what it returns, or nothing when the file is
\* missing or cut off and it fails.  Sizes and hashes are dropped.
LoadManifest ==
    {[GeneratedAt |-> m.generated_at,
      Files |-> {m.files[k].filename : k \in 1..Len(m.files)}] : m \in destManifest}

-----------------------------------------------------------------------------
(* A run *)

Put(f, whole) == dest' = [x \in DOMAIN dest \cup {f} |->
                             IF x = f THEN [whole |-> whole, asOf |-> read'] ELSE dest[x]]

\* The program is started: the source directory must be there.
Start ==
    /\ pc \in {"ended", "done"}
    /\ pc' = IF src > 0 THEN "manifest" ELSE "ended"
    /\ n' = 1
    /\ manifest' = NoManifest
    /\ read' = 0
    /\ UNCHANGED <<src, dest, destManifest>>

ReadManifest ==
    /\ pc = "manifest"
    /\ manifest' = SourceManifest(src)
    /\ pc' = "index"
    /\ UNCHANGED <<src, dest, destManifest, n, read>>

\* fs::copy: open both, then copy what was opened.
OpenIndexCopy ==
    /\ pc = "index"
    /\ read' = src
    /\ Put("index.bin", FALSE)
    /\ pc' = "copy"
    /\ UNCHANGED <<src, destManifest, n, manifest>>

CopyIndex ==
    /\ pc = "copy"
    /\ read' = read
    /\ Put("index.bin", TRUE)
    /\ pc' = "entry"
    /\ UNCHANGED <<src, destManifest, n, manifest>>

Entry == manifest.files[n].filename

\* A bug to detect: the loop leaves the last entry out.
OneEntryLess == n < Len(manifest.files)

MoreEntries == n <= Len(manifest.files)

\* The filter of the entry is there and can be decoded and encoded again.
Decodable == Entry \in DOMAIN Cache[src].files /\ Cache[src].files[Entry] > 0

ReadFilter ==
    /\ pc = "entry"
    /\ MoreEntries
    /\ Decodable
    /\ read' = src
    /\ pc' = "open"
    /\ UNCHANGED <<src, dest, destManifest, n, manifest>>

FilterFails ==
    /\ pc = "entry"
    /\ MoreEntries
    /\ ~Decodable
    /\ pc' = "ended"
    /\ UNCHANGED <<src, dest, destManifest, n, manifest, read>>

\* fs::write: truncate, then fill.
OpenFilter ==
    /\ pc = "open"
    /\ read' = read
    /\ Put(Entry, FALSE)
    /\ pc' = "write"
    /\ UNCHANGED <<src, destManifest, n, manifest>>

\* A bug to detect: the entry keeps the hash of the V3 file.
OldHash == manifest.files[n].hash

\* Sha256 of what was written.
NewHash == Hash(read, Entry, "V4")

WriteFilter ==
    /\ pc = "write"
    /\ read' = read
    /\ Put(Entry, TRUE)
    /\ manifest' = [manifest EXCEPT !.files[n].hash = NewHash]
    /\ n' = n + 1
    /\ pc' = "entry"
    /\ UNCHANGED <<src, destManifest>>

OpenManifest ==
    /\ pc = "entry"
    /\ ~MoreEntries
    /\ destManifest' = {}
    /\ pc' = "manifest out"
    /\ UNCHANGED <<src, dest, n, manifest, read>>

\* A bug to detect: the manifest is dated when it is written.
DatedNow == src

\* generated_at is preserved.
GeneratedAt == manifest.generated_at

WriteManifest ==
    /\ pc = "manifest out"
    /\ destManifest' = {[manifest EXCEPT !.generated_at = GeneratedAt]}
    /\ pc' = "done"
    /\ UNCHANGED <<src, dest, n, manifest, read>>

\* Any other error, or a crash: what was written stays.
Fails ==
    /\ pc \notin {"ended", "done"}
    /\ pc' = "ended"
    /\ UNCHANGED <<src, dest, destManifest, n, manifest, read>>

-----------------------------------------------------------------------------
(* The source moves on *)

Fetch ==
    /\ src < Len(Cache)
    /\ src' = src + 1
    /\ UNCHANGED <<dest, destManifest, pc, n, manifest, read>>

Next ==
    \/ Start \/ ReadManifest \/ OpenIndexCopy \/ CopyIndex
    \/ ReadFilter \/ FilterFails \/ OpenFilter \/ WriteFilter
    \/ OpenManifest \/ WriteManifest
    \/ Fails
    \/ Fetch

Spec == Init /\ [][Next]_vars

-----------------------------------------------------------------------------
(* Correctness *)

Whole(f) == f \in DOMAIN dest /\ dest[f].whole

\* The filters the copy's index leads to.
Named == IF Whole("index.bin") THEN Cache[dest["index.bin"].asOf].names ELSE {}

(***************************************************************************)
(* After a run that succeeded every file the manifest lists is there as a  *)
(* whole, and its hash is the file's, whatever earlier runs left behind    *)
(* and however the source changed between reading one file and the next.   *)
(***************************************************************************)
HashesMatch ==
    pc = "done" => \A m \in destManifest : \A k \in 1..Len(m.files) :
        LET f == m.files[k].filename
        IN  Whole(f) /\ m.files[k].hash = Hash(dest[f].asOf, f, "V4")

(***************************************************************************)
(* "so the destination directory is internally consistent": a run that     *)
(* succeeded leaves a copy with every filter its index leads to, whatever  *)
(* earlier runs left behind and though filters may be those of a later     *)
(* update, provided that the source's manifest lists them and that no      *)
(* update came between reading the manifest and copying the index.  When   *)
(* the source stood still they are also the source's own versions.         *)
(***************************************************************************)
CopyIsServed ==
    LET g == manifest.generated_at
        listed == {Cache[g].manifest[k] : k \in 1..Len(Cache[g].manifest)}
    IN  pc = "done" /\ Cache[g].names \subseteq listed =>
            /\ Whole("index.bin")
            /\ g = src => dest["index.bin"].asOf = src
            /\ dest["index.bin"].asOf = g => \A f \in Named :
                  Whole(f) /\ (g = src => Cache[dest[f].asOf].files[f] = Cache[src].files[f])

(***************************************************************************)
(* "generated_at is preserved so go-upki's freshness signal stays          *)
(* meaningful": what LoadManifest reports of the copy, at any moment,      *)
(* after failed runs and while the source is updated, never claims more    *)
(* than is there: the index and the filters listed are at least as recent. *)
(***************************************************************************)
FreshnessNotOverstated ==
    \A m \in LoadManifest : \A f \in m.Files \cup {"index.bin"} :
        f \in DOMAIN dest /\ dest[f].asOf >= m.GeneratedAt
=============================================================================
