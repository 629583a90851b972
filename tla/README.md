# Verification of go-upki

go-upki answers "is this certificate revoked?" from a local cache of CRLite
filters that another program (`upki fetch`) keeps up to date. This directory
holds TLA+ models of its parts, the TLC runs that check them, and TLAPS proofs
of their safety properties. `PROJECT.json` maps every definition to the lines it
models.

## The system

| part | state | operations | talks to |
|---|---|---|---|
| `upki.Checker` (`upki/check.go`) | `mu` (RWMutex), `idx`, the readers it has open; per call: `reopens`; per pass: snapshot of `idx`, `seen`, `notRevoked`, `queried`, `notCovered` | `NewChecker(With)`, `Check` (`checkOnce`, `queryFilter`), `reopenIndex`, `Close` | Index, openers, filters, SCT extraction |
| openers and cache directory (`upki/check.go`) | `index.bin`, filter files | `OpenIndex`, `Open`; written by `upki fetch` | another process |
| `internal.Index` (`internal/upki_index.go`) | the tables read from `index.bin`, the reader, the closer | `NewIndexFromReader` (four validation loops), `Lookup` (`findLog`, scan), `Close` | reader |
| clubcard query (`internal/clubcard.go`) | none | `Filter.Contains`, `bitsXorIsZero` | |
| filter query (`crlite/crlite.go`) | none | `NewKey`, `Contains`, `containsAt`, coverage cutoffs | clubcard query |
| filter parser (`crlite/parser.go`) | rest of the input, the filter so far | `FromBytes` and its readers | |
| clubcard builder (`internal/test/clubcard_encode.go`) | ribbon rows, blocks | `buildBlock`, `insert`, `solve`, `Bytes` | its output is read by parser and query |
| index encoder (`internal/test/index_encode.go`) | none | lays out `index.bin` | Index |
| SCT extraction, `RawSerial` (`upki/sct.go`) | none | nested TLS and DER parsing | called by `Check` and `crlite-query` |
| manifest (`upki/manifest.go`) | none | reads `manifest.json` | written by `upki fetch` and `crlite-reencode` |
| `cmd/upki-https` | per handshake: a Checker, `sawNotRevoked` | `verifier`, the callback that reduces the results of all chains to "connect or not" | Checker |
| `cmd/crlite-query` | none | one certificate against one filter | SCT extraction, parser, filter query |
| `tools/crlite-reencode` (Rust) | the copy of a cache it writes | copies index, re-encodes filters, writes manifest | cache directory |

What is hard in it:

* **Concurrency in the Checker.** `Check` holds the read lock for a whole pass
  of lookups and file reads. A missing filter file makes it give the lock up,
  take the write lock and swap the index; other checks and `Close` run between
  any two of these, and the cache is rewritten all along.
* **A cache that changes underneath.** The index is a snapshot, the filter files
  are not. Correctness rests on a contract about the writer's order.
* **Verdicts from many answers.** Several filters answer, in an order nobody
  controls; revoked wins, good is provisional, and two counters tell an
  inconsistent index from an inconclusive one.
* **Untrusted binary tables.** Binary search, an overlap test after a sort,
  signed offsets, counts tested against what is left.
* **Linear algebra on packed bits.** Windows that straddle words, blocks that
  share columns, an elimination whose end and whose result depend on hashes.
* **Failing open.** `upki-https` treats every error as "unknown" and accepts by
  default, so how easily an error comes up decides what it lets through.
* **A writer without transactions.** `crlite-reencode` writes file after file in
  place, from a source that may change under it, and may stop anywhere.

## Modules

| module | models | state and actions |
|---|---|---|
| `RWMutex` | `sync.RWMutex` (external) | `readers`, `rwait`, `writer`; an announced writer stops new readers, `Unlock` admits the queued ones |
| `Verdicts` | statuses and errors of `Check` | what a chain and an index are, and `Justified`: the results an index justifies |
| `CacheDir` | the cache directory and its writer (external) | `files`, `pubs` (every `index.bin` so far); `WriteFilter`, `PublishIndex`, `RemoveFilter`, with or without the atomicity contract |
| `Checker` | `upki/check.go` | extends the three; one action for each lookup, each filter and each critical section |
| `RevocationService` | abstract: what a Checker promises | answers given in one instant from the index in use |
| `CheckerRefinement` | the refinement mapping | `ImplementsService` |
| `CheckerOpens` | `Checker` with two histories | how often each filter file was parsed, by each call (`opened`) and by its present attempt, from the moment `checkOnce` makes its map `seen` (`parsed`) |
| `Wire` | lengths before values (`addU64Seq`), shared by the encodings | operators |
| `Index` | `internal/upki_index.go` | one action for each loop round of validation, search and scan |
| `Clubcard` | `internal/clubcard.go`, `crlite/crlite.go` | operators on words as sets of bits |
| `ClubcardBuilder` | `internal/test/clubcard_encode.go` | selection of the exact filter's serials, ribbon elimination, back substitution with every random bit, layout in shared columns |
| `Parser` | `crlite/parser.go`, and `Bytes` in `clubcard_encode.go` with its cut counts | one action for each group of fields and each loop round |
| `Certificate` | `upki/sct.go` | the rest of the list and the SCTs so far; one action for each loop round of `EmbeddedSCTs`, one for `RawSerial` |
| `CrliteQuery` | `cmd/crlite-query` | extends `Certificate` and `Clubcard`; one action for each step of `main` |
| `Verifier` | `verifier` of `cmd/upki-https`, and `upki.Check` | extends `Checker`; one action for each step of the callback, the deferred `Close` included |
| `IndexEncoder` | `internal/test/index_encode.go` | extends `Index`; `Bytes` as an operator, then the reader on its output |
| `Reencode` | `tools/crlite-reencode`, and `LoadManifest` | the source's update, the copy, the manifest held; one action for each read and two for each write (truncate, fill) |
| `MC*` | instances for TLC | |
| `CheckerProofs` | proofs about `Checker` and `CheckerOpens`, the refinement included | |
| `VerifierProofs`, `ReencodeProofs` | proofs about `Verifier` and `Reencode` | |
| `IndexProofs` | proofs about `Index` and `IndexEncoder` | |
| `BuilderProofs` | proofs about `ClubcardBuilder` and the query in `Clubcard` | |
| `ParserProofs`, `QueryProofs` | proofs about `Parser`; about `Certificate` and `CrliteQuery` | |
| `WireProofs` | lemmas the last four share: induction on sequences, concatenations | |

### How the Checker model corresponds to the code

`c.idx` is a pointer to an `Index`; the model keeps the reader it owns (`r`) and
the publication it was opened on (`gen`). An open file keeps its contents, so an
index answers from `pubs[gen]` for as long as it lives. Pointer comparison in
`reopenIndex` is comparison of these records, and readers (like addresses) are
reused once nothing refers to them. `pc[p]` says where a goroutine is:
`rlock`, `enter`, `pass` (inside `checkOnce`), `reopenLock`, `reopen`,
`closeLock`, `close`, `done`. Bodies under the write lock are one action each,
since nothing can observe their middle; a pass under the read lock is one
action for each lookup and each file, because the cache changes between them.
`Leave` is every return of `checkOnce`, its deferred `RUnlock` and the loop
condition of `Check` included. `since`, the number of publications when the
call began, is history and decides nothing.

The contents of a filter file are what `Contains` answers for each leaf
(`Answer`), and a name stands for one content: the model's writer adds and
removes files but never rewrites one under the same name. `Index`, `Clubcard`
and `Parser` model how that answer comes about. With `CustomIndex` the index
comes from an opener of the caller's, whose lookups may fail with an error that
matches `fs.ErrNotExist` (`IndexGone`), which `Check` cannot tell from a missing
filter.

`Verifier` runs the whole Checker under the callback: `Checking` is any step of
`Check`, and the cache is updated between any two.

### The other models

`Index` takes word width and table sizes as parameters and keeps the conversion
of 64-bit offsets to signed ones (`Signed`). A filename byte is a letter class:
`"a"` stands for everything allowed but the dot. `Parser` works on cells, one
for each field whatever its width; entry sizes are in cells. `Layout` is the
wire format; `Encode` is what `Bytes` writes, which converts counts, moduli,
ranks and offsets to `uint8`, `uint16` or `uint32` without a test, so cells are
cut to `U8`, `U16` or `U32` values. The two differ for a filter that does not
fit. `Clubcard` has
words of `B` bits and vectors of `W` words; a word is the set of its one bits,
and its number (`Value`) that of the words below it; SHA-256 is the constant
operator `Hash`. In `ClubcardBuilder` the PRNG is a choice, so what holds, holds for
every seed. The inputs the builder is given must list every serial once and
no serial in both lists (`BuilderAssumption`): the code does not say what else
would mean.

`Certificate` works on cells as `Parser` does; an encoding is damaged in one
cell. The filter of a `CrliteQuery` run is found by search: the exact filter
that singles out the revoked serials. `IndexEncoder` has counts of `CountWidth`
bits. In `Reencode` the source is a sequence of caches, each update in one step
(a source that is itself half updated is not considered), and what was read is
known by the update it was read at; the hash of a file is its version and its
encoding.

## What the runs show

| run | question | bounds |
|---|---|---|
| `checker` | Two goroutines check, reopen and close while the contract-abiding cache moves on. `IndexHeldOpen`: no pass loses its index. `NoReaderLeak`. `MissingNeedsChurn`: "not exist" surfaces only after `maxIndexReopens` updates during the call. `ReopenMovesForward`, `CloseIsFinal`. `ImplementsService`: refinement. | 2 goroutines, 4 publications (the first index, one for each reopen, and one more), indexes that alternate so that every update removes what the one before it named |
| `verdict` | `VerdictSound`: every result follows from the answers of all filters one published index selects; also with corrupt indexes, corrupt sections, index backends that vanish and a writer that breaks the contract. `OpenedOncePerPass`: one pass parses no file twice, whatever the passes before it parsed | 1 goroutine, 2 SCTs, 2 filters, every pair of answers, 6 index shapes, 2 publications |
| `live` | `EveryCheckReturns`, `CloseReturns` | 2 goroutines, 1 reopen, 3 leaves so that a pass ends in every way it can, a filter that comes and goes without limit, an index backend that vanishes |
| `index` | `AcceptedIsWellFormed`, `WellFormedAccepted` (soundness and completeness of validation), `LookupExact`, `EveryCallEnds`; `EncodedIsServed`: the encoder's files are accepted and looked up in filter-list order | words of 6 bits; two or three logs with sections before, in, at and past every boundary; directories up to 5 logs; 3 entries; encoded: up to 3 filters over 3 logs, 5 kinds of coverage each, counts of 2 bits, so that a log has up to 6 entries where its count tells 3, with logs behind it |
| `clubcard` | `QueriesExact`: builder and query agree on every serial; `RowsAligned`, `ExceptionsNotRevoked`, `BuildEnds`; `IsDotProduct`: `bitsXorIsZero` is the dot product, on every column that is built, for every row and vector | words of 2 bits, vectors of 2 words; ranks 0, 1, 2; up to 3 issuers; every random bit |
| `query` | `ReadIsThere`: the SCTs and the serial returned stand in the certificate cell for cell, at all three levels of lengths; `IntactIsRead`: nothing intact is refused or misread; `PrintsTruth`: from DER to the status printed; `AnswersOrExits`; `CutoffsBoundAnswers` | serials that differ in sign bytes only, SCTs at and past the coverage, times at and past the ends of validity, every argument good or bad; and certificates of up to 2 SCTs, with or without extensions, version and other extensions, with every cell changed to each of 8 values, cut, put in, taken out |
| `verifier` | `DecisionBacked`, `FailsOpenOnlyInTrouble`, `ReturnsClean`, `CallbackReturns` | up to 2 chains of 4 leaves, both policies, 1 reopen, 3 publications |
| `reencode` | `HashesMatch`: the manifest describes the files that are there; `CopyIsServed`: they are all the index leads to; `FreshnessNotOverstated`: what `LoadManifest` dates is no older than it says | 4 updates of the source (one adds and rewrites, one drops and breaks a filter), 3 filenames, any number of runs |
| `parser` | `ReadsBack`, `ParsedIsFaithful`, `ParseEnds` | fields of 10 values; 36 small filters, 7 with one field at 9, the largest value it holds, and 7 with it at 10, the first that is cut; each intact, with any cell changed, cut anywhere, with a cell too many or too few |

Small words are enough for `Clubcard` because nothing in the code depends on 64
but the split of a bit position into word and shift, and with 2-bit words every
case of that split occurs (shift zero, shift across, last word, past the end).
Two goroutines are enough to race for a reopen and to have a `Close` in between;
the proofs below remove the bound for the safety properties.

Deadlock is checked in the runs of `Checker` itself and of `Reencode`. The
others turn it off: these are calls that end.

### Disagreements with the comments

* `opens_doc`: "Each distinct filter file is opened and parsed at most once per
  Check call" (`check.go:169`) holds for a pass, not for a call: each retry
  starts with a fresh `seen`.
* `stale`: the Checker "reopens the index automatically when a concurrent cache
  update supersedes it" (`check.go:60`) only when a filter file is missing; an
  update that removes no file the held index names goes unnoticed.
* `index_doc`: "entryOffset + sectionLen cannot overflow int64"
  (`upki_index.go:228`) fails for offsets near 2^63. The file is accepted and the
  log's `Lookup` then fails with a read error; `AcceptedIsWellFormed` shows that
  no other log is affected.

Other comments hold only with a condition, which the property that states them
names:

* `EmbeddedSCTs` returns `(nil, nil)` "when the extension is absent"
  (`sct.go:17`), and also when its list is empty, though the list it quotes has
  at least one entry (`sct.go:41`): `IntactIsRead`, where `noSCTs` is the outcome
  for both.
* `crlite-query` "prints Good / Revoked / Unknown" (`crlite-query/main.go:9`); it
  prints `NotCovered` or `NotEnrolled` for the last: `Truth` in `PrintsTruth`.
* `Bytes` of the index encoder "panics on inputs the format cannot represent"
  (`index_encode.go:34`), but cuts the count of a log's entries to 16 bits:
  `CountFits` in `EncodedIsServed`, of the log that is looked up. Such a log is
  answered from its first entries only; all others are served in full.
* `Bytes` of the filter encoder "panics on inputs the wire format cannot
  represent" (`clubcard_encode.go:58`), but cuts its counts as well. A block with
  65536 exceptions, or a filter over 65536 logs, is written with count 0, and
  what follows is not read as what it was: `CountsFit` in `ReadsBack`.
  `ParsedIsFaithful` needs no such condition.
* `readTimestampInterval` "parses a half-closed pair of CT timestamps"
  (`parser.go:149`), while `containsAt` takes a timestamp equal to either end as
  covered: `Covered` in `Clubcard`.
* The copy `crlite-reencode` makes is "internally consistent" (`main.rs:8`) only
  if no update of the source comes between reading its manifest and copying its
  index: the condition of `CopyIsServed`. Until the run has succeeded the copy's
  index names filters that are not there, so a Checker on the copy, which relies
  on the cache contract (`check.go:177`), reports missing files meanwhile.

### Fairness

`Checker`: weak fairness of each goroutine's own steps (the Go scheduler runs a
runnable goroutine) and strong fairness of taking the write lock, since
`sync.RWMutex` queues writers on a `sync.Mutex` whose starvation mode hands the
lock to a waiter. Nothing obliges callers to call, `Return` to happen, or the
cache to be updated. `Index`, `ClubcardBuilder` and `Parser` are sequential code
that keeps running: weak fairness of their steps. So are `CrliteQuery` and
`Verifier`; the latter needs no strong fairness, its Checker being its own.
`Reencode` states no liveness.

## What is proved

Every theorem holds for every value of the constants that the assumptions named
in the modules allow. The properties below are the definitions the runs check.

### The Checker

For every set of goroutines, filters, leaves and indexes, every bound on retries
and on publications (`CheckerAssumption`, `CacheAssumption`,
`VerdictAssumption`, `NoProcAssumption`). All in `CheckerProofs`.

* `TypeOK`, `IndexHeldOpen`, `NoReaderLeak` and `CloseIsFinal`.
  `IndexHeldOpen` is not inductive: it needs that a goroutine in a pass holds
  the read lock, that a queued reader is one that waits in `enter`, and that a
  goroutine in `reopen` or `close` is the announced writer (`LockInv`); that
  `c.idx` owns the only open reader (`HandleInv`); and what a check about to
  reopen remembers (`CallInv`). `SafeInv` is their conjunction with `TypeOK`;
  each action preserves it.
* `MissingNeedsChurn` and `ReopenMovesForward`, under the
  contract and with the index of a `DirOpener` (`Reliable`). The invariant
  counts: a check with `r` reopens behind it has seen at least `r` publications
  since it began, and a pass or reopen on an index that is not the one on disk
  has seen one more. The contract enters as: the files named by the index on
  disk are present.
* `VerdictSound`. The invariant says, of a pass under way, that
  the filters in `seen` are those selected by the SCTs done and the names done,
  and that the flag and the counters are the tallies of their answers.
* `ImplementsService`: initial states map to initial states,
  and with the three invariants above every step maps to one step of
  `RevocationService` or to none. `PublishIndex` is a publication;
  `NewCheckerWith` and `ReopenIndex` advance the index in use (to a later one
  under the contract, by `ChurnInv`); the first `Close` shuts the service and
  a second one is a stutter; a pass that ends is the answer unless `Check`
  retries, and a failed reopen is one too. That the answer is justified by the
  index in use at that very instant, and not by one since replaced, is
  `HandleInv` (the pass holds `c.idx`) with `VerdictInv`.
* `OpenedOncePerPass`, of `OpensSpec`. The invariant `OpensInv` adds that a file
  not in `seen` has not been parsed since the pass began. It holds when a pass
  begins, where both are empty; that a file is parsed only while it is not in
  `seen`, is put there in the same step and stays until the next pass carries it
  through every other step.

### The callback of upki-https, and upki.Check

`VerifierProofs`, for any list of chains and any history of the cache
(`VerifierAssumption` with the Checker's). `Verifier_UsesChecker`:
`VerifierSpec` implies the Checker's `Spec`, so all of the above holds under the
callback. On top of it `CallbackInv` says where the one goroutine is inside the
Checker by where the call is (`Inside`), that nobody else can hold the lock
(`Alone`), that `c.idx` only moves to what is on disk and so was current during
the call (`Fresh`), and that each result remembers a publication that justifies
and explains it (`Told`). From it: `ReturnsClean`, `DecisionBacked`,
`FailsOpenOnlyInTrouble`.

### The index

`IndexProofs`, for files of any size, any number of names, logs and entries,
words of any width. `IndexAssumption` says what a file is, that its size is a
nonnegative `int64`, and that a section's length (a 16-bit count times the size
of an entry) does not exceed `Limit`, 2^63 in the code. `IndexInv` states what
each loop has established at its index: names, neighbours and sections before
`i` tested; `spans` holds each nonempty section before `i` once; the sort
permutes it; the search has excluded every log outside `lo..hi-1`; `names` are
those of the covering entries before `i`. From it: `IndexTypeOK`,
`AcceptedIsWellFormed` (that sections apart pairwise in the sorted order are
all apart rests on the order being transitive along the list),
`WellFormedAccepted`, `LookupExact`.

`Index_EncodedIsServed`, in the same module, composes the reader with `Bytes`
for every list of filters that does not make it panic. `EncoderAssumption` says
that the encodings are files in the sense of `IndexAssumption` (they fit into
signed offsets) and that the filenames are ones the reader takes, which `Bytes`
leaves to its caller. The argument: the sorted list of log ids exists, since the
number of smaller ids is a bijection onto places (`SortedExists`); the sections
are the segments of one concatenation (`Sections`, `SectionsApart`), so the file
is well formed (`EncodedWellFormed`) and is not rejected, by
`WellFormedAccepted`; the reader finds the `n`-th entry of a log at its place
(`EntryIs`); and the filters that cover are what the entries of the log give one
after the other (`CoveringIs`), which is what the scan has collected at its loop
index (`ServedInv`). A count that is cut makes its section shorter (`WrapBelow`),
so sections stay apart and only the scan of that log ends early.

### The clubcard builder, and the query of what it built

`BuilderProofs`, for any word size, vector width, hashes, number of issuers and
lists of serials, and every choice of the random bits. `BuilderAssumption` says
that issuers and serials come in lists, that hashes are vectors of the right
width, that an issuer is listed once and no serial in both its lists.

* `RowsAligned` and `ExceptionsNotRevoked`, from `RibbonInv`. The first rests on
  what `add` returns: the lowest coefficient of a sum that is not zero is
  brought to 0. The second is the argument of the comment in `buildBlock`, made
  precise: while only revoked serials have been inserted, every right-hand side
  is 0 (`Homogeneous`), so no equation becomes `0 = 1` and none fails; and
  whatever follows them in the universe is not revoked (`UniverseInv`).
* `IsDotProduct`: the words that `bitsXorIsZero` visits, shifted and combined,
  have together the parity of the bits at the vector's places from the row on.
  Parity of a finite set is shown to behave as a sum modulo 2 under symmetric
  difference and disjoint union.
* `QueriesExact`, from `BuildInv`. A column solves an equation if the dot
  product is the right-hand side. Whatever solves the rows solves the equation
  of each serial inserted so far, unless it became an exception: elimination
  replaces an equation by its sum with a row, and a sum has the solutions its
  parts share (`InsertInv`). Back substitution goes down the rows and leaves
  every row at or above the present one solved, whatever the random bits are,
  since the bit it sets is the lowest of its row and no higher row reads it
  (`SolveInv`). So a finished block tells its serials apart (`DoneInv`). In the
  layout a query reads nothing but the segment of its block, for a segment has
  room for the windows of its last rows; and the offset, computed from the first
  column, is right in all of them because blocks lie in the order of falling
  ranks.

### The parser

`ParserProofs`, for every input and every filter with fields that are numbers, a
log and an issuer listed once, no rank above the number of columns and no serial
longer than its length can tell, for which the builder panics (`hashAll`). The
widths of the fields are parameters (`ParserAssumption`).

* `ParsedIsFaithful`, from `ReadInv`: at every point of `FromBytes` the input is
  the encoding of what has been read (`wire`), followed by what is left, with
  counts that say how much of the present list is to come; the maps are what
  `wire` means, and no key was overwritten.
* `ReadsBack`, from `Ahead`, for filters whose counts and block fields fit
  (`CountsFit`): what `Bytes` writes of them is their `Layout` (`EncodeIsLayout`),
  and on it what is left is the encoding of what has not been read. So every test
  of a count against the rest passes (every coverage entry takes three cells,
  every block at least eight), and what has been read at the end is all.

### Certificates and crlite-query

`QueryProofs`, for certificates of any size, damaged or not
(`CertificateAssumption`: at most one SCT list, made of version 1 SCTs, and a
damage `crypto/x509` did not notice), and every command line.

* `ReadIsThere` and `IntactIsRead` as for the parser (`ReadInv`, `Ahead`), at
  three levels of lengths for the list and through tags for the serial.
* `PrintsTruth`, from what each step of `main` has established (`MainInv`) and
  the two above. `QueryAssumption` says that the filter singles out the revoked
  serials, which `QueriesExact` shows of the builder, and that its coverage is a
  finite map to intervals.
* `CutoffsBoundAnswers`: of the maximum over the logs, and of `containsAt`
  finding the first covered timestamp.

### crlite-reencode

`ReencodeProofs`, for every sequence of source caches, any number of runs, and
failures and updates anywhere. `HashesMatch`, `CopyIsServed`,
`FreshnessNotOverstated` from `CopyInv`: the manifest held is one the source
had (`Held`), the entries below `n` and the index are written whole from sources
no older than it (`EntriesWritten`, `IndexWritten`), and what an earlier run's
manifest claims is still true of the files (`Recent`). `CopyIsServed` speaks of
runs that have succeeded: nothing protects a copy that is half written. The
proof turned up a condition the tool relies on without checking: no manifest
lists a filename twice, and none is called `index.bin` (`DistinctFiles`). An
entry overwritten by a later one of the same name, read after an update of the
source, would keep the hash of the earlier version.

### How induction is done

The library's induction theorems have an operator as a parameter, which the
provers cannot instantiate. `WireProofs` proves them for sets instead: a set of
numbers that has 0 and every successor is `Nat` (`SetInduction`, from the
well-foundedness of `<`), and a set of sequences that has the empty one and every
extension is `Seq(S)` (`SeqInduction`). A statement about all sequences is then
about the set of those that satisfy it. `FlattenSeq` is a recursive function
inside a `LET`; that it exists, and what it gives for one sequence more or fewer,
comes first (`FlatExists`, `FlattenAppend`, `FlattenCons`).

### Model-checked only

Every invariant and every safety property of the passing runs is a theorem. What
stays with TLC is liveness (`EveryCheckReturns`, `CloseReturns`,
`EveryCallEnds`, `BuildEnds`, `ParseEnds`, `AnswersOrExits`,
`CallbackReturns`), which is outside the prover's reach with `ENABLED` and
fairness, and the three violations above.

## Not modelled

* The generated stringers, and `Manifest.GeneratedTime`: conversions without
  state. The JSON of the manifest is `encoding/json`'s work.
* In `cmd/upki-https`: flags, the HTTP request, the default cache directory.
  They hand values on; the handshake calls the callback.
* Openers over HTTP and the like: a caller supplies them. What they may do to a
  Checker is in `Checker` (I/O errors anywhere, `CustomIndex`).
* The program `upki fetch`. Its order of writes is the contract (`Atomic`), or
  any order at all.
* A Checker whose open `index.bin` is overwritten in place, as a second run of
  `crlite-reencode` over a copy in use does. The Checker's model assumes what
  the contract gives, that an open index keeps its contents.

## Plan

1. Done: the Checker with its lock and cache, its abstract service, the
   refinement, and the safety proofs; Index; clubcard query and builder; parser.
2. Done: certificate, index encoder, `crlite-query`, the verifier callback,
   `crlite-reencode`, custom index backends.
3. Done: proofs of the safety properties of `Index`, `Verifier` and `Reencode`,
   of the ribbon, and of the refinement.
4. Done: the encoders and their readers (`Parser`, `Certificate`,
   `IndexEncoder`), the answers of the builder's filters, `crlite-query` and the
   history of opened files as theorems.
5. Left: a composition of `CrliteQuery` with the filter that `ClubcardBuilder`
   builds and `Parser` reads, so that `QueryAssumption` becomes a theorem.
