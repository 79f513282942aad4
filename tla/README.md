# A verification of debuginfod-go

TLA+ modules, TLC runs and TLAPS proofs about debuginfod-go, a server that indexes
ELF files and packages by build-id, serves them over the debuginfod protocol, and
saves disk space by replacing `.debug` files of successive builds with xdelta3
deltas. Paths such as `internal/dedup/pipeline.go:421` are relative to the
repository's root.

The most important promise of the program is that a debug file once uploaded can
always be had again, although the deduplication removes the original. That is where
the project starts.

The second promise is that of an index: what lies under the scan roots and stays
there can be found, whatever is written, fails or ends while a scan is under way. The
server around it, from the trigger of a scan to the answer of a request, is the other
large part.

    tlc -workers 2 -config DedupStable.cfg MCDedupPipeline     a run
    tlapm DedupStableProofs.tla                                 a proof

## 1. Inventory

### 1.1 Components

| component | state it keeps | operations |
|---|---|---|
| dedup pipeline, `internal/dedup` | `.debug` and `.xdelta` files on disk; work directories; per run the pending list and the groups | `Discover`, `RunIngestAll`, `RunBackfill`, `processGroups`, `processGroup`, `runGroupJob`, `compressOne` |
| dedup restore, `internal/dedup/restore.go` | the copies in `CACHE/dedup-restored` | `RestoreToCacheWithOpts`, `restoreDelta`, `restoreZstdBlob` |
| dedup rows, `internal/storage/dedup.go`, `artifact_lookup.go` | tables `dedup_files` (status, kind, base, hash, sizes) and `dedup_build_dirs` (status) | upsert, mark done / error, list pending, finish a directory, migrate |
| scan runner, `internal/scanrunner` | a trigger channel with one slot, the flag `scanning` | `Run`, `Trigger`, `executeScan`, `postWebhook` |
| indexer, `internal/indexer` | the jobs channel, workers, counters | `Scan`, `indexELF`, `indexArchive`, `indexSourcePackage` |
| artifact store, `internal/storage/sqlite.go` | tables of artifacts, sources and scanned files (mtime, size) | `NeedsScan`, `MarkScanned`, `AddArtifact`, `AddSourceLocation`, lookups, paged searches |
| archives, `internal/archive` | extracted members in the cache directory | `ExtractToCache`, `ExtractMember`, member readers for deb, rpm, tar, dsc, srpm |
| cache pruning, `internal/cache` | the same directory | `Prune`, `DirSize` |
| metrics, `internal/metrics` | scan phase, progress, last scan, readiness, counters | `BeginScan`, `SetScanPhase`, `MarkReady`, `RecordScan` |
| web API, `internal/webapi` | none of its own but the token buckets | `serveArtifact`, metadata queries, admin scan and dedup |
| rate limiter, `internal/webapi/security.go` | a token bucket per address | `allow` |
| federation, `internal/federation` | none | `Fetch` from the first upstream that has the file |
| file name patterns, `internal/fnmatch`, `pkg/debugfilename` | none | matching, parsing `lib-1.2-34.debug` |
| web UI, `internal/webui`, `internal/storage/ui_*.go` | none | searches, groups by build-id, the tree of files and commits from two tables |
| server process, `cmd/debuginfod/main.go` | all of the above in memory | start, signal, end; systemd starts it again |
| history, path checks, logging, configuration, other commands, benchmark, ELF readers | none, or records that are only appended | parsing, wiring |

### 1.2 How they interact

    cmd/debuginfod ── goroutine ── scanrunner.Run ── indexer.Scan ── storage
         │                              └─ after a scan: dedup.RunIngestAll ── storage, disk, tools
         └── HTTP ── webapi ── storage lookup ── dedup restore ── cache directory
                        │                     └─ archive.ExtractMember ── cache directory
                        ├── POST admin/scan ── scanrunner.Trigger
                        ├── POST admin/dedup ── dedup.RunBackfill ── storage, disk, tools
                        └── nothing found ── federation.Fetch

Nothing but the database and the file system is shared between an HTTP request and
a pipeline run, and there is no lock around either: an admin backfill can run while
the ingest after a scan does, requests restore deltas while both replace files, and
a scan rewrites rows that requests and pages of searches are reading.

### 1.3 What is hard

* **Interleavings.** Two runs over the same rows, files and deltas; the groups and
  targets of one run in parallel goroutines; concurrent requests over one copy in the
  cache; workers that meet the same build-id in files of different age; pages of a
  search between which rows are written.
* **Stale reads.** `Discover` reads sizes and snapshots and upserts later; pending
  lists are read once per run; a base is looked up and used afterwards. The walk of a
  scan takes the time of a file that a worker reads later; a request uses a row after
  the file it names was replaced.
* **Failures half way.** `objcopy`, `dwz` and `xdelta3` can fail after writing; the
  database can fail between two steps that belong together; the process can die
  between `os.Remove` and the record of the delta, or between the rows of a package
  and the mark that it was scanned. `main` does not wait for a scan when it returns.
* **Requests that meet a busy server.** A trigger that arrives during a scan shares a
  channel of one slot with others, and is drained later.
* **Long sequences.** The pipeline changes files in place, and the next `Discover`
  compares sizes: what a run leaves is the input of the next one.
* **Liveness.** Slots of groups and of the compression pool; directories that are
  claimed; rows that are registered again and again; files that fail to be indexed;
  clients that follow `next_offset`.

### 1.4 What makes each component correct

* Pipeline: no uploaded file becomes unrecoverable; an original is only removed
  against a delta that decodes; a base stays what its deltas were made from; runs
  end; pending files settle; repeated runs come to rest.
* Restore: a request is answered with exact bytes whatever other requests do; copies
  others may be serving stay; a file that can be restored is restored.
* Scan runner: every accepted trigger is followed by a scan that begins later.
* Indexer and artifact store: what is marked as scanned is in the index; a scan without
  an error has covered what its walk came to and what stood still; a row whose file is
  unchanged names what the file holds; rows are not lost and do not get older; a file
  that stays comes into the index in the end.
* Archives, cache and web API: what a request gets under a build-id has that build-id,
  unless the file was changed after it was indexed; requests for sections leave
  nothing behind in the cache.
* Searches and web UI: pages miss and repeat nothing that stands still and come to an
  end; the tree and the groups are whole; a pattern matches the names it means.
* Rate limiter: the tokens of an address never exceed the capacity.

`PROJECT.json` lists each hazard at its line, with the properties that cover it.

## 2. Modules

| module | what it is |
|---|---|
| `DebugStore` | abstract: what deduplication promises; files are put, withdrawn for a while, revealed again, never lost |
| `DedupPipeline` | the pipeline with its database rows, disk and runs; properties; `Store`, the refinement mapping to `DebugStore` |
| `DedupInvariant` | the four harmful steps, the behaviours without them, and the inductive invariant `IInv` |
| `DedupProofs`, `DedupStableProofs`, `DedupDeltaProofs` | proofs about `DedupPipeline` |
| `RestoreCache` | concurrent requests over the copies of restored files |
| `RestoreProofs` | proofs about `RestoreCache` |
| `RescanPromise` | abstract: what somebody who asks for a rescan is promised |
| `ScanRunner` | the loop that scans, its triggers, readiness and phases; `Promise`, the refinement mapping to `RescanPromise` |
| `PackageMembers` | which members of a package are listed, and which entry a name opens |
| `Indexer` | a scan: walk, jobs channel, workers, rows, marks, the cache of extracted members |
| `Serving` | requests for files, sources and sections |
| `Daemon` | the server: `ScanRunner`, `Indexer` and `Serving` in one process that ends and starts again |
| `IndexProofs`, `ServeProofs` | proofs about `Daemon`: the index; the runner and the requests |
| `Listings` | searches, pages, groups and the tree as operators on tables |
| `Catalogue` | clients that page and browse while the tables change |
| `Glob` | the matcher of file name patterns, and what a pattern means |
| `GlobProofs`, `CatalogueProofs` | proofs about `Glob`, and about `Catalogue` and the operators of `Listings` |
| `MCDedupPipeline`, `MCRestoreCache`, `MCDaemon`, `MCCatalogue` | the instances TLC checks |

### 2.1 DedupPipeline

| variable | in the program |
|---|---|
| `uploaded` | the files that were ever copied under a scan root (a history, nothing in the program) |
| `disk[f]` | the file at path `f`: `orig` as uploaded, `prep` after objcopy and dwz, `zstd` after `--compress-debug-sections=zstd`, `gone` |
| `delta[f]` | the file `f.xdelta`: the base and the bytes it was encoded from, and what it decodes to |
| `row[f]` | the row of `f` in `dedup_files`; `blob` says that `blob_path` is the delta's path |
| `dirStatus[d]` | `dedup_build_dirs.status` |
| `run[r]` | the locals of a `RunIngestAll` or `RunBackfill` under way: the directories left to walk, the changed files of the directory it is walking, the directories it took |
| `job[r][f]` | where the goroutine for `f` is in `processGroup`, `runGroupJob` or `compressOne`, the base it has and the bytes it copied |
| `faults` | number of failures so far, bounded by `MaxFaults` |

A run goes through `discover` (`WalkDir` reads a directory, `Register` upserts what
changed, in a transaction of its own), a listing (`ListAllPending`, or
`ListPendingDirs` and `ClaimDirs` for a backfill), `work`, and `FinishRun`.

In `work`, a group of two or more files stamps its base (`StampBase`, in place),
records it (`MarkBase`), lets the targets run, marks their failures when all have
ended (`JoinTargets`), and compresses the base in place with `CompressBase`
(`CompressInPlace`). A group of one file looks for a base in the database
(`PairWithBase`), makes one of a full file (`StampFull`, `MarkFullAsBase`), or keeps
the file full (`KeepFull`). `compressOne` is `CopyTarget`, `Encode`, `Verify`,
`RemoveOriginal` and `MarkDelta`, each a separate step of a separate goroutine, and
each with its failure (`CopyFails` ... `MarkDeltaFails`). `AbortGroup`,
`SingleFails`, `RunAborts` and `Crash` are the other failures.

An xdelta3 delta is a triple: it decodes only with the very bytes it was encoded
against. That is all the pipeline relies on, and what is lost when a base changes.

### 2.2 RestoreCache

One request is `ReadRow`, then `StatOriginal` for a full file, or for a delta
`LookUp` (is there a copy with the right size and hash?), `StartDecode`,
`FinishDecode`, `CheckHash`, `DropCopy`, and `Serve`, which opens the path and sends
what is there then. The variables: `original` and `kind` are the disk and the row,
`yields` what the delta of a file decodes to at present, `copy` the content of the
file in `dedup-restored`, `req` the goroutines that serve requests. The pipeline
appears through `RemoveOriginal`, `RecordDelta` and `ChangeBase`, the last one as free
as `DedupPipeline` with the production options lets it be.

### 2.3 ScanRunner

`loop` is where `Run` is: `boot`, `disabled` (a server that does not scan), `select`,
`drain`, `begin`, `scan`, `dedup`, `finish`, `stopped`, or `down` when there is no
process. `trigger` is the channel of one slot, `cancelled` the context, `ready` and
`phase` what `internal/metrics` publishes. `asked` is a history: whether the last
request of each asker is still waiting for a scan that begins after it, or covered.

`BootScanning` and `BootDisabled` are the start of `Run`; `Tick`, `Receive` and `Done`
the branches of its `select`, any of which may be taken when several are ready;
`Drain` is `drainTriggers`, `BeginScan` and `FinishScan` the parts of `executeScan`
around the scan and the hook after it, `Ask` is `Trigger`. `ScanReturns` and
`DedupReturns` are where control comes back.

`RescanPromise` says the same from outside: a set of askers that wait, which only a
scan that begins empties. `ScanRunner` implements it, with fairness when the process
is started again.

### 2.4 PackageMembers

A package is the sequence of its entries; the name of an entry is a path and how it
is written (plain, with a leading `./`, absolute). `ElfMembers` and `SourceMembers`
are the listing (`ListELFMembers`, `ListSourceMembers`), with the names each format
gives its members; `OpenMember` is the other walk, when a member is asked for by the
name in its row. `SafeName` is `ValidateMemberPath`. The formats themselves (tar,
cpio, ar, compression) are external.

### 2.5 Indexer

| variable | in the program |
|---|---|
| `lazy` | the option `lazyExtract` |
| `disk[p]` | what `stat` shows for a path: a stamp, which stands for time and size, and whether the file is there |
| `rows` | `artifacts` and `sources`: for each key the path, the member, `mtime`, whether the member is in the cache |
| `scanned[p]` | `scanned_files`, 0 for no row |
| `cache` | the files of the cache directory, oldest first, and the request that wrote each |
| `toWalk` | what `WalkDir` has not come to |
| `queue` | the jobs channel, of twice as many places as workers |
| `job[w]` | what the goroutine of a worker is at: the file it has, what it read, the members left |
| `errors` | `errorsCount` |
| `stable`, `covered` | histories: files that have not changed since the scan began, and that its walk has not missed; since a scan without an error began, whose walk did not miss them |

`StartWalk` is the start of `Scan`; `PassBy`, `SkipUnchanged` and `Enqueue` what the
walk does with a path. `WalkMisses` is a directory that cannot be listed, which loses
every file below it, or a file that `Info` or `IsELF` cannot look at: the walk goes on and
counts no error (`indexer.go:157`, `:164`, `elf.go:80`). `TakeJob`, `ReadElf`,
`AddElf`, `ListMembers`, `IndexMember`, `MemberFails`, `MembersDone` and `Mark` the steps of a worker; `EndWalk` waits for the
workers and prunes the cache. A worker reads the file as it is then, with the time the
walk saw. `IndexLost` is what a process that ends forgets; rows, marks and the cache
stay. `WriteFile` and `DeleteFile` change files at any time.

`Keys(p, s)` is what the file at `p` offers under stamp `s`: the build-id of an ELF
file, those of the members of a package, the names of sources. `Indexed(p, s)` says
that each has a row at least as new.

### 2.6 Serving

`req[q]` is one request: the row it found, the member it holds in memory, its answer.
`FindNoRow` and `FindRow` look up the row (`resolve.go`, `handler.go`); `ServePath`
serves a file, `Stream` a member from its package; `Stat`, `Create`, `Fill`,
`OpenCopy` and `Cleanup` are the extraction to the cache for a source or a section,
with the removal of the copy a section leaves, in the steps that other requests can
come between. Without a row `Upstream` stands for the federation.

### 2.7 Daemon

One step of `Daemon` is a step of the loop, of a scan under way, of a request, of the
files, or of the life of the process. `CallScan` and `ReturnScan` join the steps of
the loop and of the indexer; `Stop` ends the process at any point, `Start` starts it
with the database and the cache it left.

### 2.8 Listings and Catalogue

`Listings` has no state. `Page` is `collectMetadata`: the rows to keep from an offset
on, whether the answer is complete, `next_offset`. `Orders` are the orders the
database may return rows in when `ORDER BY` leaves ties. `Tree` is
`BuildUITreeFromFiles` with `buildProjectDirTree`, `Groups` is
`SearchBuildIDGroupedForUI`. `Catalogue` has a user who pages (`StartPaging`,
`GetPage`, `PageFails`) or browses (`StartBrowsing` reads the artifacts,
`FinishBrowsing` the rows of `dedup_files`) while rows are written. The user keeps, as
history, the rows that were there all the time (`seen`), whether one of them went
elsewhere or the order of the rows left something open (`moved`), whether the table
changed (`grown`), and whether an answer sent the client back (`rewound`): a search
without a limit that runs out of time before its first new row names no
`next_offset`, and the client begins at 0 again and gets rows twice.

### 2.9 Glob

`Match` follows `internal/fnmatch`. A place of the pattern has the set of places of the
name from which the rest of the pattern takes the rest of the name (`MatchesAt`): `match`
goes through the pattern from left to right, `matchStar` looks for some place at which the
rest goes on, and backtracking is a choice among those places. `Takes` is one step of
`match`, with the class in brackets that `MatchClass` reads; `SlashForm` is the
replacement of backslashes at the start.

What a pattern means is said without any order of search: `Denotes` asks whether the name
can be cut into one piece for each token of the pattern, where the tokens are what the
pattern was written with (`IsStar`, `IsAny`, `IsCharacter`, `IsClass`), a class being a list
of characters and ranges, perhaps with a mark (`IsListing`, `IsMarked`). `GlobAgrees`
compares the two on every pattern of up to `MaxTokens` tokens and every name of up to
`MaxLetters` characters, with and without `FNM_PATHNAME`; `PatternsAgree`, in
`Catalogue`, is that where the searches are.

## 3. Runs

| run | instance | result |
|---|---|---|
| `DedupStable` | 4 builds of one library in 2 directories, one run at a time (ingest or backfill), sizes kept by a rewrite, no `CompressBase`, one failing tool | no step is harmful (`NeverHarmful`); `IInv`, `Recoverable`, `BasesFrozen`; implements `DebugStore`, its fairness included |
| `DedupDefault` | 3 builds, production options, all kinds of runs, 2 failures of tools, database or process | originals are removed only against verified deltas (`RemovalVerified`), removed files leave a decodable delta (`DeltaLeft`), only a harmful step loses a file (`OnlyHarmLoses`) |
| `DedupConverge` | 5 builds in 2 groups, one slot for groups and one for targets, production options, no failure | repeated ingests come to rest (`Converges`), each run ends (`RunsEnd`) |
| `DedupOverlapEnds` | 2 builds, 2 overlapping ingests, `CompressBase`, one failing tool | `DeltaLeft`: a second run never replaces the delta of a removed original; `RunsEnd`, `PendingSettles` |
| `RestoreShared` | 3 requests, 2 files, one failure | `BodyIntact`, `CopyKept` |
| `ScanIndex` | a file, a copy and a package that change, 2 workers, lazy and eager extraction, one failure of the walk, a worker or the database, one end of the process | `ScannedIsIndexed`, `CleanScanCovers`, `RowsTrue`, `RowsOnlyRenewed` |
| `ScanLive` | one file and its next version, 2 askers, every configuration of the runner, one failure, one end of the process | `RequestKept`; implements `RescanPromise`, its fairness included; `EventuallyIndexed` |
| `Serving` | a file, a tarball and the source package that names it, 2 requests, a cache of one file, one copy that breaks off | `WrongOnlyIfChanged`, `SectionsLeaveNothing` |
| `Catalogue` | 6 rows of artifacts for 5 places in the table, of which 4 are read for groups, 3 of `dedup_files`, 5 searches, 3 queries, 4 changes, two timeouts; 7 tokens | `PagesMissNothing`, `PagesRepeatNothing`, `PagingEnds`, `BrowseMissesNothing`, `BrowseShowsOnce`, `TreeHoldsEach`, `GroupsWhole`, `PatternsAgree` |
| `DedupBaseLost` | 3 builds, production options | **violated** `BaseKept` |
| `DedupOverlap` | 3 builds, 2 overlapping ingests | **violated** `Recoverable` |
| `RestoreTwice` | one file, one request at a time, a strategy that changes sizes | **violated** `DeltaAnswered` |

### 3.1 What the violated runs show

* `DedupBaseLost`. dwz and the compression of sections change the size of a base in
  place. `Discover` compares the size on disk with `original_size`
  (`discover.go:190`), takes the base for a new upload and makes its row full and
  pending. A later run pairs it with another base, encodes it and removes it; the
  deltas that name it have no base any more.
* `DedupOverlap`. A walk that read sizes and snapshots before another run recorded a
  delta upserts the row afterwards as full and pending; the original is gone, the row
  becomes an error, and nothing leads to the delta.
* `RestoreTwice`. A copy in the cache is compared with the size of the uploaded file,
  while a delta decodes to the preprocessed one; the copy is not used, and xdelta3,
  called without `-f`, does not overwrite it. The first request is answered, the
  second fails.

Two more ways to lose a file show when one line of `DedupStable.cfg` is changed; they
have no run of their own.

* `Faults = {"crash"}`: the original is removed before the delta is recorded
  (`pipeline.go:421`); a crash in between leaves a row that does not know its delta
  (`Recoverable` is violated; a failure of the database there does the same).
* `CompressBase = TRUE`: a base compressed at the end of its own group is used as it
  is for a delta of a later run (`group_base.go:55`), so that the delta is encoded and
  verified against the compressed bytes, whereas `restoreDelta` decompresses the base
  first (`Recoverable` is violated).

Within what is modelled (section 6 names what is not: the migration, new content at an
old path, work directories) these are all the ways there are: `DedupInvariant` names the
four steps (`BaseTaken`, `RunsOverlap`, `RemovalCutShort`, `CompressedUsed`),
`CarefulSpec` are the behaviours that take none of them, and section 4 proves that these lose nothing. `DedupDefault`
checks the same of every step it comes to (`OnlyHarmLoses`).

### 3.2 Bounds

* Builds: three are a base, a target, and a file that comes later and makes the base
  a target or is alone; four add a second group or a second file for a later run, and
  two of them in another directory make batches and directory statuses matter. No
  action relates more than a file, its base and a candidate.
* Two directories, in two projects that differ only in a version and so share their
  group keys; a backfill takes one directory at a time (`Batch = 1`), so that one is
  left pending.
* `DedupConverge` has a group of three and a group of two builds, one slot for groups and
  one place in the pool: a group waits for the slot of the other, and two targets of one
  group, which holds that slot, wait for one place.
* At most two runs at once: the scan runner makes one ingest at a time, and one
  backfill over HTTP is enough for every pairwise race.
* Failures: one or two per behaviour (`MaxFaults`), at any step, so that one can hit
  the recovery of another.
* Restored files: two requests race for a copy while a third one serves it; two files
  show that copies do not interfere.
* Scans: two workers are a race for one row; a file, a copy with the same build-id
  that later loses it, and a package with a build-id of the file are all ways for one
  row to have several owners. Each path has two versions: the walk sees one, the
  worker the other. One end of the process is enough to cut a scan short at any step;
  the scan after it must make up for it.
* `ScanLive` has one path and one worker: the liveness of a file does not depend on
  others, except that the scan must end.
* Requests of the server: two extract the same member and remove each other's copies;
  a cache of one file makes every prune remove something.
* `Catalogue`: a build-id with two types, one whose row moves, one in a package with
  an empty `file_path`; a root within a root; pages of one row, so that every change
  falls between two pages. Two timeouts, since one that ends a page early and one that
  yields nothing are needed to send a client back. One row, of an executable that no
  search finds, is there from the start: with it the table comes to five rows, while four
  are read for groups (`RowCap`), so that the read is cut for one group and for two, for
  two of them right behind their last row. Three tokens make two stars with
  something between them, or a star with something on either side;
  `PatternsMeanWhatTheySay` covers the longer patterns.
* Symmetry: workers in `ScanIndex`, requests in `Serving`, files and requests of
  `RestoreShared`; no liveness property is checked with symmetry.

### 3.3 Fairness

`DedupPipeline`: `FairSpec` has weak fairness of `RunStep(r)` for each run: the
goroutines of a run are scheduled by the Go runtime, never block but on slots that are
released, and the external tools end. And of `StartIngest(r)`: the ticker of the scan
runner starts an ingest after every scan for as long as the server runs
(`runner.go:81`), with an interval configured and scans that succeed. Nothing is
assumed of uploads, backfills, failures or crashes. A failure is a step of its run, so
fairness does not force success; `MaxFaults` bounds how often it is taken.

`Daemon`: weak fairness of the loop, of the walk and of each worker, which are
goroutines that the runtime schedules; of `Stop` once the context is cancelled, since
`main` then shuts down; and of `Start`. systemd starts the server again when it failed
(`deploy/debuginfod-go.service`, `Restart=on-failure`); after a clean stop it is the
operator who does, and who otherwise asks for no promise. Whether `Tick` is taken
rather than another branch of `select` is not assumed; each leads to a scan or to
the end. Nothing is assumed of askers, files, failures or requests.

`EventuallyIndexed` is about a server with a ticker: without one a file that failed is
only tried again when somebody asks.

`Catalogue`: weak fairness of `GetPage`, a client that asks on until it is told that
the answer is complete, and a server that answers.

### 3.4 Mutants

Each property of a passing run has a plausible mistake in the code that breaks it
under the same configuration: a hash that is not compared, an output that is
overwritten, a candidate of any status, a base joined with its targets, a delta
recorded without its base, a failed target tried again, targets that take the slots of
groups; triggers drained after the
scan, an error that is not counted, a row whose time is asked for again, an upsert
without its guard, a file that is scanned only once, a copy that nothing removes, an
offset that starts over. The mutated definitions stand before the ones they replace.

## 4. Proofs

For every value of the constants that satisfies the assumptions of the modules:

* `DedupProofs!TypeCorrect`: `Spec => []TypeOK`, in every configuration, overlaps and
  failures included.
* `DedupStableProofs`, for any options, sizes, number of runs, failures and crashes, about
  the behaviours in which none of the four harmful steps is taken (`CarefulSpec`):
  * `Inductive`: `CarefulSpec => []IInv`,
  * `NoFileLost`: `CarefulSpec => []Recoverable`, and `NoOtherStepLoses`:
    `Spec => OnlyHarmLoses`, which says it of single steps whatever came before,
  * `BasesStayFrozen`: `CarefulSpec => BasesFrozen`, with `CompressBase` off,
  * `ImplementsStore`: `CarefulSpec => StoreSafety`, each step of the pipeline is a step
    of `DebugStore` or a stutter.

  And about the program as it is, under `StableConfig`, that is one run at a time, a
  strategy that does not change the size of the files it rewrites (as `xdelta` does not),
  `CompressBase` off, and no failures but those of external tools:
  * `StableIsCareful`: `Spec => CarefulSpec /\ NeverHarmful`,
  * `StableLosesNothing`: `Spec => []Recoverable /\ BasesFrozen /\ StoreSafety`.
* `DedupDeltaProofs`, in every configuration, for any number of failures and crashes:
  * `OriginalsLeaveDeltas`: `Spec => []DeltaLeft` under `SoleWriter`: xdelta3 refuses to
    overwrite, or there is one run. Runs may overlap in the first case.
  * `RemovalIsVerified`: `Spec => RemovalVerified` under `OneRun`.
* `RestoreProofs`: `AnswersIntact`, `Spec => []BodyIntact`, and `CopiesStay`,
  `Spec => CopyKept`, for any number of files, requests, failures and crashes;
  `CacheTypes`, `Spec => []TypeOK`.
* `IndexProofs`, for any files, workers, failures, requests and ends of the process:
  * `MarkedIsIndexed`: `Spec => []ScannedIsIndexed`,
  * `CleanScanIsComplete`: `Spec => []CleanScanCovers`,
  * `RowsAreTrue`: `Spec => []RowsTrue`,
  * `RowsStay`: `Spec => RowsOnlyRenewed`.
* `ServeProofs`, about the runner: `NoRequestForgotten`, `Spec => []RequestKept`, and
  `RunnerKeepsPromise`, the safety part of the refinement of `RescanPromise`, for any number
  of askers. About the requests: `RightFileServed`, `Spec => []WrongOnlyIfChanged`; `ListedIsOpened`,
  about the names of members in every format; `ServerTypeCorrect`, `Spec => []TypeOK` of
  `Daemon`, with the bound of the jobs channel; `SectionsRemoveCopies`,
  `Spec => [](stops = 0 => SectionsLeaveNothing)`: a process that ends between the
  extraction and the removal does leave its copy, so nothing is claimed then.
* `CatalogueProofs`, for any tables, searches, queries, limits, writes and timeouts:
  * `NoRowMissed`: `Spec => []PagesMissNothing`,
  * `NoRowTwice`: `Spec => []PagesRepeatNothing`,
  * `NothingLeftOut`: `Spec => []BrowseMissesNothing`,
  * `NothingShownTwice`: `Spec => []BrowseShowsOnce` under `PathsTell`,
  * `EveryFileHasOneNode`: `Spec => []TreeHoldsEach`,
  * `GroupsShowAll`: `Spec => []GroupsWhole`,
  * `PatternsMeanWhatTheySay`: `Spec => []PatternsAgree`, by `MatcherIsRight` of
    `GlobProofs`.
* `GlobProofs`, for patterns and names of any length, any characters and any tokens:
  * `MatcherIsRight`: `Match` accepts a name if and only if the pattern denotes it,
  * `ClassMeans`: `MatchClass` reads a class as it was written.

None of the four steps in `Harmful` is there for convenience: without the restriction
to one run `DedupOverlap` loses a file, and when one of the other three is left out of
`Harmful`, `DedupDefault` violates `OnlyHarmLoses`. The theorem is therefore a statement
about the code, as far as it is modelled (section 6): an original is lost by one of these
four things or not at all. Sizes that
a rewrite changes, crashes and database failures at any other moment, and compressed
bases that no later delta is made from, do no harm.

**The pipeline.** `Recoverable` is not inductive: from "every file can be restored"
nothing follows about a job that is about to rewrite a base. `IInv` adds what the jobs
under way may rely on. A walk picks up no file that a delta stands for (`SeenInv`); it
may pick up a base whose size a rewrite changed, but one that deltas need is not
registered again (that would be `BaseTaken`), and one without them may be. A job that
is not settled is about a full file that is not done (`JobInv`), whereas a candidate for a
base is settled; hence no job rewrites or removes a file with dependents, but for the
compression of a base, which the restore undoes. Targets wait until their base is recorded
(`GroupInv`), a verified delta decodes when the original is removed, from the base as the
restore sees it unless the step is `CompressedUsed` (`JobInv`), so what is removed is
recoverable (`OnDiskInv`, `DeltaInv`, `BaseInv`). All of this speaks of rows, disk and
deltas as a crash may leave them, so that a run may end anywhere but between the removal
of an original and its record. The proof has a lemma per family of actions; `UntouchedJob` says once for
all of them when a job a step is not about stays as `JobInv` wants it, and `StepStable`
joins them. `StableIsCareful` then excludes the four steps one at a time; for `BaseTaken`
it keeps with `IInv` that the sizes in the rows are those of the files (`SizeInv`).

**What a removed original leaves.** `DeltaLeft` needs to know who may write a delta.
`LeftInv` says that at most one job per file is past the encoder, that its original is
still on disk, and that a delta which was verified says what it decodes to
(`WriterOK`); a second run that encodes the same file finds the delta there and fails,
or, when the encoder overwrites, does not exist. `PairInv` is what the verification of a
delta relies on when there is one run, without the restrictions of `StableConfig`: from
the moment a target is paired until it is finished, its base is in no work of its own,
and the copy the delta was made from is the preprocessed original. That does not keep
the base for later runs (`DedupBaseLost`), but it does keep it until the original goes.

**The cache of restored files.** A copy has at most one writer (`WriterInv`), because
xdelta3 creates its output and refuses one that exists; the writer alone checks, hands
out or removes the copy. So a path that was handed out for a delta holds the recorded
bytes until it is served (`ServedInv`).

**The runner.** `RunnerInv` adds to `RequestKept` that a server that does not scan
accepts no requests. Each step of the loop either keeps the place a waiting request is
in (the trigger channel, or a loop that will begin a scan) or begins the scan.

**The index.** A mark in `scanned_files` must mean that the rows are there, although the
worker reads the file at another moment than the walk took its time, and the file may
change at any moment. `IndexInv` therefore speaks of what a worker has in hand only if
the file still has the stamp the walk saw (`Fresh`): times do not go back, so a worker
whose stamp is not the file's will leave a mark that `NeedsScan` does not take for
current. For fresh jobs the keys read are those of the file, each of them is in the index
or still to come (`ToCome`), and a job that is about to mark has indexed all (`JobInv`).
`CoverInv` follows a scan as a whole: a file that has not changed since it began is in
the walk, in the channel, with a worker (`Underway`), or indexed, as long as no error was
counted; at the end nothing is under way. `KeptWhileFilesStay`, `WorkerStepKeeps` and
`NothingLost` hold the parts that most steps share. `WalkMisses` takes what the walk missed
out of what the scan answers for (`MissedKeeps`): the code counts no error there, so that
`CleanScanIsComplete` is about the files that the walk came to, and a report without errors
says no more than that. A missed file gets no mark either; that a later scan brings it into
the index is `EventuallyIndexed`. `CleanScanCovers` is inductive only
together with `CoverInv`, `RowsTrue` only with the jobs that will write rows.

**The requests.** `ServeInv` follows a row from the worker that writes it to the
request that has found it: if the file still has the row's time, it offers the row's key
under the row's member name (`Sound`), and a worker's members are those of the file
(`LeftSound`). Rows are replaced while a request holds an old one, and the file is
replaced before the request opens it; `SoundStays` says that a stamp that moves on only
weakens what is claimed. `PathAnswer` and `StreamAnswer` then give the file or member;
the second needs `ListedIsOpened`.

**The copies for sections.** A copy in the cache that is no member of a source package
has a request for a section of the same member that is still to remove it (`CopiesInv`).
A removal takes the copy another request counts on, which then finds nothing; but no
file stays behind, since the cache is a directory: creation under a name that is taken
empties that file and makes no second one (`Directory`). `NamesInv` adds that only
sections and sources are copied to the cache at all: what is found under the name of a
source is in a source package, and members of packages are found by build-id.

**Pages and the tree.** `PagingInv` counts in ranks, the number of rows of the search
that come before a row. A row that was there all the time has been got or has a rank of
at least the offset (`Coming`): a row that is added only makes ranks grow, and one that
replaces another in its place leaves them (`RankGrows`). What was got while nothing
changed has a rank below the offset (`Passed`). Without ties the rank is the position in
every order the database may answer in (`OrderRanks`), and a page yields a stretch of
positions that begins at the offset (`PageFacts`). For the tree, `BrowseInv` keeps across
the two reads that nothing which was there all the time is missing from what was found
(`Reading`) and later from what is shown (`Shown`); that the filter of the database is no
stricter than the query needs that a relative path is an end of a path
(`RelativeIsEnd`). `LeafHasNode` holds for any set of leaves. The groups are an argument
with pigeonholes: a build-id has two rows at most (`TwoRowsForEach`), so a row that was
not read would leave more rows than the first build-ids have.

**The patterns.** `Match`, `MatchClass` and `Spelling` are functions that recurse over the
places of a text. What they compute is proved without an induction theorem that takes an
operator: `Induction` speaks of a set of numbers that holds 0 and with each number the next,
and the statement to prove becomes the definition of such a set. In that way
`PlacesExist`, `SpelledFacts` and `ListedCharsExist` show that the recursive equations have a
solution, which is what their `CHOOSE` yields, `TokensInPlace` says where each token stands
in the pattern, and `PatternMeans` goes through the tokens from the last to the first: from
where a token stands, the matcher accepts what the tokens from there on denote
(`RestDenotes`, `OneTokenOff`). `StarTakes` and `OneTakes` are the steps for a token;
`TokenTakes` leads each kind of token to them, for a class by `ClassInPlace` (it is
closed where it should be), `ListingRead` (the scan over its characters and
ranges sees the items it was written with) and `ClassMeans`.

Assumptions: `IndexAssumption`, `ServeAssumption`, `DaemonAssumption` and
`RunnerAssumption` are the types of the constants, no more than that times are positive
numbers, that the contents of a plain file are ELF or text, and that the number of
workers is finite. `NothingAssumption` says that the values that stand for nothing
(`None`, `NoId`, `Missing`) are no content or name. `PackageAssumption` says that no two
entries of a package have one path and that the name of a source is no build-id: a tar
may hold one path twice, in which case the first entry is opened (`First`) whichever was
indexed, and what is claimed does not hold. It also says that the build-ids in members
are among `Ids`. `AtFirstAssumption` is the key of the table of artifacts, one row for each
build-id and type, for the rows it starts with. `TablesAssumption` and `PathsAssumption` are the types of rows and
paths, that a row of `artifacts` is no row of `dedup_files`, and that no package is a
file of the pipeline: `registerDebugFiles` takes files named `*.debug` only, and archives are
known by other endings. `PathsTell` is a hypothesis of one theorem and not of the code:
with two scan roots that hold the same relative path, two different files are shown
alike. `MCCatalogue` assumes it of its instance, so that TLC evaluates it.
`TokensAssumption` says what the tokens of patterns are: each is a star, a question mark, a
character or a class that is closed by its first bracket, as the code reads it, and lists
something or has a mark. Every pattern is written with such tokens unless it has a
bracket that is never closed, or `[]`; from there on neither the code nor the model matches
anything, and there is no meaning to compare with.

Not proved, only model-checked: everything under fairness (`StoreSpec`, `Converges`,
`RunsEnd`, `PendingSettles`, `RescanHonoured`, `EventuallyIndexed`, `PagingEnds`), since
liveness under fairness is beyond this prover. Every other property of a passing run is
stated by a theorem; `IInv`, `Recoverable`, `BasesFrozen` and the refinement of
`DebugStore` for careful behaviours, `RemovalVerified` with one run.

## 5. Idealisations

Deduplication.

* Tools. Preprocessing is idempotent; decompressing a `zstd` base gives exactly the
  preprocessed bytes it was made from, which is what the code relies on; decompressing
  a file that is not compressed leaves it as it is. A failed preprocessing may have got
  past objcopy. An encoder may write a wrong delta without an error; `Verify` is there
  for that. xdelta3 does not overwrite its output (`xdelta.go` never passes `-f`), and
  looks and creates in one step. `Overwrites` lifts the first for the pipeline: the
  liveness run does not rely on it. If xdelta3's look and creation are apart, two
  requests that start in that window could write one copy; that is not modelled.
* A step is one SQL statement or transaction, one call of a tool, or one call of the
  file system. `ClaimDirs` joins the claim of the directories with the listing of their
  files.
* Failures of the database in the work on a group are those of the marks; outside of
  it they end the run (`RunAborts`). The failure of `MarkDedupFileError` itself, which
  is only logged, is left out, and so is one that hits `FinishBuildDirIfDone`.
* All projects are enabled (`DEDUP_PROJECTS` empty). `RunIngestForProject` has the
  shape of `RunIngestAll` and nothing calls it.
* A file is uploaded once; new content at an old path is not modelled. Build numbers
  of a group differ. Fewer rows share a stem than `group_base.go:14` reads.
* `RestoreCache` takes a file whose row is full to be as it was uploaded. The pipeline
  rewrites bases in place (`pipeline.go:286`, `:309`), and a request for one is answered
  with what is there; what its bytes are then is a matter of `DedupPipeline`.
* The copies of restored files are not pruned: that is the default (no limit).

Scans and requests.

* A stamp stands for modification time and size: it tells the contents of a path apart,
  and grows. Files restored with an older time are left out of the model (see 6).
* `WalkDir` comes to paths in any order. `IsELF`, `Info` and `NeedsScan` on one path are
  one step. `PassBy` may also pass a file that appeared after the walk listed its
  directory. `WalkMisses` loses any set of files at once, since the model has no
  directories: every tree of directories is among the cases.
* `artifacts` has one row per build-id here; the second key, debuginfo or executable, is
  left out, and rows of `sources` are named like the members they come from. What DWARF
  data names is not indexed in the model; that its reading may fail is (`AddElf`).
* Deduplication does not change files under `Indexer` and `Serving`; it has its own
  model, and a scan that finds a replaced file finds none there.
* The hook after a scan is always called: `NewScanHook` (`internal/dedup/scan_hook.go`) may
  hand the runner a typed nil, so that the phase says `dedup` for a moment either way.
* The webhook and the goroutine that copies progress numbers change no state that another
  part reads; they are left out.
* A source request asks for the name in a row; the search by suffix
  (`getSourceByPathSuffix`) is left out.
* A step of a request is a lookup, an opening with the reading of what is opened, a
  test, a creation, a copy or a removal. A file that was opened is served as it was then.

Searches.

* A path is a sequence of components, and its leading slash is no part of it: how absolute
  paths outside every scan root are cut as strings (`ui_tree.go:244`) is left out. `LOWER` of SQLite folds ASCII letters only, and
  `fnmatch` compares bytes: letters of the model have one case and one byte.
* Texts are words in sequence; equality search by `key=file` and the limits of
  `ui_dedup_browse.go` are left out; several rows that `ORDER BY` ranks equal come in any
  order, another one for each page.

## 6. Not modelled

The components that `PROJECT.json` marks as not modelled read data, append records or
wire the rest: history and summaries, logging and configuration, the benchmark, ELF
readers. The rate limiter is arithmetic in real time behind one mutex; nothing
interleaves in it. Within dedup: the restore of the zstd blobs of an earlier version, the
migration that resets rows (`storage/dedup.go:244`), the directories `dedup-prep-*` as
files a walk may find, new content at an old path, the limit of 64 candidates per stem,
the counters of a run, and the load that one-file groups put on the machine outside the
pool.

Hazards that are modelled or understood, and that no property covers, because the code
gives no promise there:

* A copy of a file with a later time takes over its row, and is then deleted: no scan
  looks at the first file again (`sqlite.go:222`).
* A `.dsc` that is scanned before its tarball is marked all the same (`dsc.go:27`).
* A package some of whose members failed is marked as scanned (`indexer.go:108`).
* With eager extraction a file of the same name in the cache is used whatever package
  version it came from (`archive.go:82`).
* A member with an absolute name is indexed with lazy extraction and refused when it is
  asked for (`pathsafe.go:43`).
* A scan whose walk could not list a directory, or look at or open a file, reports no error
  for it (`indexer.go:157`), and an alert on `last_scan_errors` does not notice.
* With more than 200 rows in an answer grouped by build-id, groups are cut
  (`ui_search.go:50`).

## 7. Plan

1. *(done)* `DebugStore`, `DedupPipeline`, its type invariant and its safety in the stable
   configurations; `RestoreCache`; their proofs.
2. *(done)* `ScanRunner` and `RescanPromise`; `Indexer` with the tables it fills and the
   members of packages; `Serving`; `Daemon`, which composes them; the proofs of the
   runner, the index and the requests.
3. *(done)* `Listings`, `Catalogue`, `Glob`.
4. *(done)* The safety properties that were only checked: what a removed original
   leaves, the copies for sections, the pages, the tree and the groups.
5. *(done)* Which restrictions the safety of the pipeline needs: the four harmful steps, and
   the proof for every configuration that takes none of them.
6. *(done)* The patterns, for any pattern and name.
7. To model next: new content at an old path in `DedupPipeline`, work directories as
   paths of a walk, the migration, files restored with an older time.
